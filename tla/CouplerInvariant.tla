-------------------------- MODULE CouplerInvariant --------------------------
(***************************************************************************)
(* The inductive invariant of Coupler: what the mesh leaves behind for the *)
(* exchange, where each rank is in its calls, and what is in flight        *)
(* between two ranks.                                                      *)
(***************************************************************************)
EXTENDS Coupler, MeshInvariant

-----------------------------------------------------------------------------
(* The mesh, as far as the exchange depends on it                          *)

ConnectorInv ==
  connector # <<>> =>
    /\ program = <<>> /\ ring.phase = "idle" /\ DistTyped /\ Raising = {}
    /\ connector = [kind \in Kinds |-> [r \in Ranks |-> Connector(kind, r)]]

-----------------------------------------------------------------------------
(* What a rank has called                                                  *)

LastCalls(n) == SubSeq(Round, 6 - n, 5)
Left(r) == Len(todo[r])

\* The exchange a rank is in, and how many of a kind it has started
Exchange(r) == IF Left(r) >= 3 THEN round[r] ELSE round[r] - 1
Started(r, kind) ==
  IF Left(r) = 5 \/ (kind = "reduced" /\ Left(r) = 4) THEN Exchange(r) - 1 ELSE Exchange(r)

\* The counter after c calls of startCollect, and the one of the nth of a kind
TagAt(c) == (c * Size) % TagLimit
TagOf(kind, n) == IF kind = "full" THEN TagAt(2 * n - 2) ELSE TagAt(2 * n - 1)

ShapeInv ==
  /\ DOMAIN todo = Ranks
  /\ round \in [Ranks -> Nat] /\ counter \in [Ranks -> Nat]
  /\ inUse \in [Ranks -> [Kinds -> BOOLEAN]] /\ collected \in [Ranks -> [Kinds -> Nat]]
  /\ DOMAIN buffer = Ranks /\ \A r \in Ranks : DOMAIN buffer[r] = Kinds

CallsInv(r) ==
  /\ \E n \in 0 .. 5 : todo[r] = LastCalls(n)
  /\ Exchange(r) > 0
  /\ inUse[r]["full"] <=> Left(r) \in 2 .. 4
  /\ inUse[r]["reduced"] <=> Left(r) \in 1 .. 3
  /\ counter[r] = TagAt(Started(r, "full") + Started(r, "reduced"))
  /\ \A kind \in Kinds :
       collected[r][kind] = IF inUse[r][kind] THEN Started(r, kind) - 1 ELSE Started(r, kind)

-----------------------------------------------------------------------------
(* What is between two ranks: p wants the values Wants(p, q, kind) of q    *)

Wants(p, q, kind) == connector[kind][p].recv[q]

MessageOf(q, p, kind) ==
  [from |-> q, to |-> p, of |-> kind, tag |-> TagOf(kind, Started(q, kind)) + q,
   data |-> [j \in DOMAIN Wants(p, q, kind) |->
               [dof |-> Wants(p, q, kind)[j], round |-> Started(q, kind)]]]
ReceiveOf(p, q, kind) ==
  [at |-> p, of |-> kind, from |-> q, tag |-> TagOf(kind, Started(p, kind)) + q]

MailInv ==
  \A m \in mail : \E p, q \in Ranks, kind \in Kinds :
    m = MessageOf(q, p, kind) /\ inUse[q][kind] /\ Wants(p, q, kind) # <<>>
PostedInv ==
  \A x \in posted : \E p, q \in Ranks, kind \in Kinds :
    x = ReceiveOf(p, q, kind) /\ inUse[p][kind] /\ Wants(p, q, kind) # <<>>

\* The values of the last exchange p has started are where it looks for those of q.
Got(p, q, kind) ==
  Started(p, kind) > 0 =>
    \A i \in DOMAIN Wants(p, q, kind) :
      buffer[p][kind][OffsetInShared(connector[kind][p].recv, q) + i]
        = [dof |-> Wants(p, q, kind)[i], round |-> Started(p, kind)]

\* The sender has started one exchange less than the receiver, as many, or one
\* more; what the receiver has not got is waited for, and on its way if it was sent.
PairInv(p, q, kind) ==
  LET sent == Started(q, kind)
      awaited == Started(p, kind)
      inMail == MessageOf(q, p, kind) \in mail
      isPosted == ReceiveOf(p, q, kind) \in posted
  IN \/ sent = awaited + 1 /\ inMail /\ ~isPosted /\ Got(p, q, kind)
     \/ sent = awaited /\ (inMail <=> isPosted) /\ (isPosted \/ Got(p, q, kind))
     \/ sent = awaited - 1 /\ ~inMail /\ isPosted

BufferInv(r, kind) ==
  Started(r, kind) > 0 =>
    DOMAIN buffer[r][kind] = 1 .. OffsetInShared(connector[kind][r].recv, Size)

ExchangeInv ==
  /\ ShapeInv
  /\ \A r \in Ranks : CallsInv(r)
  /\ \A r \in Ranks, kind \in Kinds : BufferInv(r, kind)
  /\ MailInv /\ PostedInv
  /\ \A p, q \in Ranks, kind \in Kinds : Wants(p, q, kind) # <<>> => PairInv(p, q, kind)

IInv ==
  /\ MeshInv /\ ConnectorInv
  /\ IF connector = <<>> THEN CouplerInit ELSE ExchangeInv

-----------------------------------------------------------------------------
(* What createNodeMappings accepts                                         *)

\* The node with the smallest Id of every element is one of its ends: so in the
\* reader's mesh, and so from there on.
LowEnd(e) == e.nodes # {} => \E id \in e.linear : \A j \in e.nodes : id <= j
EndsFirst == \A mesh \in Meshes : \A r \in Ranks : \A e \in mesh.elements[r] : LowEnd(e)
LowEnds == \A r \in Ranks : \A e \in elements[r] : LowEnd(e)

\* The labels of a kind are numbered in blocks, a rank's nodes carry all of its
\* own, and the first node of a rank has one.
Covered(kind) ==
  /\ DistOf(kind) \in [0 .. Size -> Int] /\ Ordered(DistOf(kind)) /\ DistOf(kind)[0] = 0
  /\ \A r \in Ranks : \A id \in DOMAIN nodes[r] :
       LabelOf(kind, r)[id] = Unset \/ LabelOf(kind, r)[id] \in 0 .. DistOf(kind)[Size] - 1
  /\ \A b \in Ranks : \A d \in Own(kind, b) : \E id \in DOMAIN nodes[b] : LabelOf(kind, b)[id] = d
  /\ \A r \in Ranks : DOMAIN nodes[r] # {} =>
       /\ FirstNode(r) \in DOMAIN nodes[r] /\ FirstNode(r) \in ReducedNodes(r)
       /\ LabelOf(kind, r)[FirstNode(r)] # Unset
=============================================================================
