------------------------------ MODULE Coupler ------------------------------
(***************************************************************************)
(* paso/src/Coupler.cpp on the connectors FinleyMesh built: every rank     *)
(* sends the values of the degrees of freedom others want and receives     *)
(* those it wants, while it goes on computing and while a second coupler   *)
(* is on its way (SystemMatrix::nullifyRowsAndCols starts a column and a   *)
(* row collect before it finishes either).  A caller may overwrite the     *)
(* values it has started to send: startCollect has packed copies of them.  *)
(* Ranks run at their own pace.                                            *)
(*                                                                         *)
(* A value is the label of its degree of freedom and the round in which    *)
(* its owner computed it.                                                  *)
(***************************************************************************)
EXTENDS FinleyMesh

CONSTANTS
  Rounds,    \* bound: exchanges a rank makes
  TagLimit   \* the modulus of the message tag counter (1010201)

ASSUME RoundsAssumption == Rounds \in Nat
ASSUME TagLimitAssumption == TagLimit \in Nat /\ TagLimit > Size

VARIABLES
  todo,      \* per rank: the calls left in this round
  round,     \* per rank: the round its local values are of
  counter,   \* per rank: msg_tag_counter
  inUse,     \* per rank and kind: in_use
  posted,    \* receives waiting for a message
  mail,      \* messages sent and not yet received
  buffer,    \* per rank and kind: recv_buffer
  collected  \* per rank and kind: the last round finishCollect returned

couplerVars == <<todo, round, counter, inUse, posted, mail, buffer, collected>>
allVars == <<meshVars, couplerVars>>

\* A round of nullifyRowsAndCols, with new values before the waits.
Round == <<<<"start", "full">>, <<"start", "reduced">>, <<"compute">>,
           <<"finish", "full">>, <<"finish", "reduced">>>>

Calls(r, call) == todo[r] # <<>> /\ Head(todo[r]) = call

CouplerInit ==
  /\ todo = [r \in Ranks |-> Round]
  /\ round = [r \in Ranks |-> 1]
  /\ counter = [r \in Ranks |-> 0]
  /\ inUse = [r \in Ranks |-> [kind \in Kinds |-> FALSE]]
  /\ posted = {} /\ mail = {}
  /\ buffer = [r \in Ranks |-> [kind \in Kinds |-> <<>>]]
  /\ collected = [r \in Ranks |-> [kind \in Kinds |-> 0]]

Init == MeshInit /\ CouplerInit

\* The calls left after one; the next round follows the last.
Rest(r) == IF Len(todo[r]) > 1 THEN Tail(todo[r])
           ELSE IF round[r] <= Rounds THEN Round ELSE <<>>

\* The receives startCollect posts, one per neighbour.
Receives(r, kind) ==
  {[at |-> r, of |-> kind, from |-> p, tag |-> counter[r] + p] :
     p \in {q \in Ranks : connector[kind][r].recv[q] # <<>>}}

\* The local value i of a rank.
Value(r, kind, i) == [dof |-> DistOf(kind)[r] + i, round |-> round[r]]

\* The messages startCollect sends: copies of the values in the send list.
Sends(r, kind) ==
  {[from |-> r, to |-> p, of |-> kind, tag |-> counter[r] + r,
    data |-> [j \in DOMAIN connector[kind][r].send[p] |->
                Value(r, kind, connector[kind][r].send[p][j])]] :
     p \in {q \in Ranks : connector[kind][r].send[q] # <<>>}}

StartCollect(r, kind) ==
  /\ connector # <<>>
  /\ Calls(r, <<"start", kind>>)
  /\ ~inUse[r][kind]
  /\ posted' = posted \cup Receives(r, kind)
  /\ mail' = mail \cup Sends(r, kind)
  /\ buffer' = [buffer EXCEPT ![r][kind] =
                  [i \in 1 .. OffsetInShared(connector[kind][r].recv, Size) |-> [dof |-> Unset, round |-> 0]]]
  /\ counter' = [counter EXCEPT ![r] = (@ + Size) % TagLimit]
  /\ inUse' = [inUse EXCEPT ![r][kind] = TRUE]
  /\ todo' = [todo EXCEPT ![r] = Rest(r)]
  /\ UNCHANGED <<meshVars, round, collected>>

\* The program overwrites the values it has started to send.
Compute(r) ==
  /\ Calls(r, <<"compute">>)
  /\ round' = [round EXCEPT ![r] = @ + 1]
  /\ todo' = [todo EXCEPT ![r] = Rest(r)]
  /\ UNCHANGED <<meshVars, counter, inUse, posted, mail, buffer, collected>>

\* MPI puts a message where the receive it matches wants it.
Deliver ==
  /\ \E m \in mail, x \in posted :
       /\ m.to = x.at /\ m.from = x.from /\ m.tag = x.tag
       /\ posted' = posted \ {x} /\ mail' = mail \ {m}
       /\ LET start == OffsetInShared(connector[x.of][x.at].recv, m.from)
          IN buffer' = [buffer EXCEPT ![x.at][x.of] =
                          [i \in DOMAIN @ |-> IF i - start \in DOMAIN m.data
                                              THEN m.data[i - start] ELSE @[i]]]
  /\ UNCHANGED <<meshVars, todo, round, counter, inUse, collected>>

\* Fault: the receives are not waited for.
WaitedForSends(r, kind) == \A m \in mail : ~(m.from = r /\ m.of = kind)

\* MPI_Waitall over the receives and the synchronous sends of a coupler.
WaitedForAll(r, kind) ==
  /\ \A x \in posted : ~(x.at = r /\ x.of = kind)
  /\ \A m \in mail : ~(m.from = r /\ m.of = kind)

FinishCollect(r, kind) ==
  /\ Calls(r, <<"finish", kind>>)
  /\ inUse[r][kind]
  /\ WaitedForAll(r, kind)
  /\ inUse' = [inUse EXCEPT ![r][kind] = FALSE]
  /\ collected' = [collected EXCEPT ![r][kind] = round[r] - 1]
  /\ todo' = [todo EXCEPT ![r] = Rest(r)]
  /\ UNCHANGED <<meshVars, round, counter, posted, mail, buffer>>

Stopped == program = <<>> /\ (raised # {} \/ \A r \in Ranks : todo[r] = <<>>)

Next ==
  \/ MeshNext /\ UNCHANGED couplerVars
  \/ \E r \in Ranks, kind \in Kinds : StartCollect(r, kind)
  \/ \E r \in Ranks : Compute(r)
  \/ Deliver
  \/ \E r \in Ranks, kind \in Kinds : FinishCollect(r, kind)
  \/ Stopped /\ UNCHANGED allVars

Spec == Init /\ [][Next]_allVars

-----------------------------------------------------------------------------
(* Properties. *)

\* When finishCollect returns, each local node of a degree of freedom some
\* other rank owns finds that degree of freedom's value where its mapping
\* points, as its owner had it when it started the same collect, whatever the
\* ranks overwrote since and whatever else is on its way (Coupler.cpp:66-128).
SeesOwnersValue ==
  \A r \in Ranks, kind \in Kinds :
    collected[r][kind] > 0 /\ ~inUse[r][kind] =>
      \A id \in DOMAIN nodes[r] :
        LET label == LabelOf(kind, r)[id]
            at == connector[kind][r].target[id] - connector[kind][r].own
        IN label # Unset /\ label \notin Own(kind, r) =>
             buffer[r][kind][at + 1] = [dof |-> label, round |-> collected[r][kind]]

\* theTarget[i]=unused means that no target is defined for FEM node i
\* (NodeMapping.h:39), and the range is computed disregarding the value
\* `ignore` (Util.h:84): no rank rejects the mapping of a legal mesh.
MappingsAccepted == raised = {}
=============================================================================
