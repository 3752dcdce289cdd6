--------------------------- MODULE MeshInvariant ---------------------------
(***************************************************************************)
(* The inductive invariant of FinleyMesh: what is known of the labels      *)
(* before each job, what the buffers hold while they go round, and that a  *)
(* ring which collects already determines the labels it will leave behind. *)
(***************************************************************************)
EXTENDS FinleyMesh

-----------------------------------------------------------------------------
(* Where prepare is                                                        *)

\* What is left of the program after its first k jobs
Remaining(optimize, k) ==
  SubSeq(Program(optimize), k + 1, Len(Program(optimize)))
JobsDone(k) == \E optimize \in BOOLEAN : program = Remaining(optimize, k)

BlockJobs == {"gather", "dof", "rdof", "rnode"}
RingJobs == BlockJobs \cup {"node", "optimizeDOFDistribution", "optimizeDOFLabeling"}

\* How much is known before a job, and after its ring.  The first gather finds
\* what the reader left: there are no degrees of freedom yet.
Level ==
  CASE Job = "gather" -> IF dofDist = <<>> THEN 0 ELSE 3
    [] Job = "dof" -> 1
    [] Job = "distribute" -> 2
    [] Job \in {"optimizeDOFDistribution", "optimizeDOFLabeling", "node"} -> 4
    [] Job = "rdof" -> 5
    [] Job = "rnode" -> 6
    [] OTHER -> 7
LevelAfter ==
  CASE Job = "gather" -> IF dofDist = <<>> THEN 1 ELSE 4
    [] Job \in {"dof", "optimizeDOFDistribution"} -> 2
    [] Job = "optimizeDOFLabeling" -> 4
    [] Job = "node" -> 5
    [] Job = "rdof" -> 6
    [] OTHER -> 7

-----------------------------------------------------------------------------
(* What is known of the node files N                                       *)

NodeLabels == [dof : Int, index : Int, rdof : Int, rindex : Int]

InUse == UNION {UsedNodes(r) : r \in Ranks}
Stored(N) == UNION {DOMAIN N[r] : r \in Ranks}

\* Some rank counts an element as its own.
Alike(e, f) == f.nodes = e.nodes /\ f.linear = e.linear
Kept ==
  \A r \in Ranks : \A e \in elements[r] :
    \E q \in Ranks : \E f \in elements[q] : f.owner = q /\ Alike(e, f)

SameDofs(N) ==
  \A r, q \in Ranks : \A id \in DOMAIN N[r] \cap DOMAIN N[q] : N[r][id].dof = N[q][id].dof

\* The degrees of freedom are numbered without a gap, and in blocks.
Ordered(dist) == \A a, b \in 0 .. Size : a <= b => dist[a] <= dist[b]
DistTyped == dofDist \in [0 .. Size -> Int]
DofsNumbered(N) ==
  /\ DistTyped /\ Ordered(dofDist) /\ dofDist[0] = 0
  /\ \A r \in Ranks : \A id \in DOMAIN N[r] : N[r][id].dof \in 0 .. dofDist[Size] - 1
  /\ \A d \in 0 .. dofDist[Size] - 1 : \E r \in Ranks : \E id \in DOMAIN N[r] : N[r][id].dof = d

\* The owner of a node has every element of the node.
Gathered(N) ==
  \A r, q, b \in Ranks : \A e \in elements[r] : \A id \in e.nodes \cap DOMAIN N[q] :
    InBlock(N[q][id].dof, dofDist, b) => \E f \in elements[b] : Alike(e, f)

Indices(N) == UNION {{N[r][id].index : id \in DOMAIN N[r]} : r \in Ranks}
NodesNumbered(N) ==
  /\ Dense(Indices(N))
  /\ \A r, q \in Ranks : \A id \in DOMAIN N[r], j \in DOMAIN N[q] :
       (id = j) = (N[r][id].index = N[q][j].index)

\* The place of x among the members of S
Place(S, x) == Cardinality({y \in S : y < x})
ReducedDofs(N) == UNION {{N[r][id].dof : id \in ReducedNodes(r)} : r \in Ranks}
ReducedIndices(N) == UNION {{N[r][id].index : id \in ReducedNodes(r)} : r \in Ranks}

ReducedLabelled(level, N) ==
  \A r \in Ranks : \A id \in DOMAIN N[r] :
    /\ N[r][id].rdof = IF level >= 6 /\ id \in ReducedNodes(r)
                       THEN Place(ReducedDofs(N), N[r][id].dof) ELSE Unset
    /\ N[r][id].rindex = IF level >= 7 /\ id \in ReducedNodes(r)
                         THEN Place(ReducedIndices(N), N[r][id].index) ELSE Unset

Known(level, N) ==
  /\ \A r \in Ranks : \A id \in DOMAIN N[r] : N[r][id] \in NodeLabels
  /\ Kept /\ InUse # {}
  /\ IF level \in {0, 3} THEN InUse \subseteq Stored(N)
     ELSE \A r \in Ranks : DOMAIN N[r] = UsedNodes(r)
  /\ level = 3 => Stored(N) \subseteq InUse
  /\ level >= 1 => SameDofs(N)
  /\ level >= 2 => DofsNumbered(N)
  /\ level >= 3 => Gathered(N)
  /\ level >= 5 => NodesNumbered(N)
  /\ ReducedLabelled(level, N)

-----------------------------------------------------------------------------
(* The buffers                                                             *)

\* The block a rank has filled last, and the ranks that have filled it
BlockHeld(r) == (r - ring.p) % Size
Visited(r) == IF ring.phase = "number" THEN Ranks ELSE {q \in Ranks : (r - q) % Size < ring.p}

\* The marks, or labels, in a buffer are those of the ranks it has been to.
Fills(q, id, b, k) ==
  id \in Participants(q) /\ InBlock(Key(q, id), ring.dist, b) /\ Key(q, id) - ring.dist[b] = k
MarkedBy(V, b, k) == \E q \in V : \E id \in DOMAIN nodes[q] : Fills(q, id, b, k)
Holds(word, V, b, k) ==
  IF Job = "gather"
  THEN MarkedBy(V, b, k) => \E q \in V : \E id \in DOMAIN nodes[q] :
                              Fills(q, id, b, k) /\ word = nodes[q][id].dof
  ELSE word = IF MarkedBy(V, b, k) THEN Set ELSE Unset
Filled(r, k) == Holds(ring.buf[r][k], Visited(r), BlockHeld(r), k)

\* The keys whose marks are in the buffers
KeySet == UNION {{Key(r, id) : id \in Participants(r)} : r \in Ranks}

HasRoom == \A r, b \in Ranks : 0 .. ring.dist[b + 1] - ring.dist[b] - 1 \subseteq DOMAIN ring.buf[r]
FillInv ==
  /\ Job \in BlockJobs /\ HasRoom
  /\ ring.phase = "number" => Job # "gather" /\ ring.p = 0
  /\ \A r \in Ranks : /\ ring.fresh[r] = DOMAIN nodes[r]
                      /\ \A id \in DOMAIN nodes[r] : Key(r, id) \in ring.dist[0] .. ring.dist[Size] - 1
                      /\ \A k \in DOMAIN ring.buf[r] : Filled(r, k)

\* Which rank has the labels of a block, whether one of them is for this node,
\* and which
Holder(b) == (b + ring.p) % Size
ComesFrom(b, r, id) ==
  /\ InBlock(Key(r, id), ring.dist, b) /\ (r - b) % Size >= ring.p
  /\ Job = "node" => ring.buf[Holder(b)][0] <= id /\ id <= ring.buf[Holder(b)][1]
Awaits(r, id) ==
  /\ id \in Participants(r)
  /\ Relabels => id \in ring.fresh[r]
  /\ \E b \in Ranks : ComesFrom(b, r, id)
LabelFrom(b, r, id) ==
  LET labels == ring.buf[Holder(b)]
  IN IF Job = "node" THEN labels[id - labels[0] + 2] ELSE labels[Key(r, id) - ring.dist[b]]
LabelToCome(r, id) == LabelFrom(CHOOSE b \in Ranks : ComesFrom(b, r, id), r, id)

\* The node files when the ring has gone round
FinalNodes ==
  [r \in Ranks |-> [id \in DOMAIN nodes[r] |->
     IF Awaits(r, id) THEN Labelled(nodes[r][id], LabelToCome(r, id)) ELSE nodes[r][id]]]

\* A label of the bandwidth reduction stays in the block it comes from.
Permutes ==
  \A b \in Ranks : \A k \in 0 .. ring.dist[b + 1] - ring.dist[b] - 1 :
    ring.buf[Holder(b)][k] \in ring.dist[b] .. ring.dist[b + 1] - 1

-----------------------------------------------------------------------------
(* The invariant                                                           *)

RingShape ==
  /\ DOMAIN ring = {"phase", "p", "dist", "buf", "fresh"}
  /\ ring.phase \in {"idle", "fill", "number", "collect"}
  /\ ring.phase # "idle" => Job \in RingJobs

RingTyped ==
  /\ ring.p \in Ranks
  /\ ring.dist \in [0 .. Size -> Int] /\ Ordered(ring.dist)
  /\ DOMAIN ring.buf = Ranks
  /\ ring.phase = "collect" /\ Job = "optimizeDOFLabeling" => Permutes

\* Every rank has finitely many nodes and elements.
NodesTyped ==
  \A r \in Ranks : /\ IsFiniteSet(DOMAIN nodes[r]) /\ DOMAIN nodes[r] \subseteq Int
                   /\ \A id \in DOMAIN nodes[r] : nodes[r][id] \in NodeLabels
ElementsTyped ==
  \A r \in Ranks :
    /\ IsFiniteSet(elements[r])
    /\ \A e \in elements[r] : /\ {"nodes", "linear", "owner"} \subseteq DOMAIN e
                              /\ IsFiniteSet(e.nodes) /\ e.nodes \subseteq Int
                              /\ e.linear \subseteq e.nodes

Where(k) == JobsDone(k) /\ (Job = "gather" => (k = 0 <=> dofDist = <<>>))

MeshInv ==
  /\ NodesTyped /\ ElementsTyped /\ RingShape
  /\ \E k \in 0 .. 13 : Where(k)
  /\ ring.phase # "idle" => RingTyped
  /\ ring.phase \in {"fill", "number"} => FillInv
  /\ IF ring.phase = "collect" THEN Known(LevelAfter, FinalNodes) ELSE Known(Level, nodes)
=============================================================================
