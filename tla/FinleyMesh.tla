----------------------------- MODULE FinleyMesh -----------------------------
(***************************************************************************)
(* finley/src/FinleyDomain.cpp and NodeFile.cpp: how a mesh read in pieces *)
(* is spread over the MPI ranks.  resolveNodeIds and prepare relabel the   *)
(* degrees of freedom densely, hand every element to the ranks that own a  *)
(* node of it, number nodes, reduced nodes and reduced degrees of freedom, *)
(* and build the lists of degrees of freedom each rank sends and receives. *)
(*                                                                         *)
(* The labels travel in buffers that go round the ring of ranks: a rank    *)
(* knows whose part it holds only by counting the turns.  A turn is one    *)
(* joint step, MPI_Sendrecv_replace keeps the ranks together.  A node is   *)
(* its Id, its coordinates and tags are left out; element files of         *)
(* different kinds are one set of elements.                                *)
(***************************************************************************)
EXTENDS Distribution, Sequences, FiniteSets, FiniteSetsExt

CONSTANTS
  Size,      \* MPI ranks
  Meshes,    \* the meshes a reader may leave behind, see Init
  Parts,     \* partitions of degrees of freedom ParMETIS may return
  Orders     \* relabellings of degrees of freedom reduceBandwidth may amount to

Ranks == 0 .. Size - 1
Kinds == {"full", "reduced"}

\* Ids and labels are numbers, a reader owns the elements it has read, and an
\* element has nodes, some of which are its ends.
IsMesh(mesh) ==
  /\ mesh.optimize \in BOOLEAN
  /\ \A r \in Ranks :
       /\ IsFiniteSet(DOMAIN mesh.nodes[r]) /\ DOMAIN mesh.nodes[r] \subseteq Int
       /\ \A id \in DOMAIN mesh.nodes[r] : mesh.nodes[r][id] \in Int
       /\ IsFiniteSet(mesh.elements[r])
       /\ \A e \in mesh.elements[r] :
            /\ {"nodes", "linear", "owner"} \subseteq DOMAIN e
            /\ e.owner = r /\ e.linear \subseteq e.nodes
            /\ e.nodes \subseteq UNION {DOMAIN mesh.nodes[q] : q \in Ranks}
  /\ \E r \in Ranks : \E e \in mesh.elements[r] : e.nodes # {}

ASSUME SizeAssumption == Size \in Nat \ {0}
ASSUME MeshAssumption == \A mesh \in Meshes : IsMesh(mesh)

VARIABLES
  nodes,      \* a rank's node file: Id -> labels
  elements,   \* a rank's elements
  program,    \* what is left of resolveNodeIds and prepare
  ring,       \* the labelling at work: its phase, turn, ranges, buffers
  dofDist,    \* prepare's distribution
  nodeDist,   \* nodeDistribution
  connector,  \* per kind and rank: what createDOFMappingAndCoupling built
  raised      \* the ranks on which createNodeMappings raised an exception

meshVars == <<nodes, elements, program, ring, dofDist, nodeDist, connector, raised>>

Unset == -1    \* undefined_node, UNSET_ID, UNUSED
Set == 1       \* SET_ID
Unlabelled(dof) == [dof |-> dof, index |-> Unset, rdof |-> Unset, rindex |-> Unset]

Idle == [phase |-> "idle", p |-> 0, dist |-> <<>>, buf |-> <<>>, fresh |-> <<>>]

\* resolveNodeIds, then prepare.
Program(optimize) ==
  <<"gather", "dof", "distribute", "gather">>
    \o (IF optimize THEN <<"optimizeDOFDistribution", "distribute", "gather",
                            "optimizeDOFLabeling">> ELSE <<>>)
    \o <<"node", "rdof", "rnode", "mappings">>

Job == IF program = <<>> THEN "none" ELSE Head(program)

\* markNodes over a rank's elements: all their nodes, or the linear ones
UsedNodes(r) == UNION {e.nodes : e \in elements[r]}
ReducedNodes(r) == UNION {e.linear : e \in elements[r]}

Before(r) == {q \in Ranks : q < r}

\* How many things the ranks before r have together.
CountBefore(r, things) == Cardinality(UNION {{q} \X things[q] : q \in Before(r)})

\* The numbers of S in ascending order.
Ascending(S) ==
  [i \in 1 .. Cardinality(S) |-> CHOOSE x \in S : Cardinality({y \in S : y < x}) = i - 1]

-----------------------------------------------------------------------------
(* The ring. *)

Shifted(buf) == [r \in Ranks |-> buf[(r - 1) % Size]]

\* What a job's buffers are indexed by, and the nodes that take part in it.
Key(r, id) ==
  CASE Job = "gather" -> id
    [] Job = "rnode" -> nodes[r][id].index
    [] OTHER -> nodes[r][id].dof

Participants(r) == IF Job \in {"rdof", "rnode"} THEN ReducedNodes(r) ELSE DOMAIN nodes[r]

InBlock(k, dist, b) == dist[b] <= k /\ k < dist[b + 1]

\* getGlobalRange and setDistribution; the buffers hold the longest block.
Keys == UNION {{Key(r, id) : id \in DOMAIN nodes[r]} : r \in Ranks}
KeyCount == Max(Keys) - Min(Keys) + 1
Blocks(first, n) == [p \in 0 .. Size |-> Boundary(first, n, Size, p)]

StartRing ==
  /\ Job \in {"gather", "dof", "rdof", "rnode"} /\ ring.phase = "idle"
  /\ ring' = [phase |-> "fill", p |-> 0, dist |-> Blocks(Min(Keys), KeyCount),
              buf |-> [r \in Ranks |-> [k \in 0 .. LongestBlock(KeyCount, Size) - 1 |-> Unset]],
              fresh |-> [r \in Ranks |-> DOMAIN nodes[r]]]
  /\ UNCHANGED <<nodes, elements, program, dofDist, nodeDist, connector, raised>>

\* The rank whose block r takes the buffer it holds at turn p to be.
BlockFilled(r, p) == (r - 1 - p) % Size
BlockCollected(r, p) == (r - p) % Size

\* Every node leaves its mark, or its labels, in the block of its key.
FilledBuffer(r, held) ==
  LET b == BlockFilled(r, ring.p)
  IN [k \in DOMAIN held |->
        LET hits == {id \in Participants(r) : /\ InBlock(Key(r, id), ring.dist, b)
                                              /\ Key(r, id) - ring.dist[b] = k}
        IN IF hits = {} THEN held[k]
           ELSE IF Job = "gather" THEN nodes[r][CHOOSE id \in hits : TRUE].dof ELSE Set]

\* After the last turn gather_global collects into the table of the nodes
\* the elements use; the others number their marks first.
Fill ==
  /\ ring.phase = "fill"
  /\ LET held == IF ring.p > 0 THEN Shifted(ring.buf) ELSE ring.buf
         last == ring.p = Size - 1
     IN /\ ring' = [ring EXCEPT
                      !.buf = [r \in Ranks |-> FilledBuffer(r, held[r])],
                      !.p = IF last THEN 0 ELSE @ + 1,
                      !.phase = IF ~last THEN @ ELSE IF Job = "gather" THEN "collect" ELSE "number"]
        /\ nodes' = IF last /\ Job = "gather"
                    THEN [r \in Ranks |-> [id \in UsedNodes(r) |-> Unlabelled(Unset)]]
                    ELSE nodes
  /\ UNCHANGED <<elements, program, dofDist, nodeDist, connector, raised>>

\* The marks in a rank's own block, and how many the ranks before it have.
Marks(r) == {k \in 0 .. ring.dist[r + 1] - ring.dist[r] - 1 : ring.buf[r][k] = Set}
Offset(r) == CountBefore(r, [q \in Ranks |-> Marks(q)])

\* Fault: the marks of the ranks before are not added.
NumberedLocally(r) ==
  [k \in DOMAIN ring.buf[r] |->
     IF k \in Marks(r) THEN Cardinality({j \in Marks(r) : j < k}) ELSE ring.buf[r][k]]

Numbered(r) ==
  [k \in DOMAIN ring.buf[r] |->
     IF k \in Marks(r) THEN Offset(r) + Cardinality({j \in Marks(r) : j < k})
     ELSE IF k < ring.dist[r + 1] - ring.dist[r] THEN ring.buf[r][k] + Offset(r)
     ELSE ring.buf[r][k]]

Number ==
  /\ ring.phase = "number"
  /\ ring' = [ring EXCEPT !.phase = "collect", !.buf = [r \in Ranks |-> Numbered(r)]]
  /\ dofDist' = IF Job = "dof" THEN Blocks(0, Offset(Size - 1) + Cardinality(Marks(Size - 1)))
                ELSE dofDist
  /\ UNCHANGED <<nodes, elements, program, nodeDist, connector, raised>>

\* createDenseNodeLabeling: a rank numbers the nodes whose degree of freedom
\* it owns by Id; their range heads the buffer.
Owned(r) == {id \in DOMAIN nodes[r] : InBlock(nodes[r][id].dof, dofDist, r)}
OwnRange(r) == IF Owned(r) = {} THEN <<1, 0>> ELSE <<Min(Owned(r)), Max(Owned(r))>>
OwnLength(r) == OwnRange(r)[2] - OwnRange(r)[1] + 1
NodeBoundary(r) == CountBefore(r, [q \in Ranks |-> Owned(q)])

NodeBuffer(r) ==
  [k \in 0 .. Max({OwnLength(q) : q \in Ranks}) + 1 |->
     IF k < 2 THEN OwnRange(r)[k + 1]
     ELSE LET id == OwnRange(r)[1] + k - 2
          IN IF id \in Owned(r) THEN NodeBoundary(r) + Cardinality({j \in Owned(r) : j < id})
             ELSE IF k - 2 < OwnLength(r) THEN Unset + NodeBoundary(r) ELSE Unset]

StartNodeLabeling ==
  /\ Job = "node" /\ ring.phase = "idle"
  /\ ring' = [Idle EXCEPT !.phase = "collect", !.dist = dofDist,
                          !.buf = [r \in Ranks |-> NodeBuffer(r)]]
  /\ nodeDist' = [p \in 0 .. Size |-> NodeBoundary(p)]
  /\ UNCHANGED <<nodes, elements, program, dofDist, connector, raised>>

\* optimizeDOFDistribution: every rank gives each degree of freedom of its
\* block to a rank; all labels follow.  The partition comes from ParMETIS, or
\* is all on rank 0 if a block is empty, or is the old one without ParMETIS.
Dofs == 0 .. dofDist[Size] - 1
Partitions ==
  LET current == [d \in Dofs |-> CHOOSE p \in Ranks : InBlock(d, dofDist, p)]
      computed == {part \in Parts : part \in [Dofs -> Ranks]}
  IN {current} \cup IF \E p \in Ranks : dofDist[p] = dofDist[p + 1] THEN {[d \in Dofs |-> 0]}
                    ELSE computed

\* new_distribution
PartitionDist(part) ==
  [p \in 0 .. Size |-> Cardinality({d \in DOMAIN part : part[d] < p})]
NewLabel(part, d) ==
  PartitionDist(part)[part[d]] + Cardinality({e \in DOMAIN part : e < d /\ part[e] = part[d]})

LongestDofBlock == Max({dofDist[q + 1] - dofDist[q] : q \in Ranks})

StartOptimizeDOFDistribution ==
  /\ Job = "optimizeDOFDistribution" /\ ring.phase = "idle"
  /\ \E part \in Partitions :
       /\ dofDist' = PartitionDist(part)
       /\ ring' = [Idle EXCEPT !.phase = "collect", !.dist = dofDist,
                     !.buf = [r \in Ranks |-> [k \in 0 .. LongestDofBlock - 1 |->
                                IF dofDist[r] + k < dofDist[r + 1]
                                THEN NewLabel(part, dofDist[r] + k) ELSE 0]],
                     !.fresh = [r \in Ranks |-> DOMAIN nodes[r]]]
  /\ UNCHANGED <<nodes, elements, program, nodeDist, connector, raised>>

\* optimizeDOFLabeling: a rank permutes the labels of its own block, as
\* reduceBandwidth has it, or not at all without paso.
Orderings ==
  {[d \in Dofs |-> d]} \cup
  {order \in Orders :
     /\ order \in [Dofs -> Dofs] /\ \A d \in Dofs : \E c \in Dofs : order[c] = d
     /\ \A d \in Dofs, p \in Ranks : InBlock(d, dofDist, p) => InBlock(order[d], dofDist, p)}

StartOptimizeDOFLabeling ==
  /\ Job = "optimizeDOFLabeling" /\ ring.phase = "idle"
  /\ \E order \in Orderings :
       ring' = [Idle EXCEPT !.phase = "collect", !.dist = dofDist,
                  !.buf = [r \in Ranks |->
                            [k \in 0 .. LongestDofBlock - 1 |->
                               IF dofDist[r] + k < dofDist[r + 1] THEN order[dofDist[r] + k] ELSE 0]]]
  /\ UNCHANGED <<nodes, elements, program, dofDist, nodeDist, connector, raised>>

\* The labellings that overwrite the key they look up keep a flag per node,
\* set_new_DOF or setNewDOFId.
Relabels == Job \in {"dof", "optimizeDOFDistribution"}

\* Whether the buffer a rank holds has the label of one of its nodes, and where.
WantsLabel(r, id) ==
  LET b == BlockCollected(r, ring.p)
  IN /\ id \in Participants(r)
     /\ InBlock(Key(r, id), ring.dist, b)
     /\ Relabels => id \in ring.fresh[r]
     /\ Job = "node" => ring.buf[r][0] <= id /\ id <= ring.buf[r][1]

Slot(r, id) == IF Job = "node" THEN id - ring.buf[r][0] + 2
               ELSE Key(r, id) - ring.dist[BlockCollected(r, ring.p)]

Labelled(node, v) ==
  CASE Job = "node" -> [node EXCEPT !.index = v]
    [] Job = "rdof" -> [node EXCEPT !.rdof = v]
    [] Job = "rnode" -> [node EXCEPT !.rindex = v]
    [] OTHER -> [node EXCEPT !.dof = v]

Collect ==
  /\ ring.phase = "collect"
  /\ nodes' = [r \in Ranks |-> [id \in DOMAIN nodes[r] |->
                 IF WantsLabel(r, id) THEN Labelled(nodes[r][id], ring.buf[r][Slot(r, id)])
                 ELSE nodes[r][id]]]
  /\ IF ring.p < Size - 1
     THEN /\ ring' = [ring EXCEPT
                        !.p = @ + 1, !.buf = Shifted(@),
                        !.fresh = IF Relabels
                                  THEN [r \in Ranks |-> {id \in @[r] : ~WantsLabel(r, id)}]
                                  ELSE @]
          /\ UNCHANGED program
     ELSE ring' = Idle /\ program' = Tail(program)
  /\ UNCHANGED <<elements, dofDist, nodeDist, connector, raised>>

-----------------------------------------------------------------------------
(* distributeByRankOfDOF *)

\* assignMPIRankToDOFs searches from the rank of the smallest local label on.
RankOfDOF(r, dof) ==
  LET dofs == {nodes[r][id].dof : id \in DOMAIN nodes[r]}
      from == Max({p \in Ranks : dofDist[p] <= Min(dofs)})
  IN Min({p \in Ranks : p >= from /\ dof < dofDist[p + 1]})

NodesOn(r, e, p) == Cardinality({id \in e.nodes : RankOfDOF(r, nodes[r][id].dof) = p})

\* Fault: an element goes to its new owner only.
ReceiversOwnerOnly(r, e) ==
  {Min({p \in Ranks : \A q \in Ranks : NodesOn(r, e, q) <= NodesOn(r, e, p)})}
\* The ranks an element goes to, and its new owner.
Receivers(r, e) == {p \in Ranks : NodesOn(r, e, p) > 0}
NewOwner(r, e) == Min({p \in Ranks : \A q \in Ranks : NodesOn(r, e, q) <= NodesOn(r, e, p)})

DistributeElements ==
  /\ Job = "distribute"
  /\ elements' = [p \in Ranks |->
       UNION {{[e EXCEPT !.owner = NewOwner(r, e)] :
                 e \in {f \in elements[r] : f.owner = r /\ p \in Receivers(r, f)}} : r \in Ranks}]
  /\ program' = Tail(program)
  /\ UNCHANGED <<nodes, ring, dofDist, nodeDist, connector, raised>>

-----------------------------------------------------------------------------
(* createNodeMappings *)

FirstNode(r) == Min(DOMAIN nodes[r])    \* local nodes are in the order of their Ids

\* getFlaggedMinMaxInt(values, Unset) starts from the first value, whatever it is.
FlaggedValues(r, value) ==
  {value[FirstNode(r)]} \cup {value[id] : id \in {j \in DOMAIN nodes[r] : value[j] # Unset}}

\* NodeMapping::assign
AssignRaises(r, target) ==
  /\ DOMAIN nodes[r] # {}
  /\ \/ Min(FlaggedValues(r, target)) < 0
     \/ ~ 0 .. Max(FlaggedValues(r, target)) \subseteq FlaggedValues(r, target)

ReducedNodesTarget(r) ==
  [id \in DOMAIN nodes[r] |-> IF id \in ReducedNodes(r)
                              THEN Cardinality({j \in ReducedNodes(r) : j < id}) ELSE Unset]

\* The boundaries of the reduced degrees of freedom: each rank counts those it
\* owns and that a reduced node of its own carries.
ReducedOwn(r) ==
  {nodes[r][id].dof : id \in ReducedNodes(r)} \cap dofDist[r] .. dofDist[r + 1] - 1
ReducedDist == [p \in 0 .. Size |-> CountBefore(p, [q \in Ranks |-> ReducedOwn(q)])]

DistOf(kind) == IF kind = "full" THEN dofDist ELSE ReducedDist
LabelOf(kind, r) ==
  [id \in DOMAIN nodes[r] |-> IF kind = "full" THEN nodes[r][id].dof ELSE nodes[r][id].rdof]

\* min_DOF and max_DOF
LocalRange(kind, r) ==
  IF DOMAIN nodes[r] = {} THEN <<DistOf(kind)[r], DistOf(kind)[r + 1] - 1>>
  ELSE <<Min(FlaggedValues(r, LabelOf(kind, r))), Max(FlaggedValues(r, LabelOf(kind, r)))>>

\* p_min .. p_max
Span(kind, r) ==
  LET range == LocalRange(kind, r)
      from == {p \in Ranks : DistOf(kind)[p] <= range[1]}
      to == {p \in Ranks : DistOf(kind)[p] <= range[2]}
  IN IF range[2] < range[1] \/ from = {} THEN {} ELSE Max(from) .. Max(to)

SpanRaises(kind, r) ==
  LET d == DistOf(kind)
  IN /\ d[r] < d[r + 1]
     /\ ~(LocalRange(kind, r)[1] <= d[r] /\ d[r + 1] - 1 <= LocalRange(kind, r)[2])

Own(kind, r) == DistOf(kind)[r] .. DistOf(kind)[r + 1] - 1
Present(kind, r) == {LabelOf(kind, r)[id] : id \in DOMAIN nodes[r]} \ {Unset}

\* wanted_DOFs of a neighbour, in ascending order
Wanted(kind, r, p) ==
  IF p = r \/ p \notin Span(kind, r) THEN <<>>
  ELSE Ascending(Present(kind, r) \cap Own(kind, p))

\* offsetInShared of the receive list: where the values of p go, and of those
\* the one of dof
OffsetInShared(recv, p) == CountBefore(p, [q \in Ranks |-> DOMAIN recv[q]])
IndexInShared(recv, dof) ==
  LET p == CHOOSE q \in Ranks : dof \in Range(recv[q])
  IN OffsetInShared(recv, p) + (CHOOSE i \in DOMAIN recv[p] : recv[p][i] = dof) - 1

\* locDOFMask: own labels first, then the wanted ones in the order of the neighbours
LocalIndex(kind, r, dof) ==
  LET d == DistOf(kind)
      recv == [p \in Ranks |-> Wanted(kind, r, p)]
  IN IF dof \in Own(kind, r) THEN dof - d[r]
     ELSE IF \E p \in Ranks : dof \in Range(recv[p])
     THEN d[r + 1] - d[r] + IndexInShared(recv, dof)
     ELSE IF dof \in Present(kind, r) THEN Unset - 1 ELSE Unset

NodeTarget(kind, r) ==
  [id \in DOMAIN nodes[r] |->
     IF LabelOf(kind, r)[id] = Unset THEN Unset ELSE LocalIndex(kind, r, LabelOf(kind, r)[id])]

\* What a rank receives from and sends to each other, and where its nodes look.
Connector(kind, r) ==
  [own |-> DistOf(kind)[r + 1] - DistOf(kind)[r],
   recv |-> [p \in Ranks |-> Wanted(kind, r, p)],
   send |-> [p \in Ranks |-> [i \in DOMAIN Wanted(kind, p, r) |->
                                LocalIndex(kind, r, Wanted(kind, p, r)[i])]],
   target |-> NodeTarget(kind, r)]

\* The ranks on which an assign raises, alone; a span error is raised by all.
Raising ==
  IF \E r \in Ranks, kind \in Kinds : SpanRaises(kind, r) THEN Ranks
  ELSE {r \in Ranks : \/ AssignRaises(r, ReducedNodesTarget(r))
                      \/ \E kind \in Kinds : AssignRaises(r, NodeTarget(kind, r))}

CreateNodeMappings ==
  /\ Job = "mappings"
  /\ raised' = Raising
  /\ connector' = IF Raising = {}
                  THEN [kind \in Kinds |-> [r \in Ranks |-> Connector(kind, r)]] ELSE connector
  /\ program' = <<>>
  /\ UNCHANGED <<nodes, elements, ring, dofDist, nodeDist>>

-----------------------------------------------------------------------------
\* A reader leaves every node, with a label of its degree of freedom, on one
\* rank and every element on the rank that owns it.
MeshInit ==
  /\ \E mesh \in Meshes :
       /\ nodes = [r \in Ranks |-> [id \in DOMAIN mesh.nodes[r] |-> Unlabelled(mesh.nodes[r][id])]]
       /\ elements = mesh.elements
       /\ program = Program(mesh.optimize)
  /\ ring = Idle
  /\ dofDist = <<>> /\ nodeDist = <<>> /\ connector = <<>>
  /\ raised = {}

MeshNext ==
  \/ StartRing \/ Fill \/ Number
  \/ StartNodeLabeling \/ StartOptimizeDOFDistribution \/ StartOptimizeDOFLabeling
  \/ Collect
  \/ DistributeElements \/ CreateNodeMappings

-----------------------------------------------------------------------------
(* Properties. *)

\* The labels of one kind name the same thing on every rank and leave no gap.
Dense(labels) == labels = 0 .. Cardinality(labels) - 1
Everywhere(f(_, _)) ==
  UNION {{f(r, id) : id \in DOMAIN nodes[r]} : r \in Ranks}

\* Whatever the labels and the placement the reader chose, when the numbering
\* is done every rank calls a node by the same index, the indices of nodes and
\* of degrees of freedom, full and reduced, have no gaps, the ranks whose
\* elements end at a node, and no others, have its reduced labels and agree on
\* them, and a rank's reduced degrees of freedom are those it owns, as its
\* coupling will assume (NodeFile.cpp:524-769, 1003-1055).
LabelsAgree ==
  Job = "mappings" =>
    /\ Dense(Everywhere(LAMBDA r, id : nodes[r][id].dof))
    /\ Dense(Everywhere(LAMBDA r, id : nodes[r][id].index))
    /\ Dense(Everywhere(LAMBDA r, id : nodes[r][id].rdof) \ {Unset})
    /\ Dense(Everywhere(LAMBDA r, id : nodes[r][id].rindex) \ {Unset})
    /\ \A r, q \in Ranks : \A id \in DOMAIN nodes[r], j \in DOMAIN nodes[q] :
         /\ (id = j) = (nodes[r][id].index = nodes[q][j].index)
         /\ id = j => nodes[r][id].dof = nodes[q][j].dof
         /\ id = j /\ id \in ReducedNodes(r) \cap ReducedNodes(q) => nodes[r][id] = nodes[q][j]
    /\ \A r \in Ranks : \A id \in DOMAIN nodes[r] :
         /\ id \in ReducedNodes(r) <=> nodes[r][id].rdof # Unset
         /\ id \in ReducedNodes(r) <=> nodes[r][id].rindex # Unset
    /\ \A r, q \in Ranks : \A id \in ReducedNodes(r) :
         InBlock(nodes[r][id].dof, dofDist, q) <=> InBlock(nodes[r][id].rdof, ReducedDist, q)
=============================================================================
