----------------------------- MODULE MCCoupler -----------------------------
(***************************************************************************)
(* Coupler, and FinleyMesh below it, for TLC: three ranks, meshes of three *)
(* elements of first and of two elements of second order, labels that are  *)
(* dense, out of order, far apart or shared by two nodes, and nodes and    *)
(* elements on one rank or spread over the ranks.                          *)
(***************************************************************************)
EXTENDS Coupler, TLC

MCRanks == 0 .. Size - 1
Element(id, used, linear) == [id |-> id, nodes |-> used, linear |-> linear]

LinearLine ==
  [ids |-> <<2, 3, 5, 8>>,
   elements |-> {Element(1, {2, 3}, {2, 3}), Element(2, {3, 5}, {3, 5}),
                 Element(3, {5, 8}, {5, 8})}]
QuadraticLine ==
  [ids |-> <<2, 3, 5, 7, 8>>,
   elements |-> {Element(1, {2, 7, 3}, {2, 3}), Element(2, {3, 8, 5}, {3, 5})}]
\* The node between the ends of the first element has the smallest Id.
MidNodeLine ==
  [ids |-> <<1, 3, 4, 5, 6>>,
   elements |-> {Element(1, {3, 1, 4}, {3, 4}), Element(2, {4, 6, 5}, {4, 5})}]

\* A point between the ends of the first element: its node ends an element on
\* the ranks that have the point, and on the others it does not.
PointLine ==
  [ids |-> QuadraticLine.ids,
   elements |-> QuadraticLine.elements \cup {Element(3, {7}, {7})}]

\* One element: a rank gets nothing.
ShortLine == [ids |-> <<4, 6>>, elements |-> {Element(1, {4, 6}, {4, 6})}]

\* Labels of the degrees of freedom, by the position of the node in ids.
InOrder == <<0, 1, 2, 3, 4>>
Scattered == <<9, 4, 0, 7, 2>>
Periodic == <<1, 2, 3, 1, 4>>

\* Where the reader left node number i and element e.
NodePlace(where, i) == IF where = "last" THEN 2 ELSE i % 3
ElementPlace(where, e) == IF where = "last" THEN 2 ELSE (e + 1) % 3

Mesh(line, labels, where, optimize) ==
  [nodes |-> [r \in MCRanks |->
     LET here == {i \in DOMAIN line.ids : NodePlace(where, i) = r}
     IN [id \in {line.ids[i] : i \in here} |-> labels[CHOOSE i \in here : line.ids[i] = id]]],
   elements |-> [r \in MCRanks |->
     {[id |-> e.id, nodes |-> e.nodes, linear |-> e.linear, owner |-> r] :
        e \in {f \in line.elements : ElementPlace(where, f.id) = r}}],
   optimize |-> optimize]

MCMeshes ==
  {Mesh(line, labels, where, optimize) :
     line \in {LinearLine, QuadraticLine}, labels \in {Scattered, Periodic},
     where \in {"last", "spread"}, optimize \in BOOLEAN}
  \cup {Mesh(ShortLine, InOrder, "last", optimize) : optimize \in BOOLEAN}
  \cup {Mesh(PointLine, Scattered, "spread", FALSE)}

\* What ParMETIS may do with 3 to 5 degrees of freedom: deal them out, turn the
\* blocks round, leave a rank without any.  And what reduceBandwidth may do with
\* the blocks: anything.
MCParts ==
  UNION {{[d \in 0 .. n - 1 |-> d % 3], [d \in 0 .. n - 1 |-> 2 - (3 * d) \div n],
          [d \in 0 .. n - 1 |-> IF d = 1 THEN 0 ELSE 2]} : n \in 3 .. 5}
MCOrders == UNION {Permutations(0 .. n - 1) : n \in 2 .. 5}

MidNodeMeshes == {Mesh(MidNodeLine, InOrder, "spread", FALSE)}
=============================================================================
