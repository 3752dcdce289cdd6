----------------------------- MODULE MCDataLazy -----------------------------
(***************************************************************************)
(* DataLazy for TLC: three objects on two samples.                         *)
(***************************************************************************)
EXTENDS DataLazy

Object(at, type, a, b) == [at |-> at, type |-> type, val |-> <<a, b>>]

\* One object of each type.
MCStarts ==
  {("x" :> Object(1, "C", 1, 1)) @@ ("y" :> Object(2, "T", 0, 2)) @@ ("z" :> Object(3, "E", 3, 0))}
MCSamples == {1, 2}
MCCells == 1 .. 18
=============================================================================
