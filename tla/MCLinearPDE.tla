---------------------------- MODULE MCLinearPDE ----------------------------
(***************************************************************************)
(* LinearPDE for TLC: two degrees of freedom, two values, and the ways of  *)
(* using a PDE for which its bookkeeping is meant.                         *)
(***************************************************************************)
EXTENDS LinearPDE

MCNodes == {1, 2}
MCMasks == {{}, {1}}
MCValues == {0, 1}
MCLumping == {"rowsum", "hrz"}

Use(methods, sets, r, reduce, raises, late, bareReset) ==
  [methods |-> methods, sets |-> sets, r |-> r, reduce |-> reduce,
   raises |-> raises, late |-> late, bareReset |-> bareReset]

\* One matrix type; two, with constraints of value zero and calls that raise;
\* reduced orders; lumping with constraints fixed from the start, alone and
\* after, or before, a matrix.
SoundUses ==
  {Use({"csr"}, {"D", "q", "r", "y"}, {0, 1}, {}, FALSE, TRUE, FALSE),
   Use({"csr", "csc"}, {"D", "q", "y"}, {0}, {}, TRUE, TRUE, FALSE),
   Use({"csr"}, {"D", "y"}, {0}, Sides, FALSE, TRUE, FALSE),
   Use({"rowsum"}, {"D", "q", "r"}, {0, 1}, Sides, FALSE, FALSE, FALSE),
   Use({"hrz", "csr"}, {"A", "D", "q"}, {0}, {}, TRUE, FALSE, FALSE)}
=============================================================================
