----------------------------- MODULE MCSubWorld -----------------------------
(***************************************************************************)
(* Instances of SubWorld for TLC.                                          *)
(***************************************************************************)
EXTENDS SubWorldRefinement, SubWorldInvariant, VariableGroups

FirstVar == {1}
OneVar == {1}
TwoVars == 1 .. 2
ThreeVars == 1 .. 3
OneSum == [v \in OneVar |-> "SUM"]
SumSum == [v \in TwoVars |-> "SUM"]
SetMaxLocal == [v \in ThreeVars |-> CASE v = 1 -> "SET" [] v = 2 -> "MAX" [] v = 3 -> "LOCAL"]
NoCopies == {}
FirstToSecond == {<<1, 2>>}
Values == {1, 2}
OneValueOnly == {1}
=============================================================================
