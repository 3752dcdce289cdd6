---------------------------- MODULE MCDataManager ----------------------------
(***************************************************************************)
(* Instances of DataManager for TLC.                                       *)
(***************************************************************************)
EXTENDS DataManagerInvariant

\* The frequency is never changed.
Always(f) == [n \in Cycles |-> f]

\* The frequency is changed before every export but the second.
Turns == [n \in Cycles |-> IF n \in {2, 4} THEN 2 ELSE 1]

TwoAndTurns == {Always(2), Turns}
JustOne == {Always(1)}
=============================================================================
