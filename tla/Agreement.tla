------------------------------ MODULE Agreement ------------------------------
(***************************************************************************)
(* What checkResult promises: every rank brings a number to each round and *)
(* all of them leave the round with the largest number brought.            *)
(***************************************************************************)
EXTENDS Integers, Sequences

CONSTANTS
  Ranks,     \* the processes of the communicator
  Results    \* the numbers a rank may bring

VARIABLES
  brought,   \* brought[r]: what rank r brought to each round so far
  took       \* took[r]: what rank r took from each round so far

vars == <<brought, took>>

Init ==
  /\ brought = [r \in Ranks |-> << >>]
  /\ took = [r \in Ranks |-> << >>]

\* m is the largest number brought to round k, to which every rank has come.
Largest(m, k) ==
  /\ \A r \in Ranks : Len(brought[r]) >= k /\ brought[r][k] <= m
  /\ \E r \in Ranks : brought[r][k] = m

Bring(r, x) ==
  /\ Len(brought[r]) = Len(took[r])
  /\ brought' = [brought EXCEPT ![r] = Append(@, x)]
  /\ UNCHANGED took

Take(r, m) ==
  /\ Len(took[r]) < Len(brought[r])
  /\ Largest(m, Len(took[r]) + 1)
  /\ took' = [took EXCEPT ![r] = Append(@, m)]
  /\ UNCHANGED brought

Next == \E r \in Ranks, x \in Results : Bring(r, x) \/ Take(r, x)

Spec == Init /\ [][Next]_vars
=============================================================================
