------------------------------ MODULE Reducers ------------------------------
(***************************************************************************)
(* The reducers of escriptcore: the object that holds one shared variable  *)
(* on one world (AbstractReducer, MPIScalarReducer, NonReducedVariable).   *)
(* A reducer is a record; its methods are operators on that record.        *)
(***************************************************************************)
EXTENDS Integers, Functions

\* The reduction an MPIScalarReducer is made with; LOCAL is a NonReducedVariable.
Ops == {"SUM", "MAX", "MIN", "SET", "LOCAL"}

\* Fault: a constructor that forgets had_an_export_this_round
UnroundedReducer == [value |-> 0, valueadded |-> FALSE]

\* value, valueadded (does it hold a value), exported (had_an_export_this_round)
NewReducer == [value |-> 0, valueadded |-> FALSE, exported |-> FALSE]

\* Fault: the value is reset, the flag that there is one isn't.
ResetKeepingFlag(r) == [r EXCEPT !.value = 0]

Reset(r) == [r EXCEPT !.value = 0, !.valueadded = FALSE]

Clear(r) == [r EXCEPT !.valueadded = FALSE]

NewRound(r) == [r EXCEPT !.exported = FALSE]

\* combineDouble
Combine(op, a, b) ==
  CASE op = "SUM" -> a + b
    [] op = "MAX" -> IF b > a THEN b ELSE a
    [] op = "MIN" -> IF b < a THEN b ELSE a

\* MPI_Allreduce of f over the members of a communicator
Allreduce(op, members, f) ==
  LET first == CHOOSE w \in members : TRUE
  IN  FoldFunctionOnSet(LAMBDA a, b : Combine(op, a, b),
                        f[first], f, members \ {first})

CanClash(op) == op = "SET"

\* A second export to a SET variable in one round: reduceLocalValue fails.
LocalClash(op, r) == CanClash(op) /\ r.valueadded /\ r.exported

\* Fault: an export joins the value of earlier rounds.
ReduceAcrossRounds(op, r, x) ==
  IF op = "LOCAL" THEN [r EXCEPT !.value = x, !.valueadded = TRUE]
  ELSE IF ~r.valueadded THEN [value |-> x, valueadded |-> TRUE, exported |-> TRUE]
  ELSE IF LocalClash(op, r) THEN Reset(r)
  ELSE [r EXCEPT !.value = IF op = "SET" THEN x ELSE Combine(op, r.value, x), !.exported = TRUE]

\* reduceLocalValue(x): the first export of a round replaces what was there
ReduceLocalValue(op, r, x) ==
  IF op = "LOCAL" THEN [r EXCEPT !.value = x, !.valueadded = TRUE]
  ELSE IF ~r.valueadded \/ ~r.exported
       THEN [value |-> x, valueadded |-> TRUE, exported |-> TRUE]
  ELSE IF CanClash(op) THEN Reset(r)
  ELSE [r EXCEPT !.value = Combine(op, r.value, x)]

\* reduceRemoteValues, with the result x of the Allreduce
ReduceRemoteValues(op, r, x) ==
  IF op = "LOCAL" THEN r ELSE [r EXCEPT !.value = x]

\* Fault: a NonReducedVariable takes part in groupSend.
ReceiveAlways(op, r, x) == [r EXCEPT !.value = x, !.valueadded = TRUE]

\* groupSend on a receiver (and on the sender): the broadcast value arrives.
Receive(op, r, x) ==
  IF op = "LOCAL" THEN r ELSE [r EXCEPT !.value = x, !.valueadded = TRUE]

CopyValueFrom(r, src) == [r EXCEPT !.value = src.value, !.valueadded = TRUE]
=============================================================================
