-------------------------- MODULE SharedVariables --------------------------
(***************************************************************************)
(* What a SplitWorld promises its script about shared variables: there is  *)
(* one value per variable, however many worlds there are.  The exports of  *)
(* one runJobs are reduced, each counted once; the first of them replaces  *)
(* the value of earlier rounds; synchronising the worlds changes no value. *)
(***************************************************************************)
EXTENDS Reducers

CONSTANTS
  Vars,          \* names of the shared variables
  Op,            \* their reductions
  ExportValues   \* values a job may export

VARIABLES
  declared,  \* variables the script has declared
  shared,    \* the one value of each variable
  fresh      \* variables exported since the last runJobs began

vars == <<declared, shared, fresh>>

Nothing == [holds |-> "nothing", value |-> 0]
Conflict == [holds |-> "conflict", value |-> 0]
Holding(x) == [holds |-> "value", value |-> x]

Init ==
  /\ declared = {}
  /\ shared = [v \in Vars |-> Nothing]
  /\ fresh = {}

DeclareVariable(v) ==
  /\ v \notin declared
  /\ declared' = declared \cup {v}
  /\ UNCHANGED <<shared, fresh>>

RemoveVariable(v) ==
  /\ v \in declared
  /\ declared' = declared \ {v}
  /\ shared' = [shared EXCEPT ![v] = Nothing]
  /\ fresh' = fresh \ {v}

ClearVariable(v) ==
  /\ v \in declared
  /\ shared' = [shared EXCEPT ![v] = Nothing]
  /\ UNCHANGED <<declared, fresh>>

CopyVariable(src, dest) ==
  /\ {src, dest} \subseteq declared /\ shared[src].holds = "value"
  /\ shared' = [shared EXCEPT ![dest] = shared[src]]
  /\ UNCHANGED <<declared, fresh>>

\* A job's export joins the round: two exports to a SET variable conflict.
Export(v, x) ==
  /\ v \in declared
  /\ shared' = [shared EXCEPT ![v] =
       IF v \notin fresh THEN Holding(x)
       ELSE IF CanClash(Op[v]) THEN Conflict
       ELSE Holding(Combine(Op[v], @.value, x))]
  /\ fresh' = fresh \cup {v}
  /\ UNCHANGED declared

\* Reporting a conflict is the only thing that loses a value.
Report(C) == shared' = [v \in Vars |-> IF v \in C THEN Nothing ELSE shared[v]]

Conflicts == {v \in Vars : shared[v] = Conflict}

\* The script reads a variable.
Read == \E C \in SUBSET Conflicts : Report(C) /\ UNCHANGED <<declared, fresh>>

\* The script starts a batch of jobs.
StartRound ==
  \E C \in SUBSET Conflicts : Report(C) /\ fresh' = {} /\ UNCHANGED declared

Next ==
  \/ \E v \in Vars : DeclareVariable(v) \/ RemoveVariable(v) \/ ClearVariable(v)
  \/ \E src, dest \in Vars : CopyVariable(src, dest)
  \/ \E v \in Vars, x \in ExportValues : Export(v, x)
  \/ Read
  \/ StartRound

Spec == Init /\ [][Next]_vars
=============================================================================
