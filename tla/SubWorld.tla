------------------------------ MODULE SubWorld ------------------------------
(***************************************************************************)
(* Sharing variables between the subworlds of a SplitWorld.  Every world   *)
(* runs the same top-level script.  Between two collective operations a    *)
(* world works alone: it runs its jobs and merges what they export into    *)
(* its own reducers.  A collective operation (exchanging what each world   *)
(* knows, then shipping and reducing values) is one joint step: no world   *)
(* changes its tables between the exchange and the end of the loop.        *)
(***************************************************************************)
EXTENDS Reducers

CONSTANTS
  swcount,       \* number of subworlds
  Vars,          \* variable names, numbered in the order of a std::map's keys
  Op,            \* the reduction each variable is declared with
  ExportValues,  \* values a job may export
  Queried,       \* variables the script reads with getFloatVariable
  Copied,        \* pairs <<src, dest>> the script passes to copyVariable
  CopyShared,    \* TRUE: it copies only values that all worlds share already
  SetTwice,      \* TRUE: jobs of one world may export a SET variable twice
  MaxBatches,    \* bound: calls of runJobs
  MaxOps,        \* bound: clear, remove, copy and read operations of the script
  MaxExports     \* bound: exports of one world in one batch

ASSUME WorldsAssumption == swcount \in Nat \ {0}
ASSUME VarsAssumption == Vars \subseteq Nat /\ Op \in [Vars -> Ops]
ASSUME ScriptAssumption == Queried \subseteq Vars /\ Copied \subseteq Vars \X Vars
ASSUME ValuesAssumption == ExportValues \subseteq Int
ASSUME BoundsAssumption == {MaxBatches, MaxOps, MaxExports} \subseteq Nat

Worlds == 0 .. swcount - 1

\* reducerstatus
States == {"NONE", "INTERESTED", "OLD", "OLDINTERESTED", "NEW"}

Shared == {v \in Vars : Op[v] # "LOCAL"}

VARIABLES
  declared,   \* the keys of reducemap and varstate: the same on every world
  varstate,   \* varstate[w][v]: what world w says of v
  reducemap,  \* reducemap[w][v]: the reducer of v on world w
  imported,   \* imported[w][v]: the reducer content last delivered to w's jobs
  pc,         \* where each world is in runJobs
  mres,       \* the result each world brings to (or takes from) checkResult
  exports,    \* exports a world may still make in this batch
  batches,    \* calls of runJobs so far
  ops         \* other script operations so far

vars == <<declared, varstate, reducemap, imported, pc, mres, exports, batches, ops>>

None == [value |-> 0, valueadded |-> FALSE]
NotDelivered == [w \in Worlds |-> [v \in Vars |-> None]]

Init ==
  /\ declared = {}
  /\ varstate = [w \in Worlds |-> [v \in Vars |-> "NONE"]]
  /\ reducemap = [w \in Worlds |-> [v \in Vars |-> NewReducer]]
  /\ imported = NotDelivered
  /\ pc = [w \in Worlds |-> "script"]
  /\ mres = [w \in Worlds |-> 0]
  /\ exports = [w \in Worlds |-> 0]
  /\ batches = 0
  /\ ops = 0

-----------------------------------------------------------------------------
(* The collective operations, as operators on the tables of states (st) and *)
(* reducers (rm).                                                          *)

In(st, v, S) == {w \in Worlds : st[w][v] \in S}

\* More than one: newcount > 1
Several(S) == \E a, b \in S : a # b

New(st, v) == In(st, v, {"NEW"})
Holders(st, v) == In(st, v, {"OLD", "OLDINTERESTED"})
\* Fault: a world with an old copy is never sent the update.
WantingFirstCopy(st, v) == In(st, v, {"INTERESTED"})

Wanting(st, v) == In(st, v, {"INTERESTED", "OLDINTERESTED"})

Interested(s) ==
  CASE s = "NONE" -> "INTERESTED"
    [] s = "OLD" -> "OLDINTERESTED"
    [] OTHER -> s

\* Fault: giving up interest gives up the old copy's state too.
GivesUpCopy(s) == IF s \in {"INTERESTED", "OLDINTERESTED"} THEN "NONE" ELSE s

NotInterested(s) ==
  CASE s = "INTERESTED" -> "NONE"
    [] s = "OLDINTERESTED" -> "OLD"
    [] OTHER -> s

ResetInterest(st) == [w \in Worlds |-> [v \in Vars |-> NotInterested(st[w][v])]]

\* Fault: a variable with updates but no old copy isn't asked for.
InterestInOldCopies(st) ==
  [w \in Worlds |-> [v \in Vars |->
    IF v \in declared /\ Holders(st, v) # {} THEN Interested(st[w][v]) ELSE st[w][v]]]

\* synchVariableInfo: every world becomes interested in every variable that
\* some world has a value for.
SynchVariableInfo(st) ==
  [w \in Worlds |-> [v \in Vars |->
    IF v \in declared /\ Holders(st, v) \cup New(st, v) # {}
    THEN Interested(st[w][v]) ELSE st[w][v]]]

\* synchVariableValues, the two ways it fails at a variable
NoSource(st, v) == Wanting(st, v) # {} /\ Holders(st, v) \cup New(st, v) = {}
SetClash(st, v) == CanClash(Op[v]) /\ Several(New(st, v))

Failing(st) == {v \in declared : NoSource(st, v) \/ SetClash(st, v)}
StopsAt(st, v) == v \in Failing(st) /\ \A u \in Failing(st) : v <= u

\* The variables the loop has dealt with when it ends or stops.
Passed(st) == {v \in declared : \A u \in Failing(st) : v < u}

\* Fault: several updates are merged only if some world without one wants the value.
ShipsIfWanted(st, v) == New(st, v) # {} /\ Wanting(st, v) # {}

\* One update or several are shipped to whoever has an update or wants one.
Ships(st, v) ==
  Several(New(st, v)) \/ (New(st, v) # {} /\ Wanting(st, v) # {})

\* The value shipped: the only update, or the reduction of all of them.
Merged(st, rm, v) ==
  Allreduce(Op[v], New(st, v), [w \in Worlds |-> rm[w][v].value])

\* No update, but some world wants a copy of an old value and has none.
ShipsOld(st, v) ==
  New(st, v) = {} /\ Holders(st, v) # {} /\ In(st, v, {"INTERESTED"}) # {}

FirstHolder(st, v) == CHOOSE w \in Holders(st, v) : \A u \in Holders(st, v) : w <= u

SharedReducer(st, rm, w, v) ==
  IF Ships(st, v) /\ New(st, v) = Worlds
  THEN ReduceRemoteValues(Op[v], rm[w][v], Merged(st, rm, v))
  ELSE IF Ships(st, v) /\ w \in New(st, v) \cup Wanting(st, v)
  THEN Receive(Op[v], rm[w][v], Merged(st, rm, v))
  ELSE IF ShipsOld(st, v) /\ w \in In(st, v, {"INTERESTED"}) \cup {FirstHolder(st, v)}
  THEN Receive(Op[v], rm[w][v], rm[FirstHolder(st, v)][v].value)
  ELSE rm[w][v]

SharedState(st, w, v) ==
  IF \/ Ships(st, v) /\ st[w][v] = "INTERESTED"
     \/ Several(New(st, v)) /\ New(st, v) # Worlds /\ st[w][v] = "NEW"
  THEN "OLDINTERESTED" ELSE st[w][v]

\* When the loop gets to its end, the copies of the variables that had updates age.
Ages(st, v) == Failing(st) = {} /\ New(st, v) # {}

\* A SET clash stops the loop and takes the variable's value from every world.
Loses(st, v) == StopsAt(st, v) /\ SetClash(st, v)

SynchedState(st, w, v) ==
  LET s == SharedState(st, w, v)
  IN  IF Loses(st, v) THEN "NONE"
      ELSE IF v \notin Passed(st) THEN st[w][v]
      ELSE IF Ages(st, v) /\ s = "NEW" THEN "OLD"
      ELSE IF Ages(st, v) /\ s = "OLD" THEN "NONE"
      ELSE s

SynchedReducer(st, rm, w, v) ==
  LET r == SharedReducer(st, rm, w, v)
  IN  IF Loses(st, v) THEN Reset(rm[w][v])
      ELSE IF v \notin Passed(st) THEN rm[w][v]
      ELSE IF Ages(st, v) /\ SharedState(st, w, v) = "OLD" THEN Clear(r)
      ELSE r

\* synchVariableInfo, then synchVariableValues
Synch(st, rm) ==
  LET si == SynchVariableInfo(st)
  IN  /\ varstate' = [w \in Worlds |-> [v \in Vars |-> SynchedState(si, w, v)]]
      /\ reducemap' = [w \in Worlds |-> [v \in Vars |-> SynchedReducer(si, rm, w, v)]]

SynchSucceeds(st) == Failing(SynchVariableInfo(st)) = {}

-----------------------------------------------------------------------------
(* Operations of the top-level script, taken by all worlds together.       *)

InScript == \A w \in Worlds : pc[w] = "script"

ScriptOp == InScript /\ ops < MaxOps /\ ops' = ops + 1

AddVariable(v) ==
  /\ InScript /\ v \notin declared
  /\ declared' = declared \cup {v}
  /\ varstate' = [w \in Worlds |-> [varstate[w] EXCEPT ![v] = "NONE"]]
  /\ reducemap' = [w \in Worlds |-> [reducemap[w] EXCEPT ![v] = NewReducer]]
  /\ UNCHANGED <<imported, pc, mres, exports, batches, ops>>

\* An undeclared variable keeps a blank entry in the tables.
RemoveVariable(v) ==
  /\ ScriptOp /\ v \in declared
  /\ declared' = declared \ {v}
  /\ varstate' = [w \in Worlds |-> [varstate[w] EXCEPT ![v] = "NONE"]]
  /\ reducemap' = [w \in Worlds |-> [reducemap[w] EXCEPT ![v] = NewReducer]]
  /\ UNCHANGED <<imported, pc, mres, exports, batches>>

\* Fault: the values are cleared, the worlds still announce them.
ClearValuesOnly(v) ==
  /\ ScriptOp /\ v \in declared
  /\ reducemap' = [w \in Worlds |-> [reducemap[w] EXCEPT ![v] = Reset(@)]]
  /\ UNCHANGED <<declared, varstate, imported, pc, mres, exports, batches>>

ClearVariable(v) ==
  /\ ScriptOp /\ v \in declared
  /\ varstate' = [w \in Worlds |-> [varstate[w] EXCEPT ![v] = "NONE"]]
  /\ reducemap' = [w \in Worlds |-> [reducemap[w] EXCEPT ![v] = Reset(@)]]
  /\ UNCHANGED <<declared, imported, pc, mres, exports, batches>>

IsShared(v) == New(varstate, v) = {} /\ Holders(varstate, v) # {}

\* The destination's reducer changes, its varstate doesn't.
CopyVariable(src, dest) ==
  /\ ScriptOp /\ {src, dest} \subseteq declared
  /\ CopyShared => IsShared(src) /\ New(varstate, dest) = {}
  /\ Op[src] = "LOCAL" <=> Op[dest] = "LOCAL"
  /\ reducemap' = [w \in Worlds |->
       [reducemap[w] EXCEPT ![dest] = CopyValueFrom(@, reducemap[w][src])]]
  /\ UNCHANGED <<declared, varstate, imported, pc, mres, exports, batches>>

\* getScalarVariable and getLocalObjectVariable: become interested, then synchronise.
GetVariable(v) ==
  /\ ScriptOp /\ v \in declared
  /\ Synch([w \in Worlds |-> [varstate[w] EXCEPT ![v] = Interested(@)]], reducemap)
  /\ UNCHANGED <<declared, imported, pc, mres, exports, batches>>

NewRounds == [w \in Worlds |-> [v \in Vars |-> NewRound(reducemap[w][v])]]

\* runJobs up to the point where the worlds part: a failed synchronisation
\* takes every world straight to checkResult with result 4.
StartBatch ==
  /\ InScript /\ batches < MaxBatches
  /\ batches' = batches + 1
  /\ LET st == ResetInterest(varstate) IN
     /\ Synch(st, NewRounds)
     /\ IF SynchSucceeds(st)
        THEN /\ pc' = [w \in Worlds |-> "jobs"]
             /\ mres' = [w \in Worlds |-> 0]
        ELSE /\ pc' = [w \in Worlds |-> "joining"]
             /\ mres' = [w \in Worlds |-> 4]
  /\ exports' = [w \in Worlds |-> 0]
  /\ UNCHANGED <<declared, imported, ops>>

\* runJobs when a job could not be created on some world: distributeJobs throws.
StartBatchFails ==
  /\ InScript /\ batches < MaxBatches
  /\ batches' = batches + 1
  /\ varstate' = ResetInterest(varstate)
  /\ reducemap' = NewRounds
  /\ UNCHANGED <<declared, imported, pc, mres, exports, ops>>

-----------------------------------------------------------------------------
(* What a world does alone inside runJobs.                                 *)

\* What deliverImports gives a job of world w for v.
Import(w, v) ==
  IF v \in declared /\ reducemap[w][v].valueadded
  THEN [value |-> reducemap[w][v].value, valueadded |-> TRUE] ELSE None

\* deliverImports, then SubWorld::runJobs: its result r is 0 (every job returned
\* True), 1 (some job False), 2 (a job no Boolean) or 3 (a job raised).
RunJobs(w, r) ==
  /\ pc[w] = "jobs"
  /\ imported' = [imported EXCEPT ![w] = [v \in Vars |-> Import(w, v)]]
  /\ mres' = [mres EXCEPT ![w] = r]
  /\ pc' = [pc EXCEPT ![w] = IF r < 2 THEN "transport" ELSE "joining"]
  /\ UNCHANGED <<declared, varstate, reducemap, exports, batches, ops>>

\* localTransport merges the value x some job exported for v.
Transport(w, v, x) ==
  /\ pc[w] = "transport" /\ exports[w] < MaxExports /\ v \in declared
  /\ SetTwice \/ ~ LocalClash(Op[v], reducemap[w][v])
  /\ exports' = [exports EXCEPT ![w] = @ + 1]
  /\ reducemap' = [reducemap EXCEPT ![w][v] = ReduceLocalValue(Op[v], @, x)]
  /\ IF LocalClash(Op[v], reducemap[w][v])
     THEN /\ mres' = [mres EXCEPT ![w] = 4]
          /\ pc' = [pc EXCEPT ![w] = "joining"]
          /\ UNCHANGED varstate
     ELSE /\ varstate' = [varstate EXCEPT ![w][v] = "NEW"]
          /\ UNCHANGED <<mres, pc>>
  /\ UNCHANGED <<declared, imported, batches, ops>>

\* localTransport meets an export it refuses: an undeclared name, None, or a
\* value of the wrong type.
RefuseExport(w) ==
  /\ pc[w] = "transport" /\ exports[w] < MaxExports
  /\ mres' = [mres EXCEPT ![w] = 4]
  /\ pc' = [pc EXCEPT ![w] = "joining"]
  /\ UNCHANGED <<declared, varstate, reducemap, imported, exports, batches, ops>>

EndTransport(w) ==
  /\ pc[w] = "transport"
  /\ pc' = [pc EXCEPT ![w] = "joining"]
  /\ UNCHANGED <<declared, varstate, reducemap, imported, mres, exports, batches, ops>>

\* checkResult has met every world, and clearJobs drops the jobs with what was
\* delivered to them.  Whether runJobs then throws is SplitWorld's matter.
Join ==
  /\ \A w \in Worlds : pc[w] = "joining"
  /\ mres' = [w \in Worlds |-> 0]
  /\ pc' = [w \in Worlds |-> "script"]
  /\ imported' = NotDelivered
  /\ exports' = [w \in Worlds |-> 0]
  /\ UNCHANGED <<declared, varstate, reducemap, batches, ops>>

Script ==
  \/ \E v \in Vars : AddVariable(v) \/ RemoveVariable(v) \/ ClearVariable(v)
  \/ \E c \in Copied : CopyVariable(c[1], c[2])
  \/ \E v \in Queried : GetVariable(v)
  \/ StartBatch
  \/ StartBatchFails

Local(w) ==
  \/ \E r \in 0 .. 3 : RunJobs(w, r)
  \/ \E v \in Vars, x \in ExportValues : Transport(w, v, x)
  \/ RefuseExport(w)
  \/ EndTransport(w)

\* The script has come to its end.
Finished == InScript /\ batches = MaxBatches /\ UNCHANGED vars

Next == Script \/ Join \/ (\E w \in Worlds : Local(w)) \/ Finished

Spec == Init /\ [][Next]_vars

-----------------------------------------------------------------------------
(* Properties                                                              *)

Contents == [value : Int, valueadded : BOOLEAN]

\* Every table has the shape the code gives it.
TypeOK ==
  /\ declared \subseteq Vars
  /\ varstate \in [Worlds -> [Vars -> States]]
  /\ reducemap \in [Worlds -> [Vars -> [value : Int, valueadded : BOOLEAN, exported : BOOLEAN]]]
  /\ imported \in [Worlds -> [Vars -> Contents]]
  /\ pc \in [Worlds -> {"script", "jobs", "transport", "joining"}]
  /\ mres \in [Worlds -> 0 .. 4]
  /\ exports \in [Worlds -> 0 .. MaxExports]
  /\ batches \in 0 .. MaxBatches
  /\ ops \in 0 .. MaxOps

\* As soon as one world holds an old copy of a variable, every world holds a copy
\* or a new value: automatic imports never take synchVariableValues to the point
\* where it ships an old copy (makeGroupComm2).
CopiesEverywhere ==
  \A v \in Vars : Holders(varstate, v) # {} => In(varstate, v, {"NONE", "INTERESTED"}) = {}

\* Two worlds that hold an old copy of a shared variable hold the same value.
OldCopiesAgree ==
  \A v \in Shared : \A a, b \in Holders(varstate, v) :
    /\ reducemap[a][v].valueadded
    /\ reducemap[a][v].value = reducemap[b][v].value

\* AbstractReducer.h: a world whose state is NEW has a value for the variable.
NewHasValue ==
  \A w \in Worlds, v \in Vars : varstate[w][v] = "NEW" => reducemap[w][v].valueadded

\* AbstractReducer.h: a world whose state is NONE has no value for the variable.
NoneMeansNoValue ==
  \A w \in Worlds, v \in Vars : varstate[w][v] = "NONE" => ~ reducemap[w][v].valueadded

Delivered(w) == pc[w] \in {"transport", "joining"}

\* The jobs of one batch see the same values on every world, although the worlds
\* start them at different times and merge exports as soon as they are done.
ImportsAgree ==
  \A v \in Shared : \A a, b \in Worlds :
    Delivered(a) /\ Delivered(b) => imported[a][v] = imported[b][v]

\* What is delivered for a SUM variable is never more than one batch can add up to
\* (subworlds.tex: SUM adds all exported values together).
SumWithinBatch ==
  \A w \in Worlds, v \in Vars, m \in ExportValues :
    Op[v] = "SUM" /\ (\A x \in ExportValues : x <= m)
      => imported[w][v].value <= swcount * MaxExports * m

\* A LOCAL variable's value on a world never comes from another world
\* (subworlds.tex: each subworld has its own value independent of the others):
\* it takes a new value only while that world merges its own jobs' exports.
LocalStaysLocal ==
  [][\A w \in Worlds, v \in Vars \ Shared :
       reducemap'[w][v].valueadded /\ reducemap'[w][v].value # reducemap[w][v].value
         => pc[w] = "transport"]_vars
=============================================================================
