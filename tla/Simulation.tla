----------------------------- MODULE Simulation -----------------------------
(***************************************************************************)
(* escriptcore/py_src/modelframe.py: a Simulation marches a tree of models *)
(* and simulations through time.  A time step sets all models up, iterates *)
(* them until every one is satisfied, and ends it for all of them; when a  *)
(* model raises, run() repeats it with another step size, a limited number *)
(* of times.                                                               *)
(*                                                                         *)
(* agenda holds the calls still to be made: a call on a simulation makes   *)
(* way for calls on its members, in their order.  What a model does is     *)
(* arbitrary, except that it doesn't refuse for ever to be satisfied: as   *)
(* modellib's do, it raises then (flow.py:124, mechanics.py:160).          *)
(***************************************************************************)
EXTENDS Integers, Sequences, FiniteSets, Functions

CONSTANTS
  Root,                  \* the simulation that is run
  Simulations, Models,   \* its nodes and its leaves
  Members,               \* the models of each simulation, in their order
  Sizes,                 \* what the models call a safe step size, at the least
  PostRaises,            \* may a model fail in doStepPostprocessing?
  UNDEF_DT, FAILED_TIME_STEPS_MAX, MAX_ITER_STEPS, MAX_CHANGE_OF_DT,
  MaxSteps,              \* bound: time steps of a run
  MaxRefusals            \* bound: times that models want one more iteration in a step

Nodes == Simulations \cup Models

\* A node with all that is below it, however deep: what every set has in it that holds
\* the node and, with a simulation, its members.
Closed(S) == \A s \in S \cap Simulations : Range(Members[s]) \subseteq S
Inside == [x \in Nodes |-> {y \in Nodes : \A S \in SUBSET Nodes : x \in S /\ Closed(S) => y \in S}]

\* The models of a simulation and of those in it.
Below == [s \in Simulations |-> Inside[s] \cap Models]

\* Root is the root of a tree: each of the other simulations is a member of one, in one
\* place.  A model may be a member of several.
ASSUME TreeAssumption ==
  /\ Root \in Simulations /\ Simulations \cap Models = {}
  /\ Members \in [Simulations -> Seq(Nodes)]
  /\ Inside[Root] = Nodes
  /\ \A s \in Simulations : Root \notin Range(Members[s])
  /\ \A s, t \in Simulations : \A i \in DOMAIN Members[s], j \in DOMAIN Members[t] :
       Members[s][i] = Members[t][j] /\ Members[s][i] \in Simulations => s = t /\ i = j
ASSUME BoundsAssumption ==
  /\ Sizes \subseteq Int /\ PostRaises \in BOOLEAN
  /\ {FAILED_TIME_STEPS_MAX, MAX_ITER_STEPS, MAX_CHANGE_OF_DT, MaxSteps, MaxRefusals} \subseteq Nat

VARIABLES
  phase,      \* initial, step, ending, done, raised
  agenda,     \* the calls to be made
  clock,      \* time, time_step and dt of each simulation
  dtNew,      \* dt_new
  failures,   \* iteration_fail_counter and step_fail_counter
  refusals,   \* iterations asked for in this attempt
  setUp,      \* per model: the attempt it was last set up for
  satisfied   \* the models that were satisfied when last asked, if none iterated since

vars == <<phase, agenda, clock, dtNew, failures, refusals, setUp, satisfied>>

Call(method, of) == [method |-> method, of |-> of, iter |-> 0]
Calls(method, s) == [i \in DOMAIN Members[s] |-> Call(method, Members[s][i])]

Begins == Head(agenda)
Calling(method) == agenda # <<>> /\ Begins.method = method
OnModel == Begins.of \in Models

\* Fault: a repeated step goes on with what was set up before.
AttemptWithoutSetUp ==
  (IF failures.step + failures.iteration = 0 THEN <<Call("doStepPreprocessing", Root)>> ELSE <<>>)
    \o <<Call("doStep", Root), Call("doStepPostprocessing", Root)>>
\* The calls of a time step.
Attempt ==
  <<Call("doStepPreprocessing", Root), Call("doStep", Root), Call("doStepPostprocessing", Root)>>
\* The attempt that is made: of which step, after which failures, of what size.
Attempted == <<clock[Root].time_step, failures, dtNew>>

-----------------------------------------------------------------------------
Init ==
  /\ phase = "initial"
  /\ agenda = <<Call("doInitialization", Root), Call("doInitialStep", Root),
                Call("doInitialPostprocessing", Root)>>
  /\ clock = [s \in Simulations |-> [time |-> 0, time_step |-> 0, dt |-> UNDEF_DT]]
  /\ dtNew = UNDEF_DT
  /\ failures = [iteration |-> 0, step |-> 0]
  /\ refusals = 0
  /\ setUp = [m \in Models |-> <<>>]
  /\ satisfied = {}

\* Simulation.doInitialization and its like: the call is passed on to every
\* member; the clock is advanced after the last.
PassesOn == {"doInitialization", "doInitialPostprocessing", "doStepPreprocessing",
             "doStepPostprocessing", "doFinalization"}
\* Fault: the clock is advanced when the step is set up.
PassedOnAdvancingFirst(c) ==
  Calls(c.method, c.of)
    \o (IF c.method = "doStepPreprocessing" THEN <<Call("advance", c.of)>> ELSE <<>>)
PassedOn(c) ==
  Calls(c.method, c.of)
    \o (IF c.method = "doStepPostprocessing" THEN <<Call("advance", c.of)>> ELSE <<>>)
PassOn ==
  /\ agenda # <<>> /\ Begins.method \in PassesOn /\ ~OnModel
  /\ agenda' = PassedOn(Begins) \o Tail(agenda)
  /\ UNCHANGED <<phase, clock, dtNew, failures, refusals, setUp, satisfied>>

Advance ==
  /\ Calling("advance")
  /\ clock' = [clock EXCEPT ![Begins.of] =
                 [time |-> @.time + dtNew, time_step |-> @.time_step + 1, dt |-> dtNew]]
  /\ agenda' = Tail(agenda)
  /\ UNCHANGED <<phase, dtNew, failures, refusals, setUp, satisfied>>

\* A method of a model returns.
Work ==
  /\ agenda # <<>> /\ OnModel
  /\ agenda' = Tail(agenda)
  /\ setUp' = IF Begins.method = "doStepPreprocessing"
              THEN [setUp EXCEPT ![Begins.of] = Attempted] ELSE setUp
  /\ satisfied' = IF Begins.method \in {"doStep", "doInitialStep"} THEN {} ELSE satisfied
  /\ UNCHANGED <<phase, clock, dtNew, failures, refusals>>

\* Fault: one satisfied model is enough.
TerminatesOnAny(s, yes) == yes # {} \/ Below[s] = {}
\* doStep and doInitialStep of a simulation ask every model below it, and
\* iterate all members once more unless all are satisfied.
Terminates(s, yes) == yes = Below[s]
OnceMore(c) == Calls(c.method, c.of) \o <<[c EXCEPT !.iter = @ + 1]>>
GivesUp(c) == c.method = "doInitialStep" /\ c.iter > MAX_ITER_STEPS
Iterate ==
  /\ Calling("doStep") \/ Calling("doInitialStep")
  /\ ~OnModel
  /\ ~GivesUp(Begins)
  /\ \E yes \in SUBSET Below[Begins.of] :
       /\ satisfied' = (satisfied \ Below[Begins.of]) \cup yes
       /\ \/ /\ Terminates(Begins.of, yes)
             /\ agenda' = Tail(agenda)
             /\ UNCHANGED refusals
          \/ /\ ~Terminates(Begins.of, yes)
             /\ refusals < MaxRefusals
             /\ agenda' = OnceMore(Begins) \o Tail(agenda)
             /\ refusals' = refusals + 1
  /\ UNCHANGED <<phase, clock, dtNew, failures, setUp>>

-----------------------------------------------------------------------------
(* run *)

\* A step of size dt is tried, if it is positive.
Try(dt) ==
  /\ dtNew' = dt
  /\ phase' = IF dt > 0 THEN "step" ELSE "raised"
  /\ agenda' = IF dt > 0 THEN Attempt ELSE <<>>
  /\ refusals' = 0
  /\ satisfied' = {}
  /\ UNCHANGED <<clock, setUp>>

GivenUp ==
  /\ phase' = "raised"
  /\ agenda' = <<>>
  /\ UNCHANGED <<clock, dtNew, refusals, setUp, satisfied>>

Smaller(a, b) == IF a < b THEN a ELSE b
Greater(a, b) == IF a < b THEN b ELSE a

\* The size of the first attempt, when the models find safe a safe size.
Limited(safe) ==
  LET c == clock[Root]
  IN IF c.time_step = 0 THEN safe
     ELSE Smaller(Greater(safe, c.dt \div MAX_CHANGE_OF_DT), c.dt * MAX_CHANGE_OF_DT)

NextStep ==
  /\ phase \in {"initial", "step"} /\ agenda = <<>>
  /\ clock[Root].time_step < MaxSteps
  /\ failures' = [iteration |-> 0, step |-> 0]
  /\ \E safe \in Sizes : Try(Limited(safe))

\* finalize() of some model is true.
Finalize ==
  /\ phase \in {"initial", "step"} /\ agenda = <<>>
  /\ phase' = "ending"
  /\ agenda' = <<Call("doFinalization", Root)>>
  /\ refusals' = 0
  /\ UNCHANGED <<clock, dtNew, failures, setUp, satisfied>>

EndRun ==
  /\ phase = "ending" /\ agenda = <<>>
  /\ phase' = "done"
  /\ UNCHANGED <<agenda, clock, dtNew, failures, refusals, setUp, satisfied>>

\* Where a model may raise: in a method of its own, or when it is asked.
MayRaise ==
  /\ agenda # <<>>
  /\ \/ OnModel /\ (Begins.method # "doStepPostprocessing" \/ PostRaises)
     \/ ~OnModel /\ Begins.method \in {"doStep", "doInitialStep"}

\* IterationDivergenceError
Diverges ==
  /\ phase = "step" /\ MayRaise
  /\ failures' = [failures EXCEPT !.iteration = @ + 1]
  /\ IF failures'.iteration > FAILED_TIME_STEPS_MAX THEN GivenUp ELSE Try(dtNew \div 2)

\* Fault: the counter starts again with every attempt.
FailedOnce == [failures EXCEPT !.step = 1]
\* FailedTimeStepError
Failed == [failures EXCEPT !.step = @ + 1]
Fails ==
  /\ phase = "step" /\ MayRaise
  /\ failures' = Failed
  /\ IF failures'.step > FAILED_TIME_STEPS_MAX THEN GivenUp ELSE \E safe \in Sizes : Try(safe)

\* Before and after the time stepping nobody catches what a model raises, nor
\* the IterationDivergenceError of an initial iteration that takes too long;
\* nor, between two steps, an error of finalize or getSafeTimeStepSize.
Breaks ==
  /\ \/ phase \in {"initial", "ending"} /\ agenda # <<>> /\ (MayRaise \/ GivesUp(Begins))
     \/ phase \in {"initial", "step"} /\ agenda = <<>>
  /\ GivenUp
  /\ UNCHANGED failures

Stopped == phase \in {"done", "raised"}

Next ==
  \/ PassOn \/ Advance \/ Work \/ Iterate
  \/ NextStep \/ Finalize \/ EndRun
  \/ Diverges \/ Fails \/ Breaks
  \/ Stopped /\ UNCHANGED vars

\* One Python program, which goes on until it ends.
Spec == Init /\ [][Next]_vars /\ WF_vars(Next)

-----------------------------------------------------------------------------
(* Properties. *)

\* Between time steps, and when one is tried again, every simulation in the
\* tree has come to the same time by the same steps (modelframe.py:1080-1088).
TimesAgree ==
  phase = "step" /\ (agenda = <<>> \/ agenda = Attempt) =>
    \A s \in Simulations : clock[s] = clock[Root]

\* No model iterates or ends a step that it was not set up for in this very
\* attempt, with this step size: what a failed attempt has left is not used
\* (modelframe.py:1154-1175).
SetUpAnew ==
  phase = "step" /\ agenda # <<>> /\ OnModel
    /\ Begins.method \in {"doStep", "doStepPostprocessing"} =>
      setUp[Begins.of] = Attempted

\* A step, or the initial iteration, ends for a model only when all models of
\* the tree were satisfied with what the last of them computed, however the
\* iterations are nested (modelframe.py:1024-1037, 1066-1101).
AllSatisfied ==
  Calling("doStepPostprocessing") \/ Calling("doInitialPostprocessing") => satisfied = Below[Root]

\* Whatever fails, and in whatever order, a run comes to an end: repetitions
\* are counted (modelframe.py:1126-1127, 1145-1175).
RunEnds == <>Stopped
=============================================================================
