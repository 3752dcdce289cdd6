------------------------ MODULE SimulationInvariant ------------------------
(***************************************************************************)
(* The inductive invariant behind the safety properties of Simulation: the *)
(* agenda goes through a pass that sets up, iterations, and a pass that    *)
(* ends the step, and what is still on it says what has been done.         *)
(***************************************************************************)
EXTENDS Simulation

Phases == {"initial", "step", "ending", "done", "raised"}

\* The three methods of a time step, and of the initialization
Prepare == IF phase = "initial" THEN "doInitialization" ELSE "doStepPreprocessing"
Repeat == IF phase = "initial" THEN "doInitialStep" ELSE "doStep"
Conclude == IF phase = "initial" THEN "doInitialPostprocessing" ELSE "doStepPostprocessing"

CallsOf(methods) == [method : methods, of : Nodes, iter : Nat]

\* The nodes a call is still to be passed on to, and those of a sequence of calls
Reaches(c) == IF c.method = "advance" THEN {c.of} ELSE Inside[c.of]
Awaiting(P) == UNION {Reaches(P[i]) : i \in DOMAIN P}

Prefixes(s) == {SubSeq(s, 1, k) : k \in 0 .. Len(s)}

AllSetUp == phase = "step" => \A m \in Models : setUp[m] = Attempted

ClocksAgree == ~PostRaises => \A s \in Simulations : clock[s] = clock[Root]

\* The calls of P set up, before anything iterates.
SettingUp(P) ==
  /\ P \in Seq(CallsOf({Prepare}))
  /\ agenda = P \o <<Call(Repeat, Root), Call(Conclude, Root)>>
  /\ phase = "step" => \A m \in Models \ Awaiting(P) : setUp[m] = Attempted
  /\ ClocksAgree

\* The calls of P iterate, inside the iteration of the whole tree.
Iterating(P) ==
  /\ P \in Seq(CallsOf({Repeat}))
  /\ \E c \in Range(agenda) \cap CallsOf({Repeat}) :
       c.of = Root /\ agenda = P \o <<c, Call(Conclude, Root)>>
  /\ AllSetUp
  /\ ClocksAgree

\* What a simulation's clock will be after this step
Advanced(c) == [time |-> c.time + dtNew, time_step |-> c.time_step + 1, dt |-> dtNew]

\* The step is ended for one node after the other, Root last; those no call is to reach
\* any more have advanced.
Concluding ==
  /\ agenda \in Seq(CallsOf({Conclude, "advance"}))
  /\ \A i \in DOMAIN agenda : agenda[i].method = "advance" => phase = "step" /\ agenda[i].of \in Simulations
  /\ \A i, j \in DOMAIN agenda : i # j => Reaches(agenda[i]) \cap Reaches(agenda[j]) \cap Simulations = {}
  /\ agenda = <<>> => ClocksAgree
  /\ agenda # <<>> =>
       /\ phase = "step" => Root \in Reaches(agenda[Len(agenda)])
       /\ satisfied = Models
       /\ AllSetUp
       /\ ~PostRaises => \A s \in Simulations :
            clock[s] = IF phase = "initial" \/ s \in Awaiting(agenda)
                       THEN clock[Root] ELSE Advanced(clock[Root])

\* The invariant: it is checked on small instances and proved in SimulationProofs.
IInv ==
  /\ phase \in Phases
  /\ DOMAIN clock = Simulations /\ DOMAIN setUp = Models /\ satisfied \subseteq Models
  /\ phase \in {"initial", "step"} =>
       \/ \E P \in Prefixes(agenda) : SettingUp(P) \/ Iterating(P)
       \/ Concluding
  /\ phase = "ending" => agenda \in Seq(CallsOf({"doFinalization"}))
  /\ phase \in {"done", "raised"} => agenda = <<>>
=============================================================================
