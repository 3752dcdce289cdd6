----------------------------- MODULE SplitWorld -----------------------------
(***************************************************************************)
(* The control side of a SplitWorld: every world executes the same script, *)
(* each at its own pace.  addJob, addJobPerWorld and runJobs are followed  *)
(* through their collective calls and their ways to fail on one world.     *)
(* A collective call (two rounds of checkResult, the exchange of variable  *)
(* states and values, checkRemoteCompatibility, shipString) is a round: a  *)
(* world brings something and leaves when every world has come.  What the  *)
(* worlds do to the variables meanwhile is the subject of SubWorld.        *)
(***************************************************************************)
EXTENDS Distribution, Sequences, FiniteSets, SequencesExt

CONSTANTS
  swcount,     \* number of subworlds
  MixesJobs,   \* TRUE: the script calls addJobPerWorld while jobs of addJob are pending
  MaxOps       \* bound: operations of the script

ASSUME WorldsAssumption == swcount \in Nat \ {0}
ASSUME BoundAssumption == MaxOps \in Nat

Worlds == 0 .. swcount - 1

VARIABLES
  script,      \* the operations of the script, as far as some world has come
  create,      \* create[w]: jobs waiting for runJobs, by their place in the script
  jobcounter,  \* jobcounter[w]: the id for the next job
  jobvec,      \* jobvec[w]: the jobs created on world w
  pc,          \* where world w is in its current operation
  mres,        \* mres[w]: what w knows of the result of runJobs
  brought,     \* brought[w]: the collective calls of w, with what it brought to each
  took,        \* took[w]: how many of them have returned
  outcomes,    \* outcomes[w]: how each operation of the script ended on w
  made,        \* made[w]: every job created on w so far
  ran          \* ran[w]: the ids of the jobs whose work() was called, in order

vars == <<script, create, jobcounter, jobvec, pc, mres, brought, took, outcomes, made, ran>>

\* Fault: ids start at 0.
InitFromZero ==
  /\ script = << >>
  /\ create = [w \in Worlds |-> << >>]
  /\ jobcounter = [w \in Worlds |-> 0]
  /\ jobvec = [w \in Worlds |-> << >>]
  /\ pc = [w \in Worlds |-> "script"]
  /\ mres = [w \in Worlds |-> 0]
  /\ brought = [w \in Worlds |-> << >>]
  /\ took = [w \in Worlds |-> 0]
  /\ outcomes = [w \in Worlds |-> << >>]
  /\ made = [w \in Worlds |-> << >>]
  /\ ran = [w \in Worlds |-> << >>]

Init ==
  /\ script = << >>
  /\ create = [w \in Worlds |-> << >>]
  /\ jobcounter = [w \in Worlds |-> 1]
  /\ jobvec = [w \in Worlds |-> << >>]
  /\ pc = [w \in Worlds |-> "script"]
  /\ mres = [w \in Worlds |-> 0]
  /\ brought = [w \in Worlds |-> << >>]
  /\ took = [w \in Worlds |-> 0]
  /\ outcomes = [w \in Worlds |-> << >>]
  /\ made = [w \in Worlds |-> << >>]
  /\ ran = [w \in Worlds |-> << >>]

-----------------------------------------------------------------------------
(* The script and the collective calls                                     *)

\* The place of w's next (or current) operation in the script
Place(w) == Len(outcomes[w]) + 1

\* World w does op next.  Whoever comes first to a place of the script decides what
\* is there: all worlds execute the same script.
Does(w, op) ==
  /\ pc[w] = "script" /\ Place(w) <= MaxOps
  /\ IF Place(w) > Len(script)
     THEN /\ op = "addJobPerWorld" => MixesJobs \/ create[w] = << >>
          /\ script' = Append(script, op)
     ELSE script[Place(w)] = op /\ UNCHANGED script

Operation(w) == script[Place(w)]

\* The operation ends on w: it returns, or it raises an exception.
Ends(w, how) ==
  /\ pc' = [pc EXCEPT ![w] = "script"]
  /\ outcomes' = [outcomes EXCEPT ![w] = Append(@, how)]

Brings(w, kind, x) ==
  brought' = [brought EXCEPT ![w] = Append(@, [kind |-> kind, value |-> x])]

\* Fault: a world goes by its own result.
TakesOwn(w, m) ==
  /\ \A u \in Worlds : Len(brought[u]) > took[w]
  /\ brought[w][took[w] + 1].value = m
  /\ took' = [took EXCEPT ![w] = @ + 1]

\* The collective call that w is in returns m, the largest value brought to it.
Takes(w, m) ==
  LET k == took[w] + 1
  IN  /\ \A u \in Worlds : Len(brought[u]) >= k /\ brought[u][k].value <= m
      /\ \E u \in Worlds : brought[u][k].value = m
      /\ took' = [took EXCEPT ![w] = k]

ClearJobs(w) == jobvec' = [jobvec EXCEPT ![w] = << >>]
ClearPendingJobs(w) == create' = [create EXCEPT ![w] = << >>]

-----------------------------------------------------------------------------
(* Submitting and creating jobs                                            *)

AddJob(w) ==
  /\ Does(w, "addJob")
  /\ create' = [create EXCEPT ![w] = Append(@, Place(w))]
  /\ UNCHANGED mres /\ Ends(w, "returned")
  /\ UNCHANGED <<jobcounter, jobvec, brought, took, made, ran>>

Create(w, jobs) ==
  /\ jobvec' = [jobvec EXCEPT ![w] = @ \o jobs]
  /\ made' = [made EXCEPT ![w] = @ \o jobs]

\* Fault: the ids of the other worlds' jobs aren't counted.
CountsOneJob(w, error) ==
  /\ Does(w, "addJobPerWorld")
  /\ Create(w, IF error = 1 THEN << >> ELSE <<[job |-> Place(w), id |-> jobcounter[w] + w]>>)
  /\ jobcounter' = [jobcounter EXCEPT ![w] = @ + 1]
  /\ ClearPendingJobs(w)
  /\ Brings(w, "check", error)
  /\ pc' = [pc EXCEPT ![w] = "creating"]
  /\ UNCHANGED <<mres, took, outcomes, ran>>

\* Fault: the jobs already on the world are dropped.
ReplacesJobs(w, error) ==
  /\ Does(w, "addJobPerWorld")
  /\ LET jobs == IF error = 1 THEN << >> ELSE <<[job |-> Place(w), id |-> jobcounter[w] + w]>>
     IN  jobvec' = [jobvec EXCEPT ![w] = jobs] /\ made' = [made EXCEPT ![w] = @ \o jobs]
  /\ jobcounter' = [jobcounter EXCEPT ![w] = @ + swcount]
  /\ ClearPendingJobs(w)
  /\ Brings(w, "check", error)
  /\ pc' = [pc EXCEPT ![w] = "creating"]
  /\ UNCHANGED <<mres, took, outcomes, ran>>

\* addJobPerWorld up to its first checkResult; error: the creator raised.
AddJobPerWorld(w, error) ==
  /\ Does(w, "addJobPerWorld")
  /\ Create(w, IF error = 1 THEN << >> ELSE <<[job |-> Place(w), id |-> jobcounter[w] + w]>>)
  /\ jobcounter' = [jobcounter EXCEPT ![w] = @ + swcount]
  /\ ClearPendingJobs(w)
  /\ Brings(w, "check", error)
  /\ pc' = [pc EXCEPT ![w] = "creating"]
  /\ UNCHANGED <<mres, took, outcomes, ran>>

\* The jobs that distributeJobs creates on w
Share(w) ==
  [i \in 1 .. JobCount(Len(create[w]), swcount, w) |->
     LET n == JobStart(Len(create[w]), swcount, w) + i
     IN  [job |-> create[w][n], id |-> jobcounter[w] + n - 1]]

\* runJobs up to the first checkResult of distributeJobs; n jobs of w's share are
\* created before a creator raises or the share is exhausted.
RunJobs(w, n) ==
  /\ Does(w, "runJobs")
  /\ n \in 0 .. Len(Share(w))
  /\ Create(w, SubSeq(Share(w), 1, n))
  /\ jobcounter' = [jobcounter EXCEPT ![w] = @ + Len(create[w])]
  /\ ClearPendingJobs(w)
  /\ Brings(w, "check", IF n < Len(Share(w)) THEN 1 ELSE 0)
  /\ pc' = [pc EXCEPT ![w] = "creating"]
  /\ mres' = [mres EXCEPT ![w] = 0]
  /\ UNCHANGED <<took, outcomes, ran>>

\* The first checkResult only says that MPI works: errstat goes to a second.
CheckAgain(w) ==
  /\ pc[w] = "creating" /\ \E m \in 0 .. 1 : Takes(w, m)
  /\ Brings(w, "check", Last(brought[w]).value)
  /\ pc' = [pc EXCEPT ![w] = "checking"]
  /\ UNCHANGED <<script, create, jobcounter, jobvec, mres, outcomes, made, ran>>

\* Some creator raised: its message is shipped to every world.
CreationFailed(w) ==
  /\ pc[w] = "checking" /\ Takes(w, 1)
  /\ Brings(w, "ship", 0)
  /\ pc' = [pc EXCEPT ![w] = "shipping"]
  /\ UNCHANGED <<script, create, jobcounter, jobvec, mres, outcomes, made, ran>>

PerWorldAdded(w) ==
  /\ pc[w] = "checking" /\ Operation(w) = "addJobPerWorld" /\ Takes(w, 0)
  /\ UNCHANGED mres /\ Ends(w, "returned")
  /\ UNCHANGED <<script, create, jobcounter, jobvec, brought, made, ran>>

-----------------------------------------------------------------------------
(* Running them                                                            *)

\* synchVariableInfo and synchVariableValues; error: a world found that they cannot
\* end.  Every world has the same information, and so every world finds it.
Synchronise(w, error) ==
  /\ pc[w] = "checking" /\ Operation(w) = "runJobs" /\ Takes(w, 0)
  /\ Brings(w, "synch", error)
  /\ pc' = [pc EXCEPT ![w] = "synchronising"]
  /\ UNCHANGED <<script, create, jobcounter, jobvec, mres, outcomes, made, ran>>

SynchFailed(w) ==
  /\ pc[w] = "synchronising" /\ Takes(w, 1)
  /\ Brings(w, "check", 4)
  /\ pc' = [pc EXCEPT ![w] = "joining"]
  /\ UNCHANGED <<script, create, jobcounter, jobvec, mres, outcomes, made, ran>>

\* What the n jobs called so far may lead to: 0 all returned True, 1 some False,
\* 2 the last one no Boolean, 3 the last one raised, 4 their imports or exports failed.
PossibleResults(w, n) ==
  LET all == n = Len(jobvec[w])
  IN  (IF all THEN {0} ELSE {})
      \cup (IF all /\ n > 0 THEN {1} ELSE {})
      \cup (IF n > 0 THEN {2, 3} ELSE {})
      \cup (IF jobvec[w] # << >> /\ n \in {0, Len(jobvec[w])} THEN {4} ELSE {})

\* Fault: a refused import or export raises at once.
WorkRaises(w, n, r) ==
  /\ pc[w] = "synchronising" /\ Takes(w, 0)
  /\ n \in 0 .. Len(jobvec[w]) /\ r \in PossibleResults(w, n)
  /\ ran' = [ran EXCEPT ![w] = @ \o [i \in 1 .. n |-> jobvec[w][i].id]]
  /\ UNCHANGED mres
  /\ IF r = 4
     THEN Ends(w, "raised") /\ ClearJobs(w) /\ ClearPendingJobs(w) /\ UNCHANGED brought
     ELSE /\ Brings(w, "check", r)
          /\ pc' = [pc EXCEPT ![w] = "joining"]
          /\ UNCHANGED <<create, jobvec, outcomes>>
  /\ UNCHANGED <<script, jobcounter, made>>

\* deliverImports, SubWorld::runJobs and localTransport; then checkResult.
Work(w, n, r) ==
  /\ pc[w] = "synchronising" /\ Takes(w, 0)
  /\ n \in 0 .. Len(jobvec[w]) /\ r \in PossibleResults(w, n)
  /\ ran' = [ran EXCEPT ![w] = @ \o [i \in 1 .. n |-> jobvec[w][i].id]]
  /\ Brings(w, "check", r)
  /\ pc' = [pc EXCEPT ![w] = "joining"]
  /\ UNCHANGED <<script, create, jobcounter, jobvec, mres, outcomes, made>>

\* Fault: a world keeps its own result.
CompareOwn(w, error) ==
  /\ pc[w] = "joining" /\ \E m \in 0 .. 4 : Takes(w, m)
  /\ mres' = [mres EXCEPT ![w] = Last(brought[w]).value]
  /\ ClearJobs(w)
  /\ Brings(w, "compare", error)
  /\ pc' = [pc EXCEPT ![w] = "comparing"]
  /\ UNCHANGED <<script, create, jobcounter, outcomes, made, ran>>

\* The worst result is known everywhere; checkRemoteCompatibility compares what the
\* worlds exported, with the same outcome everywhere.
Compare(w, error) ==
  /\ pc[w] = "joining" /\ \E m \in 0 .. 4 : Takes(w, m) /\ mres' = [mres EXCEPT ![w] = m]
  /\ ClearJobs(w)
  /\ Brings(w, "compare", error)
  /\ pc' = [pc EXCEPT ![w] = "comparing"]
  /\ UNCHANGED <<script, create, jobcounter, outcomes, made, ran>>

\* runJobs returns if every job returned True; a result without a message raises at
\* once, and the handler drops all jobs.
EndRunJobs(w) ==
  /\ pc[w] = "comparing"
  /\ \E m \in 0 .. 1 :
       /\ Takes(w, m)
       /\ m = 1 \/ mres[w] # 3
       /\ mres' = IF m = 1 THEN [mres EXCEPT ![w] = 4] ELSE mres
       /\ IF mres'[w] = 0
          THEN Ends(w, "returned") /\ UNCHANGED <<create, jobvec>>
          ELSE Ends(w, "raised") /\ ClearJobs(w) /\ ClearPendingJobs(w)
  /\ UNCHANGED <<script, jobcounter, brought, made, ran>>

JobRaised(w) ==
  /\ pc[w] = "comparing" /\ mres[w] = 3 /\ Takes(w, 0)
  /\ Brings(w, "ship", 0)
  /\ pc' = [pc EXCEPT ![w] = "shipping"]
  /\ UNCHANGED <<script, create, jobcounter, jobvec, mres, outcomes, made, ran>>

\* Fault: no handler drops the jobs.
ShippedKeepingJobs(w) ==
  /\ pc[w] = "shipping" /\ Takes(w, 0)
  /\ UNCHANGED mres /\ Ends(w, "raised")
  /\ UNCHANGED <<script, create, jobcounter, jobvec, brought, made, ran>>

\* shipString returns and the exception is raised; only runJobs has a handler that
\* drops all jobs.
Shipped(w) ==
  /\ pc[w] = "shipping" /\ Takes(w, 0)
  /\ UNCHANGED mres /\ Ends(w, "raised")
  /\ IF Operation(w) = "runJobs"
     THEN ClearJobs(w) /\ ClearPendingJobs(w)
     ELSE UNCHANGED <<create, jobvec>>
  /\ UNCHANGED <<script, jobcounter, brought, made, ran>>

World(w) ==
  \/ AddJob(w)
  \/ \E e \in 0 .. 1 : AddJobPerWorld(w, e) \/ Synchronise(w, e) \/ Compare(w, e)
  \/ \E n \in 0 .. Len(script) : RunJobs(w, n)
  \/ CheckAgain(w)
  \/ CreationFailed(w)
  \/ PerWorldAdded(w)
  \/ SynchFailed(w)
  \/ \E n \in 0 .. Len(script), r \in 0 .. 4 : Work(w, n, r)
  \/ EndRunJobs(w)
  \/ JobRaised(w)
  \/ Shipped(w)

Finished == (\A w \in Worlds : Len(outcomes[w]) = MaxOps) /\ UNCHANGED vars

Next == (\E w \in Worlds : World(w)) \/ Finished

Spec == Init /\ [][Next]_vars

\* No process stops, and every work() returns.
FairSpec == Spec /\ \A w \in Worlds : WF_vars(World(w))

-----------------------------------------------------------------------------
(* Properties                                                              *)

TypeOK ==
  /\ script \in Seq({"addJob", "addJobPerWorld", "runJobs"}) /\ Len(script) <= MaxOps
  /\ \A w \in Worlds :
       /\ Len(outcomes[w]) <= Len(script)
       /\ ToSet(create[w]) \subseteq 1 .. Len(script)
       /\ jobcounter[w] \in Nat \ {0}
       /\ ToSet(jobvec[w]) \subseteq ToSet(made[w])
       /\ took[w] \in 0 .. Len(brought[w])
       /\ mres[w] \in 0 .. 4

\* The worlds never meet in different collective calls: whatever fails on one world,
\* all of them make the same calls in the same order.
CallsMatch ==
  \A a, b \in Worlds : \A k \in 1 .. Len(brought[a]) :
    k <= Len(brought[b]) => brought[a][k].kind = brought[b][k].kind

\* Every operation ends in the same way on every world, so that a script that
\* catches exceptions takes the same path everywhere.
SameOutcome ==
  \A a, b \in Worlds : \A k \in 1 .. Len(outcomes[a]) :
    k <= Len(outcomes[b]) => outcomes[a][k] = outcomes[b][k]

\* The jobs that world u made for the operation at place q of the script
MadeFor(q, u) == {i \in 1 .. Len(made[u]) : made[u][i].job = q}

\* p is the place of the runJobs that the job submitted at place q waits for.
RunBy(q, p) == q < p /\ script[p] = "runJobs" /\ \A o \in q + 1 .. p - 1 : script[o] # "runJobs"

Succeeded(p) == \E w \in Worlds : p <= Len(outcomes[w]) /\ outcomes[w][p] = "returned"

HasRun(u, i) == made[u][i].id \in ToSet(ran[u])

\* splitworld.py, addJob: a job submitted is run later on an available subworld,
\* on exactly one of them, by the next runJobs (if that doesn't raise).
JobsRunOnce ==
  \A q, p \in 1 .. Len(script) :
    script[q] = "addJob" /\ RunBy(q, p) /\ Succeeded(p) =>
      \E u \in Worlds, i \in 1 .. Len(script) :
        /\ MadeFor(q, u) = {i} /\ HasRun(u, i)
        /\ \A v \in Worlds \ {u} : MadeFor(q, v) = {}

\* splitworld.py, addJobPerWorld: one job per subworld is run later.
PerWorldJobsRun ==
  \A q, p \in 1 .. Len(script) :
    script[q] = "addJobPerWorld" /\ RunBy(q, p) /\ Succeeded(q) /\ Succeeded(p) =>
      \A u \in Worlds : \E i \in MadeFor(q, u) : MadeFor(q, u) = {i} /\ HasRun(u, i)

\* Two jobs never have the same id, on whatever worlds they are.
IdsUnique ==
  \A a, b \in Worlds : \A i \in 1 .. Len(made[a]), j \in 1 .. Len(made[b]) :
    made[a][i].id = made[b][j].id => a = b /\ i = j

\* No job is run a second time, and runJobs leaves none behind, whether it raises or not.
NothingLeft ==
  \A w \in Worlds :
    /\ IsInjective(ran[w])
    /\ pc[w] = "script" /\ Place(w) > 1 /\ script[Place(w) - 1] = "runJobs"
         => create[w] = << >> /\ jobvec[w] = << >>

\* No world waits forever for another, whatever fails: the script comes to its end.
ScriptEnds == <>(\A w \in Worlds : Len(outcomes[w]) = MaxOps)
=============================================================================
