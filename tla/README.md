# A TLA+ model of escript's control

escript is a Python/C++ environment for partial differential equations. Nearly
all of its code is numerical; what makes it hard to get right as a *system* is
the code that lets many MPI processes behave as one program, and the code that
puts work off, shares it or remembers it. This directory models that code: the
`SplitWorld` machinery that runs jobs on groups of processes and shares
variables between them, the small MPI protocols below it, the
checkpoint/restart manager, the caching of matrices and solutions in
`linearPDEs`, copy on write and lazy evaluation in `Data`, the labelling, distribution and
exchange of degrees of freedom in `finley` and `paso`, and the time stepping of
`modelframe`. Source paths below are relative to the repository's root (the
manifest `PROJECT.json` prefixes them with `src/`).

## 1. Inventory

### Parts that are modelled

| part | files | state | operations |
|---|---|---|---|
| SplitWorld | `escriptcore/src/SplitWorld.cpp` | pending jobs `create`, `jobcounter`, the local `SubWorld`, communicators | `addJob`, `addJobPerWorld`, `runJobs` (`distributeJobs`, synchronise, deliver, run, transport, join), `addVariable`, `removeVariable`, `clearVariable`, `copyVariable`, `getFloatVariable`, `getLocalObjectVariable` |
| SubWorld | `escriptcore/src/SubWorld.cpp` | `reducemap` (one reducer per variable), `varstate` (own state per variable), `globalvarcounts` (what all worlds said last), `jobvec` | `synchVariableInfo`, `synchVariableValues`, `localTransport`, `deliverImports`, `runJobs`, `resetInterest`, `newRunJobs`, ... |
| Reducers | `MPIScalarReducer.cpp`, `NonReducedVariable.cpp`, `AbstractReducer.*`, `MPIDataReducer.cpp` | `value`, `valueadded`, `had_an_export_this_round` | `reduceLocalValue`, `reduceRemoteValues`, `groupSend`, `copyValueFrom`, `reset`, `clear`, `newRunJobs` |
| EsysMPI | `EsysMPI.cpp` | none between calls; messages on the way | `checkResult`, `shipString`, `setDistribution`, `split` |
| Python jobs | `escriptcore/py_src/splitworld.py` | `wantedvalues`, `importedvalues`, `exportedvalues` of a job | `work`, `exportValue`, `importValue`; a script drives all of it |
| DataManager | `escriptcore/py_src/datamanager.py`, `util.mkDir` | cycle `_N`, `_restartdir`, stamp, restart directories on disk | constructor (list, remove, load), `getValue`, `setCheckpointFrequency`, `addData`, `export`, `__saveState`, `__removeDirectory` |
| linearPDEs | `escriptcore/py_src/linearPDEs.py` | coefficients, operator, right hand side and solution, each with a validity flag, the statuses and options they were computed under | `setValue`, `getSystem`, `getSolution`, `resetRightHandSideCoefficients`, the setters of options, order, tolerance, the domain's status |
| Data | `escriptcore/src/Data.*`, `DataLazy.cpp` | a reference-counted node per object (constant, tagged, expanded or lazy), protection | copies, `delay`, sums and updates, `setToZero`, `setTaggedValue`, `setValueOfDataPoint`, `setItem`, `copyWithMask`, `expand`, `tag`, `resolve`, `requireWrite`, `resolveGroup` |
| modelframe | `escriptcore/py_src/modelframe.py` | the tree of models, `time`, `time_step` and `dt` of every simulation in it, failure counters | `run`: `doInitialization`, `doInitialStep`, `doStepPreprocessing`, `doStep`, `doStepPostprocessing`, `finalize`, `doFinalization`, `getSafeTimeStepSize`, repetition of failed steps |
| finley's mesh | `finley/src/FinleyDomain.cpp`, `NodeFile.cpp`, `ElementFile.cpp`, `NodeMapping.h`, `Mesh_optimizeDOFDistribution.cpp` | nodes with four labels per rank, elements with owners, distributions, mappings and connectors | `prepare`: dense labelling of degrees of freedom, optimisation of their distribution, `distributeByRankOfDOF`, reduced labellings, node labelling, `createNodeMappings` |
| paso's Coupler | `paso/src/Coupler.cpp`, `SharedComponents.h` | send and receive buffers, `in_use`, the communicator's tag counter, messages on the way | `startCollect`, `finishCollect` |

How they interact. Every process executes the *same* script. A `SplitWorld`
divides the processes into subworlds; each has a `SubWorld` object. `runJobs`
is collective: the worlds create their jobs (`distributeJobs`, then
`checkResult`), tell each other the state of every variable
(`synchVariableInfo`), ship and reduce values (`synchVariableValues`), and then
part: each delivers imports to its jobs, runs them, and merges their exports
into its own reducers (`localTransport`), at its own pace, until `checkResult`
brings all of them together. All errors a world meets on the way travel as a
number through `checkResult`, so that every world throws or none does.
`DataManager` is independent of `SplitWorld`: all ranks of one program write
one checkpoint directory together and only rank 0 makes or removes directories.
A `modelframe.Simulation` calls the methods of its models, which may be
simulations themselves, in a fixed order; a model that cannot go on raises, and
`run` repeats the time step. A script's `LinearPDE` holds `Data` as coefficients and asks the domain
(finley) for a matrix (paso), which talks to the other ranks through the
connectors the domain built when it was labelled.

What is hard here:

* worlds that merge exports while others still read the values of the batch;
* the five variable states (NONE, INTERESTED, OLD, OLDINTERESTED, NEW), which
  age in a loop that may stop in the middle, on every world in the same place;
* a failure on one world only (creator, job, import, export), after which all
  worlds still have to make the same collective calls;
* `checkResult`, which is called back to back with one tag by ranks of
  different speed, with sends that may or may not be buffered;
* a program killed at any moment, with its directories left on disk;
* blocks with a remainder;
* four validity flags that are set and cleared in a dozen places, and a
  right hand side that depends on the matrix through the constraint;
* nodes written in place although other objects, or lazy expressions, may
  still refer to them; lazy nodes that change into identities under their owners;
* a time step broken off in the middle of a tree of models and begun again;
* labels that travel round the ranks in blocks, and two vectors exchanged at once.

What makes each part correct: there is one value per shared variable however
many worlds there are (SubWorld, Reducers); jobs of one batch see one value;
every job submitted runs once; operations end alike on all worlds and no world
waits for ever (SplitWorld); every rank takes the maximum of its own call
(EsysMPI); a restart continues from the newest finished checkpoint and from one
simulation (DataManager); a system or a solution in use belongs to the
coefficients of the moment (linearPDEs); a time step ends only when all models
are satisfied, and for all of them (modelframe); every `Data` object is a variable of
its own (Data); ranks agree on the labels, and every rank computes with the
values the owners sent (finley, paso).

### Parts that are not modelled

`Taipan` (array pool) has control worth modelling and is in the plan below. `dudley` labels as finley does.
`dudley`, `ripley`,
`speckley`, `paso`'s solvers and matrices, `trilinoswrap`, `modellib`,
`downunder` are numerical: of 210 000 lines nearly all are kernels, assemblers
and formats without state over time, and no model here covers them; `weipa`, `pycad`, `FileWriter`, `pythonMPI`, `overlord` are input,
output and process launching; `cusplibrary` is third-party code.

## 2. Modules

```
Reducers <- SubWorld <- SubWorldRefinement (implements SharedVariables)
                     <- SubWorldInvariant
                     <- VariableGroups
                        MCSubWorld extends them all but the proofs
SubWorldRefinement, SubWorldInvariant, VariableGroups <- SubWorldProofs
Distribution <- SplitWorld <- MCSplitWorld
SplitWorld <- SplitWorldInvariant <- SplitWorldProofs
CheckResult (implements Agreement) <- MCCheckResult, CheckResultProofs
DataManager <- DataManagerInvariant <- MCDataManager
DataManagerInvariant <- DataManagerProofs
LinearPDE <- MCLinearPDE, LinearPDEProofs
Distribution <- FinleyMesh <- Coupler <- MCCoupler
FinleyMesh <- MeshInvariant <- FinleyMeshProofs
Coupler, with MeshInvariant <- CouplerInvariant, with FinleyMeshProofs <- CouplerProofs
DataLazy (implements DataValues) <- MCDataLazy
Simulation <- SimulationInvariant <- MCSimulation, SimulationProofs
```

Definitions that start with the comment `Fault:` are mutated forms of the
definition that follows them. No module uses them; `PROJECT.json` names for each
property a fault that TLC must find with it.

**Reducers.** One reducer as a record; each method is an operator on it. Values
are small integers. `Combine` is `combineDouble`; `Allreduce` folds it over the
members of a communicator. `LOCAL` stands for `NonReducedVariable`.

**SubWorld.** `varstate[w][v]` and `reducemap[w][v]` are the tables of world
`w`. A world is one process: inside a world the code only broadcasts what the
leader got. A collective operation is one joint step. That is sound because no
world changes its tables between `synchVariableInfo` and the end of
`synchVariableValues`: every world decides from the same exchanged counts. The loop over
variables is described by the variable it stops at (`Failing`, `StopsAt`), the
variables it has dealt with (`Passed`), what each of them ships (`Ships`,
`Merged`, `ShipsOld`) and how the copies age (`Ages`, `SynchedState`). What a
world does alone, `RunJobs`, `Transport`, `RefuseExport`, `EndTransport`,
interleaves with the other worlds. Jobs, `work()` and its result are
nondeterministic: any exports in any order, any result 0..3.

**VariableGroups** takes the joint step apart. In the loop of
`synchVariableValues` one process of every world sits in `corrmpi`; each decides
alone which groups to name in `MPI_Comm_create` (`Created`, with
`makeGroupComm1`, `makeGroupReduceGroups`, `makeGroupComm2`) and what to call on
the communicators it gets (`Called`). A group is its members and its process 0.
`GroupsMatch` says that these calls meet, `JointStep` that they leave what
`SharedReducer` says. `makeGroupReduceGroups` puts every world with an update
into the second group, since `havesrc` is declared inside the loop (462), where
its comment (447-449) has a single one; that is harmless, as they all have the
reduced value by then. Both are stated for the moments when a synchronisation
may begin, and `GroupsMatch` for either kind of reduction.

**SharedVariables** is the promise: one value per variable; an export joins the
round or begins it, two SET exports conflict, and only reporting a conflict
loses a value. **SubWorldRefinement** maps the worlds' tables to it: the value
of a variable is the reduction of what is NEW somewhere, else the copy that any
world holds.

**Agreement** is the promise of `checkResult`; **CheckResult** follows it
message by message: `Call` is `MPI_Send`, `Gather` a message meeting the
leader's `MPI_Irecv`, `Answer` the maximum and the `MPI_Isend`s, `Return` the
`MPI_Recv`. A send may return at once (buffered) or late: `SendEnds` is enabled
either way, but fairness counts on it only when the message has been received.

**Distribution** holds the block formulas of `distributeJobs`, `setDistribution`
and `split`.

**SplitWorld** is the control flow of `addJob`, `addJobPerWorld` and `runJobs`,
each world with its own program counter. A collective call is a round: a world
appends what it brings to `brought[w]` and leaves (`Takes`) when every world has
brought something to the same round, with the maximum. The kinds of calls are
recorded, so that a mismatch shows. The script is nondeterministic; the first
world to come to a place decides which operation stands there.

**DataManager** has one program counter per rank, the directories and files on
disk, and `Stop`, which ends or kills the program in any state. Every file
carries the start of the program whose simulation wrote it. A collective call
returns on a rank when all ranks have come to the same call.

* *Removal.* `shutil.rmtree` removes file by file, in any order
  (`RemovingUnneeded`, `RemovingOld`), and at the end the directory with what is
  left in it (`RemoveUnneeded`, `RemoveOld`). The program may be killed in between.
* *Saving and loading.* A rank writes its stamp (`WriteStamp`), its part of the domain
  (`DumpDomain`, in rank order as in `FinleyDomain::dump`) and its part of the data
  (`DumpData`). `__loadState` asks for the first two only (`LoadState`); the
  script then reads its variables, and misses what was not dumped (`GetValue`).
  The variables of one rank are complete or not, whichever of them is missing.
* *Frequency.* `setCheckpointFrequency` may be called between any two exports.
  A script makes the same calls on every rank, so `Start` chooses a schedule, the
  frequency in force at the export of each cycle (`freq`); the name of the
  directory to remove is computed from the present one, as in the code. Frequency 0,
  which raises on every rank, is not among them.
* *What `torn` counts.* How often the program was killed at a point where the newest
  directory may be left incomplete: inside a save (`Saving`), or while rank 0 of a
  start with `do_restart=False` removes the last directory there is (`Discarding`).

`addData` and the `export` after it are one action (`Export` or the steps from
`SaveState`); the collective calls in `LoadMesh`, the making of a domain and the
solver are one collective call (`Compute`), which is why no rank exports before all
have left the constructor.

**LinearPDE.** `sys` is the system a `LinearPDE` holds: what the matrix and the
right hand side were built from, and the flags; `sol` is what the solution was
computed from. A matrix is the record of the coefficients, the status of the
domain, the order and (lumped) the method it was assembled under; a right hand
side also says which terms of the constraint were lifted into it, and how
often. `getSystem` is one action, whose pieces `BuildLumped`, `BuildMatrix` and
`InsertConstraint` follow the code's order, with what it leaves behind when it
raises. `isOperatorValid` and its kin change the flags when they find the domain
changed, so asking is an action (`Query`). A `use` says which coefficients,
methods and values a program uses; see below which uses are sound.

**DataValues** is the promise of `Data`: every object is a variable.
**DataLazy** has the heap of nodes and what each object points to, with
reference counts as the number of references (`Holders`) and the deletion of
what nobody refers to. Operators return the new heap, so that a method is
written in the order of the code's calls (`Exclusive`, then `Matched`, then
`Written`). The refinement maps an object to the value of its node.

**Simulation** is `run` of a tree of models. `agenda` is the program's control
stack: the calls still to be made, in order. A call on a simulation makes way
for calls on its members (`PassOn`), `doStep` also for itself once more
(`Iterate`) until all models below are satisfied, which is asked as one step;
`doStepPostprocessing` advances the clock after the last member (`Advance`).
What a model computes is left out: it returns, wants another iteration, or
raises either error. A model that is not satisfied `MaxRefusals` times raises,
as those of `modellib` do (`flow.py:124`, `mechanics.py:160`). A run of the
simulation from an XML file (`time_step` not 0 at the start) skips the initial
phase and is left out. Step sizes are integers, halved as such. `TreeAssumption`
says that the nested simulations are a tree (one that is in two places would be
advanced twice in a step, and one inside itself would never return); a model may be a member of
several, as `getAllModels` allows.

**FinleyMesh** is `FinleyDomain::prepare` from what a reader leaves to the
connectors, over all ranks. `program` is the list of steps left. A labelling
sends a buffer round the ring twice (fill, number, collect); a turn of the ring
is one joint step. That is sound because the ranks do nothing but
`MPI_Sendrecv_replace` with their neighbours between turns, so the outcome does
not depend on their speed. What ParMETIS and `reduceBandwidth` compute is left open:
`Parts` and `Orders` are the partitions and relabellings they may return, of which a
step takes one that fits the degrees of freedom at hand and, for `Orders`, permutes every
rank's block. `reduceBandwidth` labels every vertex of a symmetric pattern once, or keeps
all labels (`Pattern_reduceBandwidth.cpp:144-247`). **Coupler** continues with
two couplers per rank over these connectors; here every rank has its own
program counter and MPI delivers in any order that matching by source and tag
allows. `MeshAssumption` says what a reader leaves: finitely many nodes with numbers as Ids
and labels, elements that their rank owns, whose ends are among their nodes and whose
nodes are nodes of some rank, and at least one of them. `TagLimitAssumption` says that the counter of a communicator
does not wrap within one collect; the code's limit is 1010201 (`EsysMPI.h:139`).

## 3. Runs

Bounds are counters in the guards, named `Max...` in the modules.

| run | what it shows |
|---|---|
| `SubWorldSum` | 3 worlds, one SUM variable, 3 batches, 2 other operations, 2 exports per world and batch. Three worlds are the least for an update on several worlds but not on all (`makeGroupReduceGroups`), three batches for a copy to become old and be replaced. `OneValue` (refinement), `ImportsAgree`, `CopiesEverywhere`, `OldCopiesAgree`, `NewHasValue`, `NoneMeansNoValue`, the inductive invariant `RInv` (which has `IInv` in it), and `GroupsMatch` and `JointStep` of the single processes. |
| `SubWorldKinds` | 2 worlds, a SET, a MAX and a LOCAL variable and a copy from the first to the second. `OneValue` with clashes, `LocalStaysLocal`. |
| `CheckResult` | 3 ranks, 2 calls each, 3 results. `AgreesOnMaximum` (refinement), `OneInFlight`, `Inv`, and `CallsReturn` (liveness). Two calls in a row are enough for one call's messages to meet the next one's. |
| `SplitWorld` | 2 worlds, every script of 3 operations, every failure. `CallsMatch`, `SameOutcome`, `JobsRunOnce`, `PerWorldJobsRun`, `IdsUnique`, `NothingLeft`, `ScriptEnds`. Three operations are two submissions and a `runJobs`, or a failing `runJobs` between two others. |
| `DataManager` | 2 ranks, work directory `.`, cycles 0..4, 3 starts with either value of `do_restart`, two schedules: every second cycle is saved (`Always(2)`), and frequencies 1 and 2 in turns (`Turns`), by which every cycle is saved and a checkpoint stays behind at every other one. `RestartsFromNewest`, `RestartsOneSimulation`, `LoadsAfterCleanStop`, `FewDirectories`. Three starts are enough to be killed in a removal, to start from what that has left, and to be killed in the first save of that start; five cycles are enough for two saves after a restart and three changes of the frequency. |
| `LinearPDE` | 2 degrees of freedom, 2 values, 2 masks, the domain changed at most once, at most 2 coefficients per call, and five ways of using a PDE: one matrix type with inhomogeneous constraints; two types with homogeneous ones and calls that raise; reduced orders; lumping alone; lumping after or before a matrix. `SystemCurrent`, `SolutionCurrent`. One change of the domain and two values are enough to make anything kept stale, and to bring it back to a value it had. |
| `Coupler` | 3 ranks; lines of 3 linear or 2 quadratic elements, or a single one, and a line with a point element, as boundary elements and contact points are; labels far apart and out of order, or periodic (two nodes with one degree of freedom); nodes and elements all on the last rank or spread so that elements lie on ranks without their nodes; with and without optimisation, by a partition that deals the degrees of freedom out, that turns the blocks round, that leaves a rank none, or that puts all on rank 0 where a block is empty, and by every permutation of every block; 2 rounds of two couplers each, the tag counter wrapping at 7. `LabelsAgree`, `MappingsAccepted`, `SeesOwnersValue`. Three ranks are the least for a neighbour's block to pass through a rank that is neither its owner nor its reader. |
| `DataLazy` | 3 objects, constant, tagged and expanded, 2 samples, every sequence of 3 calls, trees of height at most 1, AUTOLAZY on and off. `ImplementsValues` (refinement), `HeightBounded`. Three calls are enough to share a node, put a sum of it off, and write one of the two. |
| `Simulation` | A simulation of a model, a simulation of two models, and a model after it; 2 time steps, at most 2 repetitions for either error, 2 refused iterations in an attempt, safe step sizes 0 (rejected), 256 and 768, so that the limits on the change of the step size bind in both directions. `TimesAgree`, `SetUpAnew`, `AllSatisfied`, `RunEnds` (liveness). A member on either side of the nested simulation, and two in it, are the least for a failure before, inside and after it; two steps for the clocks to come apart. |

In the meshes of `Coupler` the node with the smallest Id is an end of an
element (see `MidNodeFirst`).

Three runs end in a violation; each is a disagreement between the code and its
documents or comments, recorded under "findings" in `PROJECT.json`:

| run | what it shows |
|---|---|
| `QueryDoubles` | A failed `getFloatVariable` leaves a SUM variable reduced but not aged; the next `runJobs` adds it up again. |
| `TornSave` | After a crash inside a save the constructor picks the partial directory and fails, having removed the others. |
| `MidNodeFirst` | A second-order element whose mid node has the smallest Id on its rank makes that rank refuse its own mapping (`getFlaggedMinMaxInt` starts from a value it should ignore), alone. |

**Fairness.** `CheckResult` assumes weak fairness of `Synchronous` only: a rank
inside `checkResult` keeps running, MPI delivers, and a send is *not* assumed to
end before its message is received. `SplitWorld` assumes weak fairness of each
world: no process stops and every `work()` returns. Nothing makes a rank call
`checkResult`; `CallsReturn` speaks of calls that every rank makes. `Simulation`
assumes weak fairness of `Next`: one Python program that keeps running, while
which call fails is never assumed. That steps are bounded (`MaxSteps`) stands for
`finalize` being true in the end; what `RunEnds` shows is that no repetition goes on for ever. `SubWorld`,
`DataManager`, `LinearPDE`, `DataLazy` and `Coupler` are checked for safety only;
in `Coupler` TLC's deadlock check shows that no exchange waits for ever: the
only states without a successor but stuttering (`Stopped`) are those in which all rounds are over.

**What the passing runs exclude, and what happens then.** These are inputs a
script can give, left out of the passing runs because the properties fail with
them:

* `QueryDoubles`: `SubWorldSum` queries its only variable and `SubWorldKinds`
  its first one, so no variable stands before the one whose query fails.
* `SetTwice = TRUE` (a world's jobs export a SET variable twice in a batch):
  the second export resets the reducer while the state stays NEW, and the next
  `runJobs` ships a value nobody exported; `OneValue` is violated.
* `CopyShared = FALSE` (`copyVariable` of a variable whose updates are not merged
  yet): each world copies its own part, and `ImportsAgree` is violated.
* `MixesJobs = TRUE` (`addJob`, then `addJobPerWorld`): the pending jobs are
  dropped (`SplitWorld.cpp:254`) and `JobsRunOnce` is violated, although
  `splitworld.py:66` says "Submit a job to be run later on an available
  subworld."
* `copyVariable` gives the destination a value and leaves it in state NONE
  (`SubWorld.cpp:1100`): with a copied variable `NoneMeansNoValue` is violated
  (`AbstractReducer.h:31`: "I have no value for this var"). Jobs import it, while
  `getFloatVariable` refuses it.
* `DataManager`: each rank lists the directories for itself. A rank that lists
  after rank 0 has removed one makes one barrier call less, and rank 0 waits;
  ranks that meet in different calls wait in the model until the program is
  killed. `escript.tex:1508-1509` promises a restart.
* `LoadsAfterCleanStop` speaks of programs with `torn = 0`. A kill inside a save is
  the run `TornSave`. A start with `do_restart=False` that is killed while
  `shutil.rmtree` removes the last directory (`datamanager.py:116-117`) leaves a
  partial one, and the next restart picks it and fails; the program had asked for
  that checkpoint to be removed, so this is not listed as a finding.
* `setCheckpointFrequency` between exports: after cycles 0 and 1 at frequency 1 and
  cycle 2 at frequency 2, `__saveState` removes cycle 0 once more, and 1 stays with 2,
  although `datamanager.py:334` says "keep only one restart directory". The run
  `DataManager` includes such schedules; `FewDirectories` bounds what stays behind.
* `InPlace = FALSE` (a work directory of its own): names are removed relative
  to the current directory (`datamanager.py:117`), so a start with
  `do_restart=False` deletes nothing, although `escript.tex:1510` says it does,
  and an older simulation may come back in a later restart.
* `LinearPDE`, uses that leave a system of mixed ages. Each violates
  `SystemCurrent` or `SolutionCurrent` when a `use` allows it: switching between
  two matrix types with an inhomogeneous constraint; changing `q` or `r` under
  lumping; solving after `setValue` raised, with `r` set (the flag
  `__altered_coefficients` stays as it was); `resetRightHandSideCoefficients`
  with no `setValue` after it; switching between `rowsum` and `hrz`, which have
  one operator type, so that the old lumped matrix is kept; lumping after
  another method with an inhomogeneous constraint, whose right hand side is kept.
* Switching from a matrix to lumping calls `setToZero` on an operator
  (`linearPDEs.py:1325`), which has no such method; the model takes the
  exception as the end of that call.
* `PostRaises = TRUE` (a model raises in `doStepPostprocessing`): `run` repeats
  the step (`modelframe.py:1161-1175`, and 1119-1124 promises it), but a nested
  simulation before that model has already advanced its clock, and counts the
  step twice; `TimesAgree` is violated. No model of `modellib` raises there.
* A mid node with the smallest Id is the run `MidNodeFirst`.
* A job that returns `False` makes `runJobs` throw "Unexpected return value from
  runJobs." (`SplitWorld.cpp:209`), although `splitworld.py:282` describes it as
  work still to be done. The model throws too.

## 4. Proofs

Checked by TLAPS for every value of the constants; assumptions are the named
`ASSUME`s of the modules (at least one world or rank, variables numbered by
naturals, and so on), which TLC evaluates on every run.

**SubWorldProofs.** `Spec => []IInv`, and from it `CopiesEverywhere`,
`OldCopiesAgree`, `NewHasValue`, `NoneMeansNoValue`, `ImportsAgree` and
`LocalStaysLocal` (an action property), for any number of worlds and any set of variables of any kinds, under `PlainScript`:
the script never calls `copyVariable` and no world exports a SET variable twice
in a batch (both are refuted otherwise, see above). None of the five is
inductive alone: `OldCopiesAgree` survives a synchronisation only because
`CopiesEverywhere` says that whoever wants a value either gets it or had it,
and `NewHasValue` that what is shipped is a value; `ImportsAgree` needs that worlds which
have not delivered yet *would* deliver what the others have been given, which
is `BatchInv`. The proof reduces each collective step to one variable
(`VarInv` of the synchronised tables) and then splits by what is shipped. Values stay
untyped here: what a fold computes isn't needed.

For the single processes of `VariableGroups`: `Spec => []GroupsMatch` and `Spec => []JointStep` under
`PlainScript`, from `IInv`: after `synchVariableInfo` no world may ask for an old
copy, so the groups are those with updates, and a world names a group exactly if
the others name it as a member. What process 0 of a group has is then the
reduced value, or the value of the only world with one, which is what the joint
step gives everybody. That a nonempty set of worlds has a first and a last
member comes from the library's theorem on well-founded orders.

The second half of SubWorldProofs is the refinement: `Spec => OneValue`, under `PlainScript` and
`SumsLast` (no variable after a SUM variable is a SET variable or read by the
script), for any number of worlds, variables of all kinds and integer values.

* *What a reduction computes.* `Allreduce` is a fold over a set, in an order
  that `CHOOSE` picks. The lemmas up to `AllreduceOnly` show that every order
  gives the same: `Combine` is associative and commutative for SUM, MAX and
  MIN, so a world can be put in last (`AllreduceJoins`), an update of one
  world's value is an update of the result (`AllreduceGrows`), and MAX and MIN of
  equal values are that value (`AllreduceOfEquals`). Induction over subsets is
  replaced by a smallest counterexample, with the library's theorem on finite
  sets.
* *Types.* `Spec => []TypeOK`, for every script, if the exported values are
  integers (`ValuesAssumption`) and the bounds numbers (`BoundsAssumption`): what
  is reduced and shipped are integers too.
* *The invariant.* `RInv` adds three facts to `IInv`. `BlankInv`: a variable that isn't
  declared is NONE and not exported anywhere, so that declaring it changes nothing but the
  set of declared variables. `Sourced`: a variable is wanted where nobody has
  it only if the script reads it; with `SumsLast`, a synchronisation therefore never
  stops after a SUM variable. `RoundInv`: while a batch is under way, the updates
  are exactly the exports of this round, so that the first export replaces
  the value and the next ones join it.
* *Why `SumsLast`.* A loop that stops leaves the variables before it NEW on
  every world, all with the reduced value. Reduced again, a MAX, MIN or SET
  variable keeps its value, since its updates are equal; a sum grows by the
  number of worlds, as `QueryDoubles` shows. The theorem thus says that this
  is the only way in which the worlds lose the one value.
* *The steps.* `addVariable`, `removeVariable`, `clearVariable` map to the actions
  of the same kind, `getFloatVariable` to `Read`, the start of `runJobs` to `StartRound`,
  `Transport` to `Export`; all others, and everything a LOCAL variable does, to
  stuttering. What is ever lost is a clash of SET updates, on all worlds.

**SplitWorldProofs.** `Spec => []IInv` (`SplitWorldInvariant`), for any number of
worlds and operations, and from it `TypeOK`, `CallsMatch`, `SameOutcome`,
`IdsUnique`, `NothingLeft`, `PerWorldJobsRun`, and `JobsRunOnce` for scripts that
don't mix the two kinds of submission (`MixesJobs = FALSE`; refuted otherwise,
see above). The invariant has two halves. *Control*, for every two worlds: neither has taken a
collective call that the other has not come to, so they are at most one call
apart; if they have taken the same calls they are at the same stage
(`Abreast`), and if one has taken the call that the other is in, it is where the
result of that call leads (`Follows`). `CallsMatch` alone isn't inductive: that
the next calls are of one kind needs that the *stages* agree, and these that all
worlds took the same maximum. *Jobs*: what waits on a
world follows from the script (`PendingInv`), every job made there is one of its
share or its own (`MadeRightly`), each of its share was made when the creation
succeeded, and ids of earlier batches are below the counter on every world. With
`EachJobOnOneWorld` (`distributeJobs` gives each job to exactly one world, for all
sizes) this gives `JobsRunOnce`. The two invariants were checked with TLC on
2 worlds and up to 4 operations before they were proved.

**DataManagerProofs.** `Spec => []IInv` (`DataManagerInvariant`), for any number of
ranks, any change of the frequency between exports, any number of starts, and a
program killed between any two steps of any rank, in the middle of a dump or of a
removal too; from it `TypeOK`, `RestartsFromNewest`,
`LoadsAfterCleanStop`, and, if `InPlace = TRUE`, `RestartsOneSimulation` and
`FewDirectories`. Without `InPlace` the directories of older simulations are
never removed, and the last two are refuted (see above). The parts of `IInv`:

* *Control* (`ControlInv`). The collective calls a rank has made tell which save
  it is in (`CallInv`), and ranks are at most one call apart (`CallsAgree`).
  Calls do not tell the cycle, since not every cycle is saved: ranks that have made
  the same calls may be in different cycles, but no checkpoint is due between
  them (`CyclesAgree`, `NoneDue`), so they meet in the save of the same cycle.
* *The constructor* (`ConstructorInv`). What a rank has found is the newest
  directory, and rank 0 removes only older ones, the oldest first. A rank that lists
  after rank 0 has removed some finds fewer to remove, but the same to load.
* *The disk* (`RunningInv`, `SavedKept`, `OneSimulation`). Only rank 0 makes and removes
  directories, and so what is there follows from where rank 0 is: what it
  loaded, and its own checkpoints (`Own`) but for those that lay one frequency
  before a later one (`Removed`, `Kept`). Every file in them is written by one simulation.
* *Whole checkpoints* (`WholeInv`). Unless `torn` counts a kill, what is missing in the
  *newest* directory is about to be written by a rank that is on its way there
  (`Awaited`). Older directories may be partial, since a removal can be cut off;
  it is enough that what rank 0 removes is never the newest (`NotNewest`).

None of the properties is inductive alone. `RestartsFromNewest` needs that
there is a newer directory when rank 0 removes one, and that no rank can have finished
a save that rank 0 is not in; `RestartsOneSimulation` needs
`OneSimulation` of directories that nobody has loaded yet. `LoadsAfterCleanStop` is
inductive relative to `IInv`. `FewDirectories` needs the arithmetic of `N % freq`:
two own checkpoints that follow each other and are both kept have a change of
frequency between them, or the next multiple would have removed the first
(`NextMultiple`, `KeptApart`); the least change after each is then an injection of
what is kept into the changes (`FewKept`). `Sorted` is chosen by its order; that such a sequence
exists, with the newest last, is the lemma that opens the module (by a smallest
counterexample in place of induction). `IInv` was checked with TLC on 2 ranks,
3 cycles and all schedules of the frequencies 1 and 2 with `InPlace` (3 starts), and
without it (2 starts, or 2 cycles and 3 starts), before it was proved.

**SimulationProofs.** `Spec => []IInv` (`SimulationInvariant`), and from it
`SetUpAnew`, `AllSatisfied`, and, if no model fails in `doStepPostprocessing`
(refuted otherwise, see above), `TimesAgree`, for any tree of simulations, any
limits and step sizes, and models that fail and refuse as they like.

* *The tree.* `Inside` is the least set with a simulation and, with every
  simulation in it, its members; no recursion is needed, and the lemmas of the first
  section (its equation, no simulation is inside itself, members of one have no
  simulation in common) follow from sets that are closed under membership.
* *The agenda.* Between two time steps, the agenda is in one of three stages: calls of
  `doStepPreprocessing` before the iteration of the tree (`SettingUp`), calls of `doStep` inside that
  iteration (`Iterating`), or calls of `doStepPostprocessing` and `advance`
  (`Concluding`); the initialization goes through the same stages under other names.
  What the calls left will reach (`Awaiting`) says what has been done: the models
  no call is to reach are set up, the simulations no call is to reach have advanced.
  No simulation is reached by two calls, so none advances twice; Root advances
  last, so that `Attempted` stays what it was until the step is over.
* None of the three is inductive: each speaks of the moment a stage ends. The
  invariant was checked with TLC before it was proved, also with
  `PostRaises = TRUE`, where all but the clocks holds.

**FinleyMeshProofs.** `MeshInit /\ [][MeshNext]_meshVars => []MeshInv`
(`MeshInvariant`), for any number of ranks, any mesh a reader may leave, any
partition, any permutation of the blocks, with or without optimisation. `LabelsAgree` of the finished
labelling follows; no part of it is inductive, since nothing is agreed while a ring is half way.

* *What is known before a job, and after it* (`Known`, with the levels of `Level` and
  `LevelAfter`). The first gather makes every rank's copy of a node carry one
  degree of freedom (`SameDofs`); the ring over degrees of freedom numbers them in
  blocks without a gap (`DofsNumbered`); distributing the elements brings every
  element to the owners of its nodes (`Gathered`); the second gather brings the nodes,
  and the rings after it number these, then the reduced labels: a reduced label
  is the number of smaller labels that elements end at (`Place`). `Kept` says that
  no element is lost although each is copied: some rank has it as its owner.
* *A ring that fills* (`FillInv`). A buffer that has been to some ranks (`Visited`)
  holds the marks of their nodes whose labels lie in its block, and nothing else.
  After the last turn all ranks have seen it.
* *A ring that numbers* becomes one that collects (`CollectInv`): the marks of the blocks
  are counted, the counts summed over the ranks. Numbers and marks correspond
  one to one, so that labels are dense and two keys get one label only if they are equal.
* *A ring that collects already determines the labels it will leave.* `FinalNodes`
  are the node files with every label read that is still to come round, and the
  invariant is that `Known` holds of *them*, after the job. A turn reads
  some of these labels and passes the buffers on: `FinalNodes` stays the same, which
  is the whole induction step (`LevelAfter` holds when the last turn leaves nothing
  to read). For `resetNodeLabels`, whose nodes carry new labels among the old ones half way,
  `ring.fresh` says which are still to be read.
* *Optimisation.* A partition may give any degree of freedom to any rank: its
  ring renumbers within the new blocks, and the invariant returns to the level before the elements
  are distributed. The bandwidth reduction permutes each block (`Permutes`).

`SplitIsDistribution` (the blocks of `split`, after `setDistribution`) and the arithmetic of `\div` and `%`
rest on `DivMod` and `TimesMonotone`. `MeshInv` was checked with TLC on the meshes of the run
`Coupler` before it was proved.

**CouplerProofs.** `Spec => []IInv` (`CouplerInvariant`), with `MeshInv` in it, and from it
`LabelsAgree` and `SeesOwnersValue`, for any number of ranks, any mesh a reader may leave, any
partition, any permutation of the blocks and any number of exchanges; and `MappingsAccepted`
for meshes with `EndsFirst`.

* *What the mappings say* (`ConnectorInv`). A rank that accepted its mapping has a
  place for each label its nodes carry: it owns it, or it wants it of the rank
  that owns it. The place is the sum of the lengths of the lists before plus the
  position in the list. That the parts of two neighbours do not overlap follows from
  the cardinalities of disjoint sets (`CountBefore`), with no recursion.
* *Where a rank is* (`CallsInv`). What is left of the round tells how many exchanges of each
  kind a rank has started, and these the counter, modulo `TagLimit`.
* *Between two ranks* (`PairInv`, `MailInv`, `PostedInv`). A rank is at most one
  exchange of a kind ahead of one it exchanges with, because `finishCollect` waits
  for both its receives and its sends. A message is therefore that of the last exchange its sender
  started, and so is a receive. Two collects under way at once have consecutive
  counters, which differ because a communicator is smaller than `TagLimit`;
  so no receive takes a message of the other kind.
* *No rank refuses its mappings.* `EndsFirst` says that the node with the smallest Id of
  every element of the reader's mesh is one of its ends; elements are handed out with
  their nodes and ends, so it stays true (`LowEnds`). Before the mappings, the labels of each
  kind are numbered in blocks, a rank's nodes carry every label the rank owns, because
  the elements at that label came to its owner, and its first node carries a label of
  both kinds (`Covered`). So the span of a rank contains its block, each label outside it
  is wanted of the neighbour who owns it and gets a place, the places have no gap, and
  `assign` sees nothing negative. Without `EndsFirst` the first node may have no reduced
  label, which is the run `MidNodeFirst`.

`SeesOwnersValue` alone says nothing of a rank still waiting. `IInv` was checked
with TLC before it was proved: with one round on the meshes of the run `Coupler`
that are not optimised, and on the shortest with optimisation; with two rounds, and a tag
counter that wraps at 4, on one of them. It is no property of the run, where it would take
longer than all other checks together.

**CheckResultProofs.** `Spec => []Inv`: each rank is `Outside`, `Asking` or
`Answered` relative to the number of rounds the leader has answered. From it
`OneInFlight` and the refinement `Spec => AgreesOnMaximum`, for any number of
ranks and calls.

**LinearPDEProofs.** `Spec => []Inv`, and from it `SystemCurrent` and
`SolutionCurrent`, for any degrees of freedom, values, masks, methods and
number of changes, assuming that every use is a `SoundUse`, as all five of the
run are. Such a use sets a coefficient after it emptied the right hand side. If it
never lumps (`MatrixUse`), it keeps `r` empty, or else asks for one matrix type and
stops after `setValue` raised. If it lumps (`LumpingUse`), it does so by one method, fixes
`q` and `r` before the first system is built (under lumping `setValue` announces
neither), and keeps `r` empty, or else asks for no other matrix. Each clause has a use
that breaks it in the list of section 3. The properties are not inductive: `getSystem` may
rebuild the right hand side over a kept matrix, or the matrix over a kept right hand
side, and each is right only if the terms of the constraint in the right hand side are
those of the matrix. `Inv` therefore says what an *invalid* half still is: with an
inhomogeneous constraint and no lumping neither half is valid without the other. A lumped
matrix takes nothing off the right hand side, and a program that has both kinds has a
homogeneous constraint (`Lifts`), so that a half that is kept stays right when
the method changes. Every matrix is of a type the use asks for, and of the lumped ones the
method is known (`RightMatrix`). `Inv` was checked with TLC on the uses of the run and on
wider lumping ones before it was proved.

**Only model-checked:** all liveness (`CallsReturn`, `ScriptEnds`, `RunEnds`), which
the provers don't reach; scripts with `copyVariable`; `DataLazy` with
`HeightBounded` and its refinement `ImplementsValues`, because trees are copied and nodes collected by
`RECURSIVE` operators, and what a tree evaluates to needs induction over it.

## 5. Plan

Done: Reducers, SubWorld with its abstract specification and invariant,
CheckResult, Distribution, SplitWorld, DataManager, LinearPDE with its
invariant, VariableGroups, FinleyMesh with Coupler, DataLazy with DataValues, Simulation. Left, in this order:

1. The wire protocol of `MPIDataReducer` with shapes and function spaces, and
   `checkRemoteCompatibility` over them.
2. `Taipan` as a small component; complex values and `complicate` in DataLazy;
   `TransportPDE` in LinearPDE.

Nothing that a run checks and the provers reach is left unproved.

## 6. Not modelled

* Values: matrices, right hand sides and `Data` are versions or small integers;
  no kernel, assembler, solver or preconditioner is modelled.
* `Data`: complex data points, shapes, slices of a data point, interpolation,
  `Random`, thread-parallel evaluation (threads write disjoint samples); of the
  lazy operations the binary sum stands for all. Read on the way and not stated
  as properties: `deepCopy` of a node of the group `G_NP1OUT` dereferences an absent
  `m_right` (`DataLazy.cpp:2890`), and `setToZero` and `copyWithMask` do not ask
  `m_protected`, which DataValues shows in its actions.
* finley: geometry, Jacobians, colouring, readers and writers, periodic
  boundaries beyond shared labels, and what ParMETIS computes.
* paso: everything above the exchange of a vector; the receive list's capacity
  (`NodeFile.cpp:832`).
* modelframe: parameters and links between models, reading and writing XML, a
  run continued from XML, and `RestartManager` (whose constructor stores
  `dump_time` and `dump_step` in each other's place, `modelframe.py:1323-1324`).
  Read on the way: only the first attempt of a step is clamped to
  `MAX_CHANGE_OF_DT` (1151), and the clamp may make it larger than the models call
  safe; after a `FailedTimeStepError` the models' size is taken as it is (1170).
* Taipan and the parts in section 1 that are numerical, input and
  output, generated or third-party.
