----------------------------- MODULE DataManager -----------------------------
(***************************************************************************)
(* Checkpoint and restart with esys.escript.DataManager (RESTART format):  *)
(* every rank of an MPI program keeps a manager, the ranks write their     *)
(* parts of a checkpoint into one directory per export cycle, and only     *)
(* rank 0 makes and removes directories.  The program may be killed at any *)
(* moment and started again; what is on disk stays.                        *)
(***************************************************************************)
EXTENDS Integers, Sequences, FiniteSets, SequencesExt

CONSTANTS
  size,        \* number of ranks
  Schedules,   \* what a script may do with setCheckpointFrequency, between any two exports:
               \* the frequency in force at the export of each cycle
  InPlace,     \* TRUE: work_dir is the current directory
  Fresh,       \* TRUE: the script may be started with do_restart=False
  MaxN,        \* bound: export cycles
  MaxStarts    \* bound: starts of the program

ASSUME SizeAssumption == size \in Nat \ {0}
ASSUME BoundsAssumption == MaxN \in Nat /\ MaxStarts \in Nat
ASSUME SchedulesAssumption == Schedules \subseteq [0 .. MaxN -> Nat \ {0}]

Ranks == 0 .. size - 1
Cycles == 0 .. MaxN
NoCycle == -1

VARIABLES
  dirs,        \* restart directories on disk, by the cycle in their name
  files,       \* files[n][r]: what rank r has written into directory n
  pc,          \* where each rank is
  N,           \* the manager's export cycle
  freq,        \* checkpoint frequency at the export of each cycle
  do_restart,  \* the constructor's argument
  restartdir,  \* the directory the manager has loaded; NoCycle: hasData() is False
  todo,        \* directories the constructor still has to remove
  sim,         \* the simulation whose state the rank holds, by the start that began it
  calls,       \* collective calls each rank has made since the start
  left,        \* how many of them have returned
  starts,      \* starts of the program so far
  torn,        \* how often it was killed where the newest directory may be incomplete
  saved        \* the last checkpoint that some rank knows to be finished, unless the
               \* program was started with do_restart=False since

disk == <<dirs, files>>
history == <<starts, torn, saved>>
vars == <<disk, pc, N, freq, do_restart, restartdir, todo, sim, calls, left, history>>

\* Files carry the simulation that wrote them; 0: no such file (or an unfinished one).
\* dump is the domain, data all variables.
NoFiles == [stamp |-> 0, dump |-> 0, data |-> 0]
Everyone(x) == [r \in Ranks |-> x]

Init ==
  /\ dirs = {}
  /\ files = [n \in Cycles |-> Everyone(NoFiles)]
  /\ pc = Everyone("down")
  /\ N = Everyone(NoCycle)
  /\ freq = [n \in Cycles |-> 1]
  /\ do_restart = TRUE
  /\ restartdir = Everyone(NoCycle)
  /\ todo = Everyone(<< >>)
  /\ sim = Everyone(0)
  /\ calls = Everyone(<< >>)
  /\ left = Everyone(0)
  /\ starts = 0 /\ torn = 0 /\ saved = NoCycle

-----------------------------------------------------------------------------
(* Directories, files and collective calls                                 *)

Goes(r, where) == pc' = [pc EXCEPT ![r] = where]

\* A collective call returns on r once every rank has come to the same call.  (MPI leaves
\* open what becomes of ranks that meet in different ones; here they wait.)
Calls(r, kind) == calls' = [calls EXCEPT ![r] = Append(@, kind)]
Returns(r) ==
  /\ \A s \in Ranks : Len(calls[s]) > left[r] /\ calls[s][left[r] + 1] = calls[r][left[r] + 1]
  /\ left' = [left EXCEPT ![r] = @ + 1]

\* Rank 0 makes a directory, unless it is there already.
MakeDirectory(r, n) == dirs' = IF r = 0 THEN dirs \cup {n} ELSE dirs

\* Fault: the directory is unlinked, its files are found again under the next of that name.
RemoveNameOnly(r, n) ==
  IF r = 0 /\ n \in dirs THEN dirs' = dirs \ {n} /\ UNCHANGED files ELSE UNCHANGED disk

\* shutil.rmtree removes file by file, in any order.
RemoveFile(r, n) ==
  /\ r = 0 /\ n \in dirs
  /\ \E b \in Ranks : \/ files' = [files EXCEPT ![n][b].stamp = 0]
                      \/ files' = [files EXCEPT ![n][b].dump = 0]
                      \/ files' = [files EXCEPT ![n][b].data = 0]

\* At the end the directory is gone, and what was left in it; only rank 0 removes.
RemoveDirectory(r, n) ==
  IF r = 0 /\ n \in dirs
  THEN dirs' = dirs \ {n} /\ files' = [files EXCEPT ![n] = Everyone(NoFiles)]
  ELSE UNCHANGED disk

-----------------------------------------------------------------------------
(* Starting: DataManager.__init__                                          *)

\* The program is started; each rank makes work_dir's mkDir its first collective call.
Start(restart, schedule) ==
  /\ \A r \in Ranks : pc[r] = "down"
  /\ starts < MaxStarts /\ (restart \/ Fresh)
  /\ pc' = Everyone("listing")
  /\ N' = Everyone(NoCycle)
  /\ freq' = schedule /\ do_restart' = restart
  /\ restartdir' = Everyone(NoCycle) /\ todo' = Everyone(<< >>)
  /\ sim' = Everyone(starts + 1)
  /\ calls' = Everyone(<<"mkDir">>) /\ left' = Everyone(0)
  /\ starts' = starts + 1
  /\ saved' = IF restart THEN saved ELSE NoCycle
  /\ UNCHANGED <<disk, torn>>

\* The numbers of a set in their order
Sorted(S) ==
  CHOOSE s \in [1 .. Cardinality(S) -> S] : \A i, j \in DOMAIN s : i < j => s[i] < s[j]

\* Fault: the oldest directory is loaded.
ListOldestLast(r) ==
  /\ pc[r] = "listing" /\ Returns(r)
  /\ LET folders == Reverse(Sorted(dirs)) IN
     IF do_restart /\ folders # << >>
     THEN /\ restartdir' = [restartdir EXCEPT ![r] = Last(folders)]
          /\ todo' = [todo EXCEPT ![r] = Front(folders)]
     ELSE todo' = [todo EXCEPT ![r] = folders] /\ UNCHANGED restartdir
  /\ Goes(r, "clearing")
  /\ UNCHANGED <<disk, N, freq, do_restart, sim, calls, history>>

\* Fault: without a restart, too, the newest directory is spared.
ListSparesNewest(r) ==
  /\ pc[r] = "listing" /\ Returns(r)
  /\ LET folders == Sorted(dirs) IN
     IF folders # << >>
     THEN /\ restartdir' = [restartdir EXCEPT ![r] = IF do_restart THEN Last(folders) ELSE NoCycle]
          /\ todo' = [todo EXCEPT ![r] = Front(folders)]
     ELSE todo' = [todo EXCEPT ![r] = folders] /\ UNCHANGED restartdir
  /\ Goes(r, "clearing")
  /\ UNCHANGED <<disk, N, freq, do_restart, sim, calls, history>>

\* Every rank lists the restart directories for itself, in order of their names.
List(r) ==
  /\ pc[r] = "listing" /\ Returns(r)
  /\ LET folders == Sorted(dirs) IN
     IF do_restart /\ folders # << >>
     THEN /\ restartdir' = [restartdir EXCEPT ![r] = Last(folders)]
          /\ todo' = [todo EXCEPT ![r] = Front(folders)]
     ELSE todo' = [todo EXCEPT ![r] = folders] /\ UNCHANGED restartdir
  /\ Goes(r, "clearing")
  /\ UNCHANGED <<disk, N, freq, do_restart, sim, calls, history>>

\* Rank 0 is in the middle of removing a directory.
RemovingUnneeded(r) ==
  /\ pc[r] = "clearing" /\ todo[r] # << >> /\ InPlace
  /\ RemoveFile(r, Head(todo[r]))
  /\ UNCHANGED <<dirs, pc, N, freq, do_restart, restartdir, todo, sim, calls, left, history>>

\* __removeDirectory is given the bare name of the directory, which names nothing
\* unless work_dir is the current directory.
RemoveUnneeded(r) ==
  /\ pc[r] = "clearing" /\ todo[r] # << >>
  /\ IF InPlace THEN RemoveDirectory(r, Head(todo[r])) ELSE UNCHANGED disk
  /\ todo' = [todo EXCEPT ![r] = Tail(@)]
  /\ Calls(r, "barrier") /\ Goes(r, "cleared")
  /\ UNCHANGED <<N, freq, do_restart, restartdir, sim, left, history>>

NextUnneeded(r) ==
  /\ pc[r] = "cleared" /\ Returns(r)
  /\ Goes(r, "clearing")
  /\ UNCHANGED <<disk, N, freq, do_restart, restartdir, todo, sim, calls, history>>

\* __loadState: without its stamp file or its part of the domain a rank raises.
LoadState(r) ==
  /\ pc[r] = "clearing" /\ todo[r] = << >> /\ restartdir[r] # NoCycle
  /\ LET found == files[restartdir[r]][r] IN
     IF found.stamp # 0 /\ found.dump # 0
     THEN /\ N' = [N EXCEPT ![r] = restartdir[r]]
          /\ sim' = [sim EXCEPT ![r] = found.stamp]
          /\ Goes(r, "reading")
     ELSE Goes(r, "failed") /\ UNCHANGED <<N, sim>>
  /\ UNCHANGED <<disk, freq, do_restart, restartdir, todo, calls, left, history>>

\* The script reads its variables with getValue, which raises if a file is missing.
GetValue(r) ==
  /\ pc[r] = "reading"
  /\ IF files[restartdir[r]][r].data # 0
     THEN Calls(r, "compute") /\ Goes(r, "computing")
     ELSE Goes(r, "failed") /\ UNCHANGED calls
  /\ UNCHANGED <<disk, N, freq, do_restart, restartdir, todo, sim, left, history>>

NothingToLoad(r) ==
  /\ pc[r] = "clearing" /\ todo[r] = << >> /\ restartdir[r] = NoCycle
  /\ Calls(r, "compute") /\ Goes(r, "computing")
  /\ UNCHANGED <<disk, N, freq, do_restart, restartdir, todo, sim, left, history>>

\* The script has created a domain or got the one loaded; it solves,
\* and no rank comes out of that before every rank has gone in.
Compute(r) ==
  /\ pc[r] = "computing" /\ Returns(r)
  /\ Goes(r, "running")
  /\ UNCHANGED <<disk, N, freq, do_restart, restartdir, todo, sim, calls, history>>

-----------------------------------------------------------------------------
(* Exporting: addData, then export                                         *)

\* setCheckpointFrequency may have been called since the last export.
Saves(n) == n % freq[n] = 0

\* A cycle without a checkpoint
Export(r) ==
  /\ pc[r] = "running" /\ N[r] < MaxN /\ ~ Saves(N[r] + 1)
  /\ N' = [N EXCEPT ![r] = @ + 1]
  /\ restartdir' = [restartdir EXCEPT ![r] = NoCycle]
  /\ UNCHANGED <<disk, pc, freq, do_restart, todo, sim, calls, left, history>>

\* A cycle with one: __saveState begins with mkDir.
SaveState(r) ==
  /\ pc[r] = "running" /\ N[r] < MaxN /\ Saves(N[r] + 1)
  /\ N' = [N EXCEPT ![r] = @ + 1]
  /\ restartdir' = [restartdir EXCEPT ![r] = NoCycle]
  /\ MakeDirectory(r, N[r] + 1)
  /\ Calls(r, "mkDir") /\ Goes(r, "making")
  /\ UNCHANGED <<files, freq, do_restart, todo, sim, left, history>>

WriteStamp(r) ==
  /\ pc[r] = "making" /\ Returns(r)
  /\ files' = [files EXCEPT ![N[r]][r].stamp = sim[r]]
  /\ Goes(r, "dumping")
  /\ UNCHANGED <<dirs, N, freq, do_restart, restartdir, todo, sim, calls, history>>

\* Fault: only the rank that makes directories writes its data.
DumpDataOnFirst(r) ==
  /\ pc[r] = "filling"
  /\ files' = IF r = 0 THEN [files EXCEPT ![N[r]][r].data = sim[r]] ELSE files
  /\ Goes(r, "dumped")
  /\ UNCHANGED <<dirs, N, freq, do_restart, restartdir, todo, sim, calls, left, history>>

\* The ranks of a FinleyDomain write it one after another.
DumpDomain(r) ==
  /\ pc[r] = "dumping"
  /\ r > 0 => files[N[r]][r - 1].dump = sim[r]
  /\ files' = [files EXCEPT ![N[r]][r].dump = sim[r]]
  /\ Goes(r, "filling")
  /\ UNCHANGED <<dirs, N, freq, do_restart, restartdir, todo, sim, calls, left, history>>

\* Every rank then writes its part of the variables; the last of them completes its data.
DumpData(r) ==
  /\ pc[r] = "filling"
  /\ files' = [files EXCEPT ![N[r]][r].data = sim[r]]
  /\ Goes(r, "dumped")
  /\ UNCHANGED <<dirs, N, freq, do_restart, restartdir, todo, sim, calls, left, history>>

\* Fault: the directory of the cycle before is removed, whatever the frequency.
RemoveCycleBefore(r) ==
  /\ pc[r] = "dumped"
  /\ RemoveDirectory(r, N[r] - 1)
  /\ Calls(r, "barrier") /\ Goes(r, "saving")
  /\ UNCHANGED <<N, freq, do_restart, restartdir, todo, sim, left, history>>

RemovingOld(r) ==
  /\ pc[r] = "dumped"
  /\ RemoveFile(r, N[r] - freq[N[r]])
  /\ UNCHANGED <<dirs, pc, N, freq, do_restart, restartdir, todo, sim, calls, left, history>>

\* The checkpoint one present frequency back is removed before the ranks meet again.
RemoveOld(r) ==
  /\ pc[r] = "dumped"
  /\ RemoveDirectory(r, N[r] - freq[N[r]])
  /\ Calls(r, "barrier") /\ Goes(r, "saving")
  /\ UNCHANGED <<N, freq, do_restart, restartdir, todo, sim, left, history>>

SaveEnds(r) ==
  /\ pc[r] = "saving" /\ Returns(r)
  /\ Goes(r, "running")
  /\ saved' = N[r]
  /\ UNCHANGED <<disk, N, freq, do_restart, restartdir, todo, sim, calls, starts, torn>>

-----------------------------------------------------------------------------

Saving == \E r \in Ranks : pc[r] \in {"making", "dumping", "filling", "dumped", "saving"}

\* Rank 0 of a program started with do_restart=False removes the last directory.
Discarding == InPlace /\ ~ do_restart /\ pc[0] = "clearing" /\ Len(todo[0]) = 1

\* The program ends or is killed: all ranks at once.
Stop ==
  /\ \E r \in Ranks : pc[r] # "down"
  /\ pc' = Everyone("down")
  /\ N' = Everyone(NoCycle) /\ restartdir' = Everyone(NoCycle) /\ todo' = Everyone(<< >>)
  /\ sim' = Everyone(0) /\ calls' = Everyone(<< >>) /\ left' = Everyone(0)
  /\ freq' = [n \in Cycles |-> 1] /\ do_restart' = TRUE
  /\ torn' = IF Saving \/ Discarding THEN torn + 1 ELSE torn
  /\ UNCHANGED <<disk, starts, saved>>

Rank(r) ==
  \/ List(r)
  \/ RemovingUnneeded(r)
  \/ RemoveUnneeded(r)
  \/ NextUnneeded(r)
  \/ LoadState(r)
  \/ GetValue(r)
  \/ NothingToLoad(r)
  \/ Compute(r)
  \/ Export(r)
  \/ SaveState(r)
  \/ WriteStamp(r)
  \/ DumpDomain(r)
  \/ DumpData(r)
  \/ RemovingOld(r)
  \/ RemoveOld(r)
  \/ SaveEnds(r)

\* It isn't started any more.
Finished == starts = MaxStarts /\ (\A r \in Ranks : pc[r] = "down") /\ UNCHANGED vars

Next ==
  \/ \E restart \in BOOLEAN, schedule \in Schedules : Start(restart, schedule)
  \/ \E r \in Ranks : Rank(r)
  \/ Stop
  \/ Finished

Spec == Init /\ [][Next]_vars

-----------------------------------------------------------------------------
(* Properties                                                              *)

TypeOK ==
  /\ dirs \subseteq Cycles
  /\ files \in [Cycles -> [Ranks -> [stamp : 0 .. MaxStarts, dump : 0 .. MaxStarts,
                                 data : 0 .. MaxStarts]]]
  /\ \A n \in Cycles \ dirs : files[n] = Everyone(NoFiles)
  /\ pc \in [Ranks -> {"down", "listing", "clearing", "cleared", "reading", "failed", "computing",
                       "running", "making", "dumping", "filling", "dumped", "saving"}]
  /\ N \in [Ranks -> Cycles \cup {NoCycle}]
  /\ restartdir \in [Ranks -> Cycles \cup {NoCycle}]
  /\ \A r \in Ranks : ToSet(todo[r]) \subseteq Cycles /\ left[r] \in 0 .. Len(calls[r])
  /\ sim \in [Ranks -> 0 .. MaxStarts]
  /\ starts \in 0 .. MaxStarts /\ torn \in 0 .. MaxStarts
  /\ saved \in Cycles \cup {NoCycle}

\* __loadState has returned, and the program still is in the state loaded.
Restarted(r) == pc[r] \in {"reading", "computing", "running"} /\ restartdir[r] # NoCycle

\* A restart continues from the last checkpoint that was finished, or a later one,
\* and from the same one on every rank, whenever the program was killed before.
RestartsFromNewest ==
  /\ \A r \in Ranks : Restarted(r) => restartdir[r] >= saved
  /\ \A a, b \in Ranks : Restarted(a) /\ Restarted(b) => restartdir[a] = restartdir[b]

\* Stamps and domains that all ranks could load are of one simulation, and so are the
\* data that are there; data may be missing, which a rank finds out before it goes on.
RestartsOneSimulation ==
  (\A r \in Ranks : Restarted(r)) =>
    \A r \in Ranks :
      /\ files[N[r]][r].stamp = sim[0] /\ files[N[r]][r].dump = sim[0]
      /\ files[N[r]][r].data = sim[0] \/ (files[N[r]][r].data = 0 /\ pc[r] = "reading")

\* Unless the program was ever killed inside a save, or while it removed the last
\* directory after a start with do_restart=False, every restart loads all it needs.
LoadsAfterCleanStop == torn = 0 => \A r \in Ranks : pc[r] # "failed"

\* The cycles before whose export the frequency was changed
Changes(n) == {k \in 1 .. n : freq[k] # freq[k - 1]}

\* __saveState removes what it would have written one frequency ago ("keep only one restart
\* directory").  So a running program keeps its newest checkpoint, the one it was restarted
\* from, and at most one more for every change of the frequency.
FewDirectories ==
  (\E r \in Ranks : pc[r] = "running") /\ ~ Saving =>
    Cardinality(dirs) <= 2 + Cardinality(Changes(N[0]))

\* datamanager.py, __init__: if a restart directory is found, the contained data is
\* loaded; once a checkpoint has been finished there is always one to load, data included.
SavedIsLoaded == saved # NoCycle => \A r \in Ranks : pc[r] # "failed"
=============================================================================
