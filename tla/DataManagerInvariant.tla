------------------------ MODULE DataManagerInvariant ------------------------
(***************************************************************************)
(* The inductive invariant behind the safety properties of DataManager.    *)
(* A rank's calls tell which save it is in, and the ranks are never        *)
(* further apart than one call.  Only rank 0 makes and removes directories *)
(* and so what is on disk follows from where rank 0 is.                    *)
(***************************************************************************)
EXTENDS DataManager

Kinds == {"mkDir", "barrier", "compute"}
Places == {"down", "listing", "clearing", "cleared", "reading", "failed", "computing",
           "running", "making", "dumping", "filling", "dumped", "saving"}

\* The constructor: before it has listed the directories, and after
Listed == {"clearing", "cleared", "reading", "failed", "computing"}
Constructor == Listed \cup {"listing"}
InSave == {"making", "dumping", "filling", "dumped", "saving"}
Active == InSave \cup {"running"}

Types ==
  /\ dirs \subseteq Cycles
  /\ files \in [Cycles -> [Ranks -> [stamp : 0 .. MaxStarts, dump : 0 .. MaxStarts,
                                 data : 0 .. MaxStarts]]]
  /\ \A n \in Cycles \ dirs : files[n] = Everyone(NoFiles)
  /\ pc \in [Ranks -> Places]
  /\ N \in [Ranks -> Cycles \cup {NoCycle}]
  /\ freq \in [Cycles -> Nat \ {0}]
  /\ do_restart \in BOOLEAN
  /\ restartdir \in [Ranks -> Cycles \cup {NoCycle}]
  /\ todo \in [Ranks -> Seq(Cycles)]
  /\ sim \in [Ranks -> 0 .. MaxStarts]
  /\ calls \in [Ranks -> Seq(Kinds)]
  /\ left \in [Ranks -> Nat]
  /\ starts \in 0 .. MaxStarts /\ torn \in 0 .. starts
  /\ saved \in Cycles \cup {NoCycle}

-----------------------------------------------------------------------------
(* Collective calls                                                        *)

Called(r) == Len(calls[r])
Past(r) == pc[r] \in Active \cup {"computing"}

\* The kind of call in which a rank waits
KindAt == [p \in {"listing", "cleared", "computing", "making", "saving"} |->
             IF p \in {"listing", "making"} THEN "mkDir"
             ELSE IF p = "computing" THEN "compute" ELSE "barrier"]

Computes(r, upto) == {k \in 1 .. upto : calls[r][k] = "compute"}

\* A rank's own calls: one computation, and after it a mkDir and a barrier for each save.
CallInv(r) ==
  /\ IF pc[r] \in DOMAIN KindAt
     THEN Called(r) = left[r] + 1 /\ calls[r][Called(r)] = KindAt[pc[r]]
     ELSE Called(r) = left[r]
  /\ Computes(r, Called(r)) # {} <=> Past(r)
  /\ Computes(r, left[r]) # {} <=> pc[r] \in Active
  /\ \A j, k \in Computes(r, Called(r)) : j = k
  /\ pc[r] \in {"running", "making"} => calls[r][left[r]] \in {"compute", "barrier"}
  /\ pc[r] \in {"dumping", "filling", "dumped", "saving"} => calls[r][left[r]] = "mkDir"

\* What has returned on a, b has called as well.
CallsAgree(a, b) ==
  /\ left[a] <= Called(b)
  /\ \A k \in 1 .. left[a] : calls[b][k] = calls[a][k]

\* No checkpoint is due in a cycle after m, up to n.
NoneDue(m, n) == \A i \in Cycles : m < i /\ i <= n => ~ Saves(i)

\* Ranks that have made the same calls are in cycles with no checkpoint between them;
\* in a save they are in the same cycle.
CyclesAgree(a, b) ==
  /\ Called(a) = Called(b) => NoneDue(N[a], N[b])
  /\ Called(a) = Called(b) + 1 /\ pc[a] = "making" => N[b] < N[a] /\ NoneDue(N[b], N[a] - 1)
  /\ Called(a) = Called(b) + 1 /\ pc[a] = "saving" => N[a] = N[b]

RankInv(r) ==
  /\ CallInv(r)
  /\ pc[r] \in InSave => Saves(N[r]) /\ N[r] \in Cycles
  /\ pc[r] \in {"dumping", "filling", "dumped", "saving"} => N[r] \in dirs
  /\ pc[r] # "down" => torn < starts
  /\ Past(r) => sim[r] # 0
  /\ pc[r] \in Active /\ restartdir[r] # NoCycle =>
       pc[r] = "running" /\ calls[r][left[r]] = "compute"

ControlInv ==
  /\ \A r \in Ranks : RankInv(r)
  /\ \A a, b \in Ranks : pc[a] = "down" => pc[b] = "down"
  /\ \A a, b \in Ranks : CallsAgree(a, b)
  /\ \A a, b \in Ranks : Past(a) /\ Past(b) => CyclesAgree(a, b)
  /\ pc[0] = "making" => N[0] \in dirs

-----------------------------------------------------------------------------
(* What is on disk                                                         *)

\* Something as new as the last finished checkpoint is there.
SavedKept == saved # NoCycle => \E n \in dirs : n >= saved

\* All that is written in directory n comes from simulation s.
WrittenBy(n, s) == \A r \in Ranks : {files[n][r].stamp, files[n][r].dump, files[n][r].data} \subseteq {0, s}

OneSimulation(n) == \E s \in 0 .. MaxStarts : WrittenBy(n, s)

\* What __loadState needs, and what the program needs
LoadableFor(n, r) == files[n][r].stamp # 0 /\ files[n][r].dump # 0
WholeFor(n, r) == LoadableFor(n, r) /\ files[n][r].data # 0

\* The directory a rank found to load is the newest; rank 0 removes others only.
Found(r) ==
  /\ pc[r] \in Listed => IF do_restart
       THEN IF restartdir[r] = NoCycle THEN dirs = {}
            ELSE restartdir[r] \in dirs /\ \A n \in dirs : n <= restartdir[r]
       ELSE restartdir[r] = NoCycle
  /\ pc[r] = "listing" => restartdir[r] = NoCycle
  /\ pc[r] \in {"listing", "clearing", "cleared"} => N[r] = NoCycle /\ sim[r] = starts
  /\ pc[r] \in {"reading", "computing"} =>
       /\ N[r] = restartdir[r] /\ todo[r] = << >>
       /\ IF restartdir[r] = NoCycle THEN sim[r] = starts
          ELSE LoadableFor(N[r], r) /\ sim[r] = files[N[r]][r].stamp
  /\ pc[r] = "reading" => restartdir[r] # NoCycle
  /\ pc[r] = "computing" /\ restartdir[r] # NoCycle => WholeFor(N[r], r)

ConstructorInv ==
  (\A r \in Ranks : pc[r] \in Constructor) =>
    /\ \A r \in Ranks : Found(r)
    /\ pc[0] \in Listed =>
         /\ \A n \in ToSet(todo[0]) : restartdir[0] # NoCycle => n < restartdir[0]
         /\ ToSet(todo[0]) \subseteq dirs
         /\ \A i, j \in 1 .. Len(todo[0]) : i < j => todo[0][i] < todo[0][j]
         /\ InPlace => dirs \subseteq ToSet(todo[0]) \cup {restartdir[0]}
    /\ ~ do_restart => saved = NoCycle

\* The checkpoints of a program that has loaded d, or nothing, and those it has removed:
\* each save removes what lies one frequency before it.
Own(d) == {n \in Cycles : d < n /\ n <= N[0] /\ Saves(n)}

Unfinished == IF pc[0] \in InSave \ {"saving"} THEN {N[0]} ELSE {}

Removed(d) == {n - freq[n] : n \in Own(d) \ Unfinished}

Kept(d) == ({d} \cup Own(d)) \ Removed(d)

RunningFrom(d) ==
  /\ \A r \in Ranks :
       /\ d <= N[r]
       /\ restartdir[r] # NoCycle => restartdir[r] = d /\ N[r] = d /\ saved <= d
  /\ InPlace =>
       /\ dirs \subseteq Kept(d)
       /\ \A a, b \in Ranks : sim[a] = sim[b]
       /\ \A n \in Cycles : WrittenBy(n, sim[0])
       /\ \A r \in Ranks : restartdir[0] # NoCycle /\ restartdir[r] # NoCycle =>
            files[d][r] = [stamp |-> sim[r], dump |-> sim[r], data |-> sim[r]]

RunningInv ==
  (\E r \in Ranks : pc[r] \in Active) => \E d \in Cycles \cup {NoCycle} : RunningFrom(d)

\* Rank 0 is saving directory n, and r has yet to come to the place.
Awaited(n, r, places) ==
  /\ pc[0] \in InSave /\ N[0] = n
  /\ N[r] < n \/ (N[r] = n /\ pc[r] \in places)

Newest(n) == n \in dirs /\ \A m \in dirs : m <= n

\* Only the newest directory is ever loaded.  Others may be incomplete: the program may
\* have been killed while it removed them.
WholeInv ==
  torn = 0 /\ ~ Discarding => \A n \in Cycles, r \in Ranks : Newest(n) =>
    /\ files[n][r].stamp = 0 => Awaited(n, r, {"making"})
    /\ files[n][r].dump = 0 => Awaited(n, r, {"making", "dumping"})
    /\ files[n][r].data = 0 => Awaited(n, r, {"making", "dumping", "filling"})

\* The invariant: it is checked on small instances and proved in DataManagerProofs.
IInv ==
  /\ Types
  /\ ControlInv
  /\ SavedKept
  /\ InPlace => \A n \in Cycles : OneSimulation(n)
  /\ ConstructorInv
  /\ RunningInv
  /\ WholeInv
=============================================================================
