------------------------- MODULE SplitWorldInvariant -------------------------
(***************************************************************************)
(* The inductive invariant behind the safety properties of SplitWorld.     *)
(* Control: two worlds are never further apart than one collective call,   *)
(* and the one behind will do what the one ahead has done, because the     *)
(* result of the call decides it.  Jobs: which of them a world has made,   *)
(* keeps and has run follows from the script and from where it is.         *)
(***************************************************************************)
EXTENDS SplitWorld

Operations == {"addJob", "addJobPerWorld", "runJobs"}
Stages == {"creating", "checking", "shipping", "synchronising", "joining", "comparing"}
Outcomes == {"returned", "raised"}
Jobs == [job : Nat, id : Nat]

KindOf == [stage \in Stages |->
             IF stage = "shipping" THEN "ship"
             ELSE IF stage = "synchronising" THEN "synch"
             ELSE IF stage = "comparing" THEN "compare" ELSE "check"]

Types ==
  /\ script \in Seq(Operations) /\ Len(script) <= MaxOps
  /\ create \in [Worlds -> Seq(Nat)]
  /\ jobcounter \in [Worlds -> Nat \ {0}]
  /\ jobvec \in [Worlds -> Seq(Jobs)]
  /\ pc \in [Worlds -> Stages \cup {"script"}]
  /\ mres \in [Worlds -> 0 .. 4]
  /\ brought \in [Worlds -> Seq([kind : {"check", "ship", "synch", "compare"}, value : 0 .. 4])]
  /\ took \in [Worlds -> Nat]
  /\ outcomes \in [Worlds -> Seq(Outcomes)]
  /\ made \in [Worlds -> Seq(Jobs)]
  /\ ran \in [Worlds -> Seq(Nat)]

-----------------------------------------------------------------------------
(* Control                                                                 *)

InCall(w) == pc[w] # "script"
Brought(w) == Len(brought[w])
Done(w) == Len(outcomes[w])

\* The operations of the script that w has begun
Begun(w) == IF InCall(w) THEN Done(w) + 1 ELSE Done(w)

OnlyAddsJobs(from, to) == \A o \in from .. to : script[o] = "addJob"

\* A world in an operation is in a collective call of it, which it hasn't taken.
WorldInv(w) ==
  /\ Begun(w) <= Len(script)
  /\ \A p \in 1 .. Done(w) : script[p] = "addJob" => outcomes[w][p] = "returned"
  /\ took[w] = IF InCall(w) THEN Brought(w) - 1 ELSE Brought(w)
  /\ InCall(w) =>
       /\ brought[w][Brought(w)].kind = KindOf[pc[w]]
       /\ Operation(w) \in {"addJobPerWorld", "runJobs"}
       /\ pc[w] \in {"synchronising", "joining", "comparing"} => Operation(w) = "runJobs"

\* The stage after one whose call has the result m, or how the operation ends
After(stage, operation, worst, m) ==
  IF stage = "creating" THEN "checking"
  ELSE IF stage = "checking"
  THEN IF m = 1 THEN "shipping" ELSE IF operation = "runJobs" THEN "synchronising" ELSE "returned"
  ELSE IF stage = "synchronising" THEN "joining"
  ELSE IF stage = "joining" THEN "comparing"
  ELSE IF stage = "comparing" /\ m # 1 /\ worst = 0 THEN "returned"
  ELSE IF stage = "comparing" /\ m # 1 /\ worst = 3 THEN "shipping"
  ELSE "raised"

Result(k, m) ==
  /\ \A u \in Worlds : Brought(u) >= k /\ brought[u][k].value <= m
  /\ \E u \in Worlds : brought[u][k].value = m

\* a has left b's operation, at most to begin the next that needs a collective call.
Beyond(a, b, how) ==
  /\ Done(a) > Done(b) /\ outcomes[a][Done(b) + 1] = how
  /\ OnlyAddsJobs(Done(b) + 2, Done(a))
  /\ pc[a] \in {"script", "creating"}

Within(a, b, stage, m) ==
  /\ Done(a) = Done(b) /\ pc[a] = stage
  /\ stage = "comparing" => mres[a] = m

\* a has taken the call that b is in, with the result m.
Follows(a, b, m) ==
  LET stage == After(pc[b], Operation(b), mres[b], m)
  IN  IF stage \in Outcomes THEN Beyond(a, b, stage) ELSE Within(a, b, stage, m)

\* a and b have taken the same calls.
Abreast(a, b) ==
  /\ OnlyAddsJobs(Done(b) + 1, Done(a))
  /\ InCall(a) /\ InCall(b) =>
       /\ Done(a) = Done(b) /\ pc[a] = pc[b]
       /\ pc[a] = "comparing" => mres[a] = mres[b]
  /\ InCall(a) /\ ~ InCall(b) => pc[a] = "creating" /\ Done(b) <= Done(a)

PairInv(a, b) ==
  /\ took[a] <= Brought(b)
  /\ \A k \in 1 .. Brought(a) : k <= Brought(b) => brought[a][k].kind = brought[b][k].kind
  /\ \A k \in 1 .. Done(a) : k <= Done(b) => outcomes[a][k] = outcomes[b][k]
  /\ took[a] = took[b] => Abreast(a, b)
  /\ took[a] > took[b] => \A m \in 0 .. 4 : Result(took[a], m) => Follows(a, b, m)

ControlInv ==
  /\ \A w \in Worlds : WorldInv(w)
  /\ \A a, b \in Worlds : PairInv(a, b)

-----------------------------------------------------------------------------
(* Jobs                                                                    *)

\* n jobs are submitted in a row up to place p of the script, but not n + 1.
Submitted(p, n) ==
  /\ n <= p /\ OnlyAddsJobs(p - n + 1, p)
  /\ n < p => script[p - n] # "addJob"

\* The jobs waiting on w are those submitted last; n jobs were waiting for each
\* operation begun, for some n.
PendingInv(w) ==
  /\ InCall(w) => create[w] = << >>
  /\ ~ InCall(w) =>
       /\ Submitted(Done(w), Len(create[w]))
       /\ \A i \in 1 .. Len(create[w]) : create[w][i] = Done(w) - Len(create[w]) + i
  /\ \A p \in 1 .. Begun(w) : \E n \in 0 .. p - 1 : Submitted(p - 1, n)

\* The job of index j among n is one of those for world w.
InBlock(w, n, j) ==
  JobStart(n, swcount, w) < j /\ j <= JobStart(n, swcount, w) + JobCount(n, swcount, w)

\* A job was made on w for an operation that w has begun: by addJobPerWorld, or
\* by the first runJobs after it was submitted, from w's share.
MadeRightly(w, q) ==
  \/ q <= Begun(w) /\ script[q] = "addJobPerWorld"
  \/ \E p \in q + 1 .. Begun(w) : \E n \in 0 .. p - 1 :
       /\ script[p] = "runJobs" /\ Submitted(p - 1, n)
       /\ p - n <= q /\ InBlock(w, n, q - (p - n) + 1)

Kept(w) == Len(made[w]) - Len(jobvec[w])

\* Whether jobs that runJobs will call are still on w
Keeps(w) == pc[w] # "comparing" /\ (pc[w] = "shipping" => Operation(w) = "addJobPerWorld")

JobsInv(w) ==
  /\ \A i \in 1 .. Len(made[w]) :
       /\ 0 < made[w][i].id /\ made[w][i].id < jobcounter[w]
       /\ 0 < made[w][i].job /\ MadeRightly(w, made[w][i].job)
  /\ \A i, j \in 1 .. Len(made[w]) :
       i < j => made[w][i].id < made[w][j].id /\ made[w][i].job < made[w][j].job
  /\ Kept(w) >= 0 /\ \A i \in 1 .. Len(jobvec[w]) : jobvec[w][i] = made[w][Kept(w) + i]
  /\ pc[w] = "comparing" => jobvec[w] = << >>
  /\ ~ InCall(w) /\ Done(w) > 0 /\ script[Done(w)] = "runJobs" => jobvec[w] = << >>
  /\ Keeps(w) => \A i \in 1 .. Len(made[w]) :
       (\A o \in made[w][i].job + 1 .. Done(w) : script[o] # "runJobs") => i > Kept(w)

\* Jobs run in the order of their ids, each at most once.
RanInv(w) ==
  /\ \A i \in 1 .. Len(ran[w]) : ran[w][i] < jobcounter[w]
  /\ \A i, j \in 1 .. Len(ran[w]) : i < j => ran[w][i] < ran[w][j]
  /\ pc[w] # "joining" =>
       \A i \in 1 .. Len(ran[w]), j \in 1 .. Len(jobvec[w]) : ran[w][i] < jobvec[w][j].id

\* a has begun an operation with jobs, and b hasn't yet.
Ahead(a, b) == pc[a] = "creating" /\ Begun(b) <= Done(a)

\* Ids from counter on belong to a's part of n jobs, or to its one of a job per world.
IdsFrom(a, counter) ==
  /\ Operation(a) = "addJobPerWorld" =>
       /\ jobcounter[a] = counter + swcount
       /\ \A i \in 1 .. Len(made[a]) : made[a][i].id >= counter => made[a][i].id = counter + a
  /\ Operation(a) = "runJobs" =>
       \A n \in 0 .. Done(a) : Submitted(Done(a), n) =>
         /\ jobcounter[a] = counter + n
         /\ \A i \in 1 .. Len(made[a]) :
              made[a][i].id >= counter => InBlock(a, n, made[a][i].id - counter + 1)

IdsInv(a, b) ==
  /\ Ahead(a, b) => IdsFrom(a, jobcounter[b])
  /\ ~ Ahead(a, b) /\ ~ Ahead(b, a) => jobcounter[a] = jobcounter[b]
  /\ \A i \in 1 .. Len(made[a]), j \in 1 .. Len(made[b]) :
       made[a][i].id = made[b][j].id => a = b /\ i = j

-----------------------------------------------------------------------------
(* What an operation that succeeds has done on every world                 *)

\* u has made all its jobs in the operation at place p.
Complete(u, p) ==
  /\ script[p] = "addJobPerWorld" => MadeFor(p, u) # {}
  /\ script[p] = "runJobs" => \A n \in 0 .. p - 1 : Submitted(p - 1, n) =>
       \A j \in 1 .. n : InBlock(u, n, j) => MadeFor(p - n + j - 1, u) # {}

\* u has run all jobs that wait for the operation at place p.
AllRan(u, p) == \A i \in 1 .. Len(made[u]) : RunBy(made[u][i].job, p) => HasRun(u, i)

Brings0(w) == brought[w][Brought(w)].value = 0

SuccessInv(w) ==
  /\ pc[w] \in {"creating", "checking"} /\ Brings0(w) => Complete(w, Place(w))
  /\ pc[w] \in {"synchronising", "joining", "comparing"} =>
       \A u \in Worlds : Complete(u, Place(w))
  /\ pc[w] = "joining" /\ Brings0(w) => AllRan(w, Place(w))
  /\ pc[w] = "comparing" /\ mres[w] = 0 => \A u \in Worlds : AllRan(u, Place(w))
  /\ \A p \in 1 .. Done(w) : outcomes[w][p] = "returned" =>
       \A u \in Worlds : Complete(u, p) /\ (script[p] = "runJobs" => AllRan(u, p))

NeverMixed ==
  \A p \in 2 .. Len(script) : script[p] = "addJobPerWorld" => script[p - 1] # "addJob"

\* The invariant, proved in SplitWorldProofs
IInv ==
  /\ Types
  /\ ControlInv
  /\ \A w \in Worlds : PendingInv(w) /\ JobsInv(w) /\ RanInv(w) /\ SuccessInv(w)
  /\ \A a, b \in Worlds : IdsInv(a, b)
  /\ ~ MixesJobs => NeverMixed
=============================================================================
