-------------------------- MODULE SplitWorldProofs --------------------------
(***************************************************************************)
(* Proofs about SplitWorld, for any number of worlds and any script: the   *)
(* worlds make the same collective calls and every operation ends in the   *)
(* same way on all of them; jobs have ids of their own, and a job that was *)
(* submitted is run once, by the next runJobs that returns.                *)
(***************************************************************************)
EXTENDS SplitWorldInvariant, SequenceTheorems, WellFoundedInduction, TLAPS

BroughtCalls == [kind : {"check", "ship", "synch", "compare"}, value : 0 .. 4]

-----------------------------------------------------------------------------
(* Sequences                                                               *)

\* Appending to a list keeps what is in it and adds one at the end.
LEMMA AppendFacts ==
  ASSUME NEW S, NEW s \in Seq(S), NEW x \in S
  PROVE  /\ Append(s, x) \in Seq(S)
         /\ Len(s) \in Nat /\ Len(Append(s, x)) = Len(s) + 1
         /\ \A i \in 1 .. Len(s) : Append(s, x)[i] = s[i]
         /\ Append(s, x)[Len(s) + 1] = x
  OBVIOUS

\* What one world appends leaves the sequences of the others alone.
LEMMA AppendedOn ==
  ASSUME NEW S, NEW f \in [Worlds -> Seq(S)], NEW w \in Worlds, NEW x \in S,
         NEW g, g = [f EXCEPT ![w] = Append(@, x)]
  PROVE  /\ g \in [Worlds -> Seq(S)]
         /\ Len(f[w]) \in Nat /\ Len(g[w]) = Len(f[w]) + 1
         /\ \A i \in 1 .. Len(f[w]) : g[w][i] = f[w][i]
         /\ g[w][Len(f[w]) + 1] = x
         /\ \A u \in Worlds \ {w} : g[u] = f[u]
<1>1. f[w] \in Seq(S) /\ g[w] = Append(f[w], x)
  OBVIOUS
<1>2. g \in [Worlds -> Seq(S)]
  BY <1>1, AppendFacts
<1> QED BY <1>1, <1>2, AppendFacts

-----------------------------------------------------------------------------
(* What a step of a world does to where it is                              *)

\* w finds op at its place of the script, or puts it there.
Reads(w, op) ==
  \/ Place(w) <= Len(script) /\ script[Place(w)] = op /\ script' = script
  \/ Place(w) > Len(script) /\ Place(w) <= MaxOps /\ script' = Append(script, op)

Submits(w) ==
  /\ ~ InCall(w) /\ Reads(w, "addJob")
  /\ outcomes' = [outcomes EXCEPT ![w] = Append(@, "returned")]
  /\ UNCHANGED <<pc, mres, brought, took>>

Begins(w) ==
  /\ ~ InCall(w) /\ \E op \in {"addJobPerWorld", "runJobs"} : Reads(w, op)
  /\ pc' = [pc EXCEPT ![w] = "creating"]
  /\ \E x \in 0 .. 4 : Brings(w, "check", x)
  /\ mres' \in [Worlds -> 0 .. 4] /\ \A u \in Worlds \ {w} : mres'[u] = mres[u]
  /\ UNCHANGED <<took, outcomes>>

\* w leaves its call with the result m, for the next stage or the end of the operation.
Leaves(w, m, stage) ==
  /\ InCall(w) /\ Takes(w, m)
  /\ IF stage \in Outcomes
     THEN Ends(w, stage) /\ UNCHANGED brought
     ELSE /\ pc' = [pc EXCEPT ![w] = stage]
          /\ \E x \in 0 .. 4 : Brings(w, KindOf[stage], x)
          /\ UNCHANGED outcomes
  /\ stage = "comparing" => mres'[w] = m
  /\ mres' \in [Worlds -> 0 .. 4] /\ \A u \in Worlds \ {w} : mres'[u] = mres[u]
  /\ UNCHANGED script

Moves(w) ==
  \/ Submits(w)
  \/ Begins(w)
  \/ \E m \in 0 .. 4 : Leaves(w, m, After(pc[w], Operation(w), mres[w], m))

\* After a stage comes a stage or the end of the operation.
LEMMA StageAfter ==
  ASSUME NEW stage \in Stages, NEW op, NEW worst, NEW m
  PROVE  After(stage, op, worst, m) \in Stages \cup Outcomes
  BY DEF After, Stages, Outcomes

\* Every step of a world submits a job, begins an operation, or leaves the
\* stage it is in for the one the result of its collective call decides.
LEMMA WorldMoves ==
  ASSUME Types, ControlInv, NEW w \in Worlds, World(w)
  PROVE  Moves(w)
<1>t. /\ mres \in [Worlds -> 0 .. 4] /\ mres[w] \in 0 .. 4
      /\ pc \in [Worlds -> Stages \cup {"script"}]
      /\ brought \in [Worlds -> Seq(BroughtCalls)] /\ brought[w] \in Seq(BroughtCalls)
  BY DEF Types, BroughtCalls
<1>w. WorldInv(w)
  BY DEF ControlInv
<1>r. ASSUME NEW op, Does(w, op) PROVE ~ InCall(w) /\ Reads(w, op)
  <2>1. Place(w) \in Nat /\ Len(script) \in Nat
    BY DEF Types, Place
  <2> QED BY <1>r, <2>1 DEF Does, InCall, Reads
<1>1. CASE AddJob(w)
  <2>1. ~ InCall(w) /\ Reads(w, "addJob")
    BY <1>1, <1>r DEF AddJob
  <2>2. pc' = pc
    BY <1>1, <1>t DEF AddJob, Ends, Does
  <2> QED BY <1>1, <2>1, <2>2 DEF AddJob, Ends, Moves, Submits
<1>2. ASSUME NEW e \in 0 .. 1, AddJobPerWorld(w, e) PROVE Moves(w)
  <2>1. ~ InCall(w) /\ Reads(w, "addJobPerWorld") /\ e \in 0 .. 4
    BY <1>2, <1>r DEF AddJobPerWorld
  <2> QED BY <1>2, <1>t, <2>1 DEF AddJobPerWorld, Moves, Begins
<1>3. ASSUME NEW n \in 0 .. Len(script), RunJobs(w, n) PROVE Moves(w)
  <2>1. ~ InCall(w) /\ Reads(w, "runJobs")
    BY <1>3, <1>r DEF RunJobs
  <2>2. \E x \in 0 .. 4 : Brings(w, "check", x)
    <3> DEFINE x == IF n < Len(Share(w)) THEN 1 ELSE 0
    <3>1. x \in 0 .. 4
      OBVIOUS
    <3> QED BY <1>3, <3>1 DEF RunJobs
  <2>3. mres' \in [Worlds -> 0 .. 4] /\ \A u \in Worlds \ {w} : mres'[u] = mres[u]
    BY <1>3, <1>t DEF RunJobs
  <2> QED BY <1>3, <2>1, <2>2, <2>3 DEF RunJobs, Moves, Begins
<1>4. CASE CheckAgain(w)
  <2>1. PICK m \in 0 .. 1 : Takes(w, m)
    BY <1>4 DEF CheckAgain
  <2>2. Last(brought[w]).value \in 0 .. 4
    <3>1. brought[w] # << >>
      BY <1>t, <1>w, <1>4 DEF CheckAgain, WorldInv, InCall, Brought, Types
    <3>2. Last(brought[w]) \in BroughtCalls
      BY <1>t, <3>1 DEF Last
    <3> QED BY <3>2 DEF BroughtCalls
  <2>3. After(pc[w], Operation(w), mres[w], m) = "checking" /\ InCall(w) /\ m \in 0 .. 4
    BY <1>4 DEF CheckAgain, After, InCall
  <2>4. "checking" \notin Outcomes /\ KindOf["checking"] = "check"
    BY DEF Outcomes, KindOf, Stages
  <2>5. Leaves(w, m, "checking")
    BY <1>4, <1>t, <2>1, <2>2, <2>3, <2>4 DEF CheckAgain, Leaves
  <2> QED BY <2>3, <2>5 DEF Moves
<1>5. CASE CreationFailed(w)
  <2>1. After(pc[w], Operation(w), mres[w], 1) = "shipping" /\ InCall(w)
    BY <1>5 DEF CreationFailed, After, InCall
  <2>2. "shipping" \notin Outcomes /\ KindOf["shipping"] = "ship"
    BY DEF Outcomes, KindOf, Stages
  <2>3. Leaves(w, 1, "shipping")
    BY <1>5, <1>t, <2>1, <2>2 DEF CreationFailed, Leaves
  <2> QED BY <2>1, <2>3 DEF Moves
<1>6. CASE PerWorldAdded(w)
  <2>1. After(pc[w], Operation(w), mres[w], 0) = "returned" /\ InCall(w)
    BY <1>6 DEF PerWorldAdded, After, InCall
  <2>2. Leaves(w, 0, "returned")
    BY <1>6, <1>t, <2>1 DEF PerWorldAdded, Leaves, Outcomes
  <2> QED BY <2>1, <2>2 DEF Moves
<1>7. ASSUME NEW e \in 0 .. 1, Synchronise(w, e) PROVE Moves(w)
  <2>1. After(pc[w], Operation(w), mres[w], 0) = "synchronising" /\ InCall(w) /\ e \in 0 .. 4
    BY <1>7 DEF Synchronise, After, InCall
  <2>2. "synchronising" \notin Outcomes /\ KindOf["synchronising"] = "synch"
    BY DEF Outcomes, KindOf, Stages
  <2>3. Leaves(w, 0, "synchronising")
    BY <1>7, <1>t, <2>1, <2>2 DEF Synchronise, Leaves
  <2> QED BY <2>1, <2>3 DEF Moves
<1>j. "joining" \notin Outcomes /\ KindOf["joining"] = "check"
  BY DEF Outcomes, KindOf, Stages
<1>8. CASE SynchFailed(w)
  <2>1. After(pc[w], Operation(w), mres[w], 1) = "joining" /\ InCall(w)
    BY <1>8 DEF SynchFailed, After, InCall
  <2>3. Leaves(w, 1, "joining")
    BY <1>8, <1>t, <2>1, <1>j DEF SynchFailed, Leaves
  <2> QED BY <2>1, <2>3 DEF Moves
<1>9. ASSUME NEW n \in 0 .. Len(script), NEW r \in 0 .. 4, Work(w, n, r) PROVE Moves(w)
  <2>1. After(pc[w], Operation(w), mres[w], 0) = "joining" /\ InCall(w)
    BY <1>9 DEF Work, After, InCall
  <2>3. Leaves(w, 0, "joining")
    BY <1>9, <1>t, <2>1, <1>j DEF Work, Leaves
  <2> QED BY <2>1, <2>3 DEF Moves
<1>10. ASSUME NEW e \in 0 .. 1, Compare(w, e) PROVE Moves(w)
  <2>1. PICK m \in 0 .. 4 : Takes(w, m) /\ mres' = [mres EXCEPT ![w] = m]
    BY <1>10 DEF Compare
  <2>2. After(pc[w], Operation(w), mres[w], m) = "comparing" /\ InCall(w) /\ e \in 0 .. 4
    BY <1>10 DEF Compare, After, InCall
  <2>3. "comparing" \notin Outcomes /\ KindOf["comparing"] = "compare"
    BY DEF Outcomes, KindOf, Stages
  <2>4. Leaves(w, m, "comparing")
    BY <1>10, <1>t, <2>1, <2>2, <2>3 DEF Compare, Leaves
  <2> QED BY <2>2, <2>4 DEF Moves
<1>11. CASE EndRunJobs(w)
  <2>1. PICK m \in 0 .. 1 :
           /\ Takes(w, m)
           /\ m = 1 \/ mres[w] # 3
           /\ mres' = IF m = 1 THEN [mres EXCEPT ![w] = 4] ELSE mres
           /\ IF mres'[w] = 0
              THEN Ends(w, "returned") /\ UNCHANGED <<create, jobvec>>
              ELSE Ends(w, "raised") /\ ClearJobs(w) /\ ClearPendingJobs(w)
    BY <1>11 DEF EndRunJobs
  <2> DEFINE how == IF m = 1 THEN "raised" ELSE IF mres[w] = 0 THEN "returned" ELSE "raised"
  <2>2. After(pc[w], Operation(w), mres[w], m) = how /\ InCall(w) /\ m \in 0 .. 4
    BY <1>11, <2>1 DEF EndRunJobs, After, InCall
  <2>3. how \in Outcomes /\ how # "comparing"
    BY DEF Outcomes
  <2>4. mres' \in [Worlds -> 0 .. 4] /\ (\A u \in Worlds \ {w} : mres'[u] = mres[u])
        /\ Ends(w, how)
    BY <1>t, <2>1
  <2>5. Leaves(w, m, how)
    BY <1>11, <2>1, <2>2, <2>3, <2>4 DEF EndRunJobs, Leaves
  <2> QED BY <2>2, <2>5 DEF Moves
<1>12. CASE JobRaised(w)
  <2>1. After(pc[w], Operation(w), mres[w], 0) = "shipping" /\ InCall(w)
    BY <1>12 DEF JobRaised, After, InCall
  <2>2. "shipping" \notin Outcomes /\ KindOf["shipping"] = "ship"
    BY DEF Outcomes, KindOf, Stages
  <2>3. Leaves(w, 0, "shipping")
    BY <1>12, <1>t, <2>1, <2>2 DEF JobRaised, Leaves
  <2> QED BY <2>1, <2>3 DEF Moves
<1>13. CASE Shipped(w)
  <2>1. After(pc[w], Operation(w), mres[w], 0) = "raised" /\ InCall(w)
    BY <1>13 DEF Shipped, After, InCall
  <2>2. Leaves(w, 0, "raised")
    BY <1>13, <1>t, <2>1 DEF Shipped, Leaves, Outcomes
  <2> QED BY <2>1, <2>2 DEF Moves
<1> QED
  BY <1>1, <1>2, <1>3, <1>4, <1>5, <1>6, <1>7, <1>8, <1>9, <1>10, <1>11, <1>12, <1>13 DEF World

-----------------------------------------------------------------------------
(* Control                                                                 *)

\* Where a world is in the script, and which operation it is in.
LEMMA Positions ==
  ASSUME Types, ControlInv, NEW w \in Worlds
  PROVE  /\ Done(w) \in Nat /\ Brought(w) \in Nat /\ took[w] \in Nat /\ Len(script) \in Nat
         /\ Place(w) = Done(w) + 1 /\ WorldInv(w)
         /\ InCall(w) => pc[w] \in Stages /\ Done(w) + 1 <= Len(script)
         /\ Done(w) <= Len(script)
         /\ Operation(w) = script[Done(w) + 1]
<1>1. Done(w) \in Nat /\ Brought(w) \in Nat /\ took[w] \in Nat /\ Len(script) \in Nat
  BY DEF Types, Done, Brought
<1>2. WorldInv(w)
  BY DEF ControlInv
<1>3. Place(w) = Done(w) + 1
  BY DEF Place, Done
<1>4. InCall(w) => pc[w] \in Stages
  BY DEF InCall, Types
<1>5. /\ Begun(w) <= Len(script) /\ (InCall(w) => Begun(w) = Done(w) + 1)
      /\ ~ InCall(w) => Begun(w) = Done(w)
  BY <1>2 DEF WorldInv, Begun
<1>6. Operation(w) = script[Done(w) + 1]
  BY <1>3 DEF Operation
<1> QED BY <1>1, <1>2, <1>3, <1>4, <1>5, <1>6

\* The script is only ever extended, by the operation that was read.
LEMMA ReadsScript ==
  ASSUME Types, ControlInv, NEW w \in Worlds, NEW op \in Operations, Reads(w, op)
  PROVE  /\ script' \in Seq(Operations) /\ Len(script') <= MaxOps
         /\ Len(script') \in Nat /\ Len(script) <= Len(script')
         /\ \A p \in 1 .. Len(script) : script'[p] = script[p]
         /\ Done(w) + 1 <= Len(script') /\ script'[Done(w) + 1] = op
<1>1. Done(w) \in Nat /\ Place(w) = Done(w) + 1 /\ Done(w) <= Len(script)
  BY Positions
<1>2. script \in Seq(Operations) /\ Len(script) <= MaxOps
  BY DEF Types
<1>3. CASE script' = script
  BY <1>1, <1>2, <1>3, BoundAssumption DEF Reads
<1>4. CASE Place(w) > Len(script) /\ Place(w) <= MaxOps /\ script' = Append(script, op)
  <2>1. Len(script') = Len(script) + 1 /\ script' \in Seq(Operations)
        /\ script'[Len(script) + 1] = op /\ \A p \in 1 .. Len(script) : script'[p] = script[p]
    BY <1>2, <1>4, AppendFacts
  <2>2. Done(w) = Len(script)
    BY <1>1, <1>2, <1>4
  <2> QED BY <1>1, <1>2, <1>4, <2>1, <2>2, BoundAssumption
<1> QED BY <1>3, <1>4 DEF Reads

\* Whoever does not move is where it was.
LEMMA OthersStay ==
  ASSUME Types, ControlInv, NEW w \in Worlds, Moves(w)
  PROVE  \A u \in Worlds \ {w} :
           /\ pc'[u] = pc[u] /\ mres'[u] = mres[u] /\ brought'[u] = brought[u]
           /\ took'[u] = took[u] /\ outcomes'[u] = outcomes[u]
<1>1. CASE Submits(w)
  BY <1>1 DEF Submits, Types
<1>2. CASE Begins(w)
  BY <1>2 DEF Begins, Brings, Types
<1>3. ASSUME NEW m, NEW s, Leaves(w, m, s)
      PROVE  \A u \in Worlds \ {w} :
               /\ pc'[u] = pc[u] /\ mres'[u] = mres[u] /\ brought'[u] = brought[u]
               /\ took'[u] = took[u] /\ outcomes'[u] = outcomes[u]
  BY <1>3 DEF Leaves, Brings, Ends, Takes, Types
<1> QED BY <1>1, <1>2, <1>3 DEF Moves

\* A step keeps the script as far as it is known.
LEMMA ScriptGrows ==
  ASSUME Types, ControlInv, NEW w \in Worlds, Moves(w)
  PROVE  /\ script' \in Seq(Operations) /\ Len(script') <= MaxOps
         /\ Len(script') \in Nat /\ Len(script) \in Nat /\ Len(script) <= Len(script')
         /\ \A p \in 1 .. Len(script) : script'[p] = script[p]
<1>1. CASE Submits(w)
  BY <1>1, ReadsScript, Positions DEF Submits, Operations
<1>2. CASE Begins(w)
  BY <1>2, ReadsScript, Positions DEF Begins, Operations
<1>3. CASE script' = script
  BY <1>3 DEF Types
<1> QED BY <1>1, <1>2, <1>3 DEF Moves, Leaves

\* What a world has brought is not changed.
LEMMA BroughtGrows ==
  ASSUME Types, ControlInv, NEW w \in Worlds, Moves(w)
  PROVE  /\ brought' \in [Worlds -> Seq(BroughtCalls)]
         /\ \A u \in Worlds : /\ Len(brought'[u]) \in Nat /\ Brought(u) <= Len(brought'[u])
                              /\ \A k \in 1 .. Brought(u) : brought'[u][k] = brought[u][k]
<1>1. brought \in [Worlds -> Seq(BroughtCalls)]
  BY DEF Types, BroughtCalls
<1>2. ASSUME NEW x \in 0 .. 4, NEW kind \in {"check", "ship", "synch", "compare"},
             Brings(w, kind, x)
      PROVE  /\ brought' \in [Worlds -> Seq(BroughtCalls)]
             /\ \A u \in Worlds : /\ Len(brought'[u]) \in Nat /\ Brought(u) <= Len(brought'[u])
                                  /\ \A k \in 1 .. Brought(u) : brought'[u][k] = brought[u][k]
  <2>1. [kind |-> kind, value |-> x] \in BroughtCalls
    BY DEF BroughtCalls
  <2>2. brought' = [brought EXCEPT ![w] = Append(@, [kind |-> kind, value |-> x])]
    BY <1>2 DEF Brings
  <2>3. /\ brought' \in [Worlds -> Seq(BroughtCalls)]
        /\ Brought(w) \in Nat /\ Len(brought'[w]) = Brought(w) + 1
        /\ \A k \in 1 .. Brought(w) : brought'[w][k] = brought[w][k]
        /\ \A u \in Worlds \ {w} : brought'[u] = brought[u]
    BY <1>1, <2>1, <2>2, AppendedOn DEF Brought
  <2> QED BY <1>1, <2>3 DEF Brought
<1>3. CASE UNCHANGED brought
  BY <1>1, <1>3 DEF Brought
<1>4. \A s \in Stages : KindOf[s] \in {"check", "ship", "synch", "compare"}
  BY DEF KindOf
<1>5. ASSUME NEW m \in 0 .. 4, Leaves(w, m, After(pc[w], Operation(w), mres[w], m))
      PROVE  UNCHANGED brought \/ \E s \in Stages, x \in 0 .. 4 : Brings(w, KindOf[s], x)
  <2>1. pc[w] \in Stages
    BY <1>5, Positions DEF Leaves
  <2> QED BY <1>5, <2>1, StageAfter DEF Leaves
<1>6. CASE Begins(w)
  BY <1>2, <1>6 DEF Begins
<1> QED BY <1>2, <1>3, <1>4, <1>5, <1>6 DEF Moves, Submits

\* So the result of a call that every world has come to doesn't change.
LEMMA ResultStays ==
  ASSUME Types, ControlInv, NEW w \in Worlds, Moves(w),
         NEW k \in Nat \ {0}, \A u \in Worlds : k <= Brought(u)
  PROVE  \A m : Result(k, m)' <=> Result(k, m)
<1>1. \A u \in Worlds : Brought(u)' >= k /\ brought'[u][k] = brought[u][k]
  <2> SUFFICES ASSUME NEW u \in Worlds PROVE Brought(u)' >= k /\ brought'[u][k] = brought[u][k]
    OBVIOUS
  <2>1. Len(brought'[u]) \in Nat /\ Brought(u) <= Len(brought'[u]) /\ Brought(u) \in Nat
        /\ \A i \in 1 .. Brought(u) : brought'[u][i] = brought[u][i]
    BY BroughtGrows, Positions
  <2> QED BY <2>1 DEF Brought
<1> QED BY <1>1 DEF Result

\* A call has one result.
LEMMA OneResult ==
  ASSUME Types, NEW k \in Nat \ {0}, NEW m, NEW n, Result(k, m), Result(k, n)
  PROVE  m = n
<1>1. \A u \in Worlds : brought[u] \in Seq(BroughtCalls) /\ Len(brought[u]) \in Nat
  BY DEF Types, BroughtCalls
<1>2. \A u \in Worlds : brought[u][k].value \in Int
  <2> SUFFICES ASSUME NEW u \in Worlds PROVE brought[u][k].value \in Int
    OBVIOUS
  <2>1. k \in 1 .. Len(brought[u])
    BY <1>1 DEF Result, Brought
  <2>2. brought[u][k] \in BroughtCalls
    BY <1>1, <2>1
  <2> QED BY <2>2 DEF BroughtCalls
<1> QED BY <1>2 DEF Result

\* What each kind of step makes of the numbers that say where w is
LEMMA SubmitsTo ==
  ASSUME Types, ControlInv, NEW w \in Worlds, Submits(w)
  PROVE  /\ ~ InCall(w) /\ ~ InCall(w)' /\ pc' = pc
         /\ Done(w)' = Done(w) + 1 /\ Brought(w)' = Brought(w) /\ took' = took
         /\ brought' = brought
         /\ outcomes'[w][Done(w) + 1] = "returned"
         /\ \A k \in 1 .. Done(w) : outcomes'[w][k] = outcomes[w][k]
         /\ outcomes' \in [Worlds -> Seq(Outcomes)]
         /\ script'[Done(w) + 1] = "addJob" /\ Done(w) + 1 <= Len(script')
<1>1. outcomes \in [Worlds -> Seq(Outcomes)] /\ "returned" \in Outcomes
  BY DEF Types, Outcomes
<1>2. outcomes' = [outcomes EXCEPT ![w] = Append(@, "returned")]
  BY DEF Submits
<1>3. /\ outcomes' \in [Worlds -> Seq(Outcomes)]
      /\ Done(w)' = Done(w) + 1 /\ outcomes'[w][Done(w) + 1] = "returned"
      /\ \A k \in 1 .. Done(w) : outcomes'[w][k] = outcomes[w][k]
  BY <1>1, <1>2, AppendedOn DEF Done
<1>4. script'[Done(w) + 1] = "addJob" /\ Done(w) + 1 <= Len(script')
  BY ReadsScript DEF Submits, Operations
<1> QED BY <1>3, <1>4 DEF Submits, InCall, Brought

\* A world that brings a value to a collective call is one call further.
LEMMA BringsTo ==
  ASSUME Types, NEW w \in Worlds, NEW kind \in {"check", "ship", "synch", "compare"},
         \E x \in 0 .. 4 : Brings(w, kind, x)
  PROVE  /\ Brought(w)' = Brought(w) + 1 /\ Brought(w) \in Nat
         /\ brought'[w][Brought(w) + 1].kind = kind
         /\ \A k \in 1 .. Brought(w) : brought'[w][k] = brought[w][k]
<1>1. PICK x \in 0 .. 4 : Brings(w, kind, x)
  OBVIOUS
<1>2. brought \in [Worlds -> Seq(BroughtCalls)] /\ [kind |-> kind, value |-> x] \in BroughtCalls
  BY DEF Types, BroughtCalls
<1>3. brought' = [brought EXCEPT ![w] = Append(@, [kind |-> kind, value |-> x])]
  BY <1>1 DEF Brings
<1> QED BY <1>2, <1>3, AppendedOn DEF Brought

\* Beginning an operation is bringing a value to its first call.
LEMMA BeginsTo ==
  ASSUME Types, ControlInv, NEW w \in Worlds, Begins(w)
  PROVE  /\ ~ InCall(w) /\ InCall(w)' /\ pc'[w] = "creating"
         /\ Done(w)' = Done(w) /\ Brought(w)' = Brought(w) + 1 /\ took' = took
         /\ outcomes' = outcomes
         /\ brought'[w][Brought(w) + 1].kind = "check"
         /\ \A k \in 1 .. Brought(w) : brought'[w][k] = brought[w][k]
         /\ script'[Done(w) + 1] \in {"addJobPerWorld", "runJobs"}
         /\ Done(w) + 1 <= Len(script')
<1>1. pc'[w] = "creating"
  BY DEF Begins, Types
<1>2. script'[Done(w) + 1] \in {"addJobPerWorld", "runJobs"} /\ Done(w) + 1 <= Len(script')
  BY ReadsScript DEF Begins, Operations
<1> QED BY <1>1, <1>2, BringsTo DEF Begins, InCall, Done

\* w takes its call and brings something to the next.
LEMMA ContinuesTo ==
  ASSUME Types, ControlInv, NEW w \in Worlds, NEW m \in 0 .. 4, NEW s \in Stages, Leaves(w, m, s)
  PROVE  /\ InCall(w) /\ InCall(w)' /\ pc'[w] = s /\ script' = script
         /\ Done(w)' = Done(w) /\ Brought(w)' = Brought(w) + 1 /\ took'[w] = took[w] + 1
         /\ outcomes' = outcomes
         /\ brought'[w][Brought(w) + 1].kind = KindOf[s]
         /\ \A k \in 1 .. Brought(w) : brought'[w][k] = brought[w][k]
         /\ s = "comparing" => mres'[w] = m
         /\ Result(took[w] + 1, m)
<1>1. s \notin Outcomes /\ s # "script" /\ KindOf[s] \in {"check", "ship", "synch", "compare"}
  BY DEF Stages, Outcomes, KindOf
<1>2. /\ pc' = [pc EXCEPT ![w] = s] /\ \E x \in 0 .. 4 : Brings(w, KindOf[s], x)
      /\ outcomes' = outcomes /\ InCall(w) /\ script' = script
      /\ s = "comparing" => mres'[w] = m
  BY <1>1 DEF Leaves
<1>3. pc'[w] = s
  BY <1>2 DEF Types
<1>4. took'[w] = took[w] + 1 /\ Result(took[w] + 1, m)
  BY DEF Leaves, Takes, Types, Result, Brought
<1> QED BY <1>1, <1>2, <1>3, <1>4, BringsTo DEF InCall, Done

\* w takes its call and its operation ends.
LEMMA EndsTo ==
  ASSUME Types, ControlInv, NEW w \in Worlds, NEW m \in 0 .. 4, NEW s \in Outcomes, Leaves(w, m, s)
  PROVE  /\ InCall(w) /\ ~ InCall(w)' /\ pc'[w] = "script" /\ script' = script
         /\ Done(w)' = Done(w) + 1 /\ Brought(w)' = Brought(w) /\ took'[w] = took[w] + 1
         /\ outcomes'[w][Done(w) + 1] = s
         /\ \A k \in 1 .. Done(w) : outcomes'[w][k] = outcomes[w][k]
         /\ outcomes' \in [Worlds -> Seq(Outcomes)]
         /\ brought' = brought
         /\ Result(took[w] + 1, m)
<1>2. /\ pc' = [pc EXCEPT ![w] = "script"] /\ outcomes' = [outcomes EXCEPT ![w] = Append(@, s)]
      /\ brought' = brought /\ InCall(w) /\ script' = script
  BY DEF Leaves, Ends
<1>3. pc'[w] = "script"
  BY <1>2 DEF Types
<1>4. took'[w] = took[w] + 1 /\ Result(took[w] + 1, m)
  BY DEF Leaves, Takes, Types, Result, Brought
<1>5. outcomes \in [Worlds -> Seq(Outcomes)]
  BY DEF Types
<1>6. /\ outcomes' \in [Worlds -> Seq(Outcomes)]
      /\ Done(w)' = Done(w) + 1 /\ outcomes'[w][Done(w) + 1] = s
      /\ \A k \in 1 .. Done(w) : outcomes'[w][k] = outcomes[w][k]
  BY <1>2, <1>5, AppendedOn DEF Done
<1> QED BY <1>2, <1>3, <1>4, <1>6 DEF InCall, Brought

\* A step of w is one of four, which the next lemmas take one after the other.
LEMMA FourMoves ==
  ASSUME Types, ControlInv, NEW w \in Worlds, Moves(w)
  PROVE  \/ Submits(w)
         \/ Begins(w)
         \/ \E m \in 0 .. 4 : LET s == After(pc[w], Operation(w), mres[w], m)
                              IN  Leaves(w, m, s) /\ (s \in Stages \/ s \in Outcomes)
<1>1. ASSUME NEW m \in 0 .. 4, Leaves(w, m, After(pc[w], Operation(w), mres[w], m))
      PROVE  After(pc[w], Operation(w), mres[w], m) \in Stages \cup Outcomes
  <2>1. pc[w] \in Stages
    BY <1>1, Positions DEF Leaves
  <2> QED BY <2>1, StageAfter
<1> QED BY <1>1 DEF Moves

\* Every world stays in a collective call of its operation.
LEMMA WorldKeeps ==
  ASSUME Types, ControlInv, NEW w \in Worlds, Moves(w), NEW u \in Worlds
  PROVE  WorldInv(u)'
<1>p. /\ Done(u) \in Nat /\ Brought(u) \in Nat /\ took[u] \in Nat /\ WorldInv(u)
      /\ InCall(u) => pc[u] \in Stages /\ Done(u) + 1 <= Len(script)
      /\ Done(u) <= Len(script) /\ Operation(u) = script[Done(u) + 1]
  BY Positions
<1>s. /\ Len(script') \in Nat /\ Len(script) \in Nat /\ Len(script) <= Len(script')
      /\ \A p \in 1 .. Len(script) : script'[p] = script[p]
  BY ScriptGrows
<1>o. Operation(u)' = script'[Done(u)' + 1]
  BY DEF Operation, Place, Done
<1>d. \A p \in 1 .. Done(u) : script'[p] = "addJob" => outcomes[u][p] = "returned"
  BY <1>p, <1>s DEF WorldInv
<1>1. CASE u # w
  <2>1. /\ pc'[u] = pc[u] /\ brought'[u] = brought[u] /\ took'[u] = took[u]
        /\ outcomes'[u] = outcomes[u]
    BY <1>1, OthersStay
  <2>2. /\ Done(u)' = Done(u) /\ Brought(u)' = Brought(u) /\ (InCall(u)' <=> InCall(u))
        /\ (InCall(u) => Operation(u)' = Operation(u))
    BY <1>p, <1>s, <1>o, <2>1 DEF Done, Brought, InCall
  <2> QED BY <1>p, <1>s, <1>d, <2>1, <2>2 DEF WorldInv, Begun
<1>2. CASE u = w /\ Submits(w)
  <2>1. /\ ~ InCall(w) /\ ~ InCall(w)' /\ Done(w)' = Done(w) + 1 /\ Brought(w)' = Brought(w)
        /\ took' = took /\ outcomes'[w][Done(w) + 1] = "returned"
        /\ \A k \in 1 .. Done(w) : outcomes'[w][k] = outcomes[w][k]
        /\ Done(w) + 1 <= Len(script')
    BY <1>2, SubmitsTo
  <2>2. \A p \in 1 .. Done(w)' : script'[p] = "addJob" => outcomes'[w][p] = "returned"
    BY <1>p, <1>d, <1>2, <2>1
  <2> QED BY <1>p, <1>2, <2>1, <2>2 DEF WorldInv, Begun
<1>3. CASE u = w /\ Begins(w)
  <2>1. /\ ~ InCall(w) /\ InCall(w)' /\ pc'[w] = "creating"
        /\ Done(w)' = Done(w) /\ Brought(w)' = Brought(w) + 1 /\ took' = took
        /\ outcomes' = outcomes /\ brought'[w][Brought(w) + 1].kind = "check"
        /\ script'[Done(w) + 1] \in {"addJobPerWorld", "runJobs"}
        /\ Done(w) + 1 <= Len(script')
    BY <1>3, BeginsTo
  <2>2. KindOf["creating"] = "check"
    BY DEF KindOf, Stages
  <2> QED BY <1>p, <1>o, <1>d, <1>3, <2>1, <2>2 DEF WorldInv, Begun
<1>4. ASSUME u = w, NEW m \in 0 .. 4, NEW s \in Stages, s = After(pc[w], Operation(w), mres[w], m),
             Leaves(w, m, s)
      PROVE  WorldInv(u)'
  <2>1. /\ InCall(w) /\ InCall(w)' /\ pc'[w] = s /\ script' = script
        /\ Done(w)' = Done(w) /\ Brought(w)' = Brought(w) + 1 /\ took'[w] = took[w] + 1
        /\ outcomes' = outcomes /\ brought'[w][Brought(w) + 1].kind = KindOf[s]
    BY <1>4, ContinuesTo
  <2>2. s \in {"synchronising", "joining", "comparing"} => Operation(w) = "runJobs"
    BY <1>p, <1>4, <2>1 DEF After, WorldInv, Stages
  <2> QED BY <1>p, <1>o, <1>d, <1>4, <2>1, <2>2 DEF WorldInv, Begun
<1>5. ASSUME u = w, NEW m \in 0 .. 4, NEW s \in Outcomes, Leaves(w, m, s)
      PROVE  WorldInv(u)'
  <2>1. /\ InCall(w) /\ ~ InCall(w)' /\ script' = script
        /\ Done(w)' = Done(w) + 1 /\ Brought(w)' = Brought(w) /\ took'[w] = took[w] + 1
        /\ \A k \in 1 .. Done(w) : outcomes'[w][k] = outcomes[w][k]
    BY <1>5, EndsTo
  <2>2. script'[Done(w) + 1] # "addJob"
    BY <1>p, <1>5, <2>1 DEF WorldInv
  <2>3. \A p \in 1 .. Done(w)' : script'[p] = "addJob" => p \in 1 .. Done(w)
    BY <1>p, <1>5, <2>1, <2>2
  <2>4. \A p \in 1 .. Done(w)' : script'[p] = "addJob" => outcomes'[w][p] = "returned"
    BY <1>d, <1>5, <2>1, <2>3
  <2> QED BY <1>p, <1>5, <2>1, <2>4 DEF WorldInv, Begun
<1> QED BY <1>1, <1>2, <1>3, <1>4, <1>5, FourMoves

\* A step of one world leaves the others where they are.
LEMMA OthersPositions ==
  ASSUME Types, ControlInv, NEW w \in Worlds, Moves(w), NEW u \in Worlds \ {w}
  PROVE  /\ Done(u)' = Done(u) /\ Brought(u)' = Brought(u) /\ (InCall(u)' <=> InCall(u))
         /\ pc'[u] = pc[u] /\ mres'[u] = mres[u] /\ brought'[u] = brought[u]
         /\ took'[u] = took[u] /\ outcomes'[u] = outcomes[u]
         /\ InCall(u) => Operation(u)' = Operation(u)
<1>1. /\ pc'[u] = pc[u] /\ mres'[u] = mres[u] /\ brought'[u] = brought[u]
      /\ took'[u] = took[u] /\ outcomes'[u] = outcomes[u]
  BY OthersStay
<1>2. Operation(u)' = script'[Done(u)' + 1] /\ Operation(u) = script[Done(u) + 1]
  BY DEF Operation, Place, Done
<1>3. Done(u)' = Done(u) /\ Brought(u)' = Brought(u) /\ (InCall(u)' <=> InCall(u))
  BY <1>1 DEF Done, Brought, InCall
<1> QED BY <1>1, <1>2, <1>3, Positions, ScriptGrows

\* A range of the script that all worlds know stays as it is.
LEMMA RangeStays ==
  ASSUME Types, ControlInv, NEW w \in Worlds, Moves(w),
         NEW from \in Nat \ {0}, NEW to \in Nat, to <= Len(script)
  PROVE  (\A o \in from .. to : script'[o] = "addJob") <=> OnlyAddsJobs(from, to)
<1>1. \A o \in from .. to : script'[o] = script[o]
  BY ScriptGrows
<1> QED BY <1>1 DEF OnlyAddsJobs

\* A world is abreast of itself.
LEMMA PairSelf ==
  ASSUME Types, ControlInv, NEW w \in Worlds, Moves(w), NEW a \in Worlds
  PROVE  PairInv(a, a)'
<1>1. WorldInv(a)' /\ Len(brought'[a]) \in Nat
  BY WorldKeeps, BroughtGrows
<1>2. Done(a)' \in Nat
  <2>1. CASE Submits(w)
    BY <2>1, SubmitsTo, Positions, OthersPositions
  <2>2. CASE Begins(w)
    BY <2>2, BeginsTo, Positions, OthersPositions
  <2>3. ASSUME NEW m \in 0 .. 4, NEW s \in Stages, Leaves(w, m, s) PROVE Done(a)' \in Nat
    BY <2>3, ContinuesTo, Positions, OthersPositions
  <2>4. ASSUME NEW m \in 0 .. 4, NEW s \in Outcomes, Leaves(w, m, s) PROVE Done(a)' \in Nat
    BY <2>4, EndsTo, Positions, OthersPositions
  <2> QED BY <2>1, <2>2, <2>3, <2>4, FourMoves
<1>3. Abreast(a, a)'
  BY <1>2 DEF Abreast, OnlyAddsJobs
<1>4. took'[a] <= Brought(a)' /\ took'[a] \in Int
  BY <1>1 DEF WorldInv, Brought
<1> QED BY <1>3, <1>4 DEF PairInv

\* A step of a third world leaves two worlds as they stand to each other.
LEMMA PairStays ==
  ASSUME Types, ControlInv, NEW w \in Worlds, Moves(w),
         NEW a \in Worlds \ {w}, NEW b \in Worlds \ {w}
  PROVE  PairInv(a, b)'
<1>1. PairInv(a, b)
  BY DEF ControlInv
<1>a. /\ Done(a)' = Done(a) /\ Brought(a)' = Brought(a) /\ (InCall(a)' <=> InCall(a))
      /\ pc'[a] = pc[a] /\ mres'[a] = mres[a] /\ brought'[a] = brought[a]
      /\ took'[a] = took[a] /\ outcomes'[a] = outcomes[a]
  BY OthersPositions
<1>b. /\ Done(b)' = Done(b) /\ Brought(b)' = Brought(b) /\ (InCall(b)' <=> InCall(b))
      /\ pc'[b] = pc[b] /\ mres'[b] = mres[b] /\ brought'[b] = brought[b]
      /\ took'[b] = took[b] /\ outcomes'[b] = outcomes[b]
      /\ InCall(b) => Operation(b)' = Operation(b)
  BY OthersPositions
<1>p. /\ Done(a) \in Nat /\ Done(b) \in Nat /\ Done(a) <= Len(script) /\ Len(script) \in Nat
      /\ took[a] \in Nat /\ took[b] \in Nat /\ Brought(b) \in Nat /\ Brought(a) \in Nat
      /\ WorldInv(b)
  BY Positions
<1>2. Abreast(a, b) => Abreast(a, b)'
  <2>1. OnlyAddsJobs(Done(b) + 1, Done(a))' <=> OnlyAddsJobs(Done(b) + 1, Done(a))
    <3>1. Done(b) + 1 \in Nat \ {0} /\ Done(a) \in Nat /\ Done(a) <= Len(script)
      BY <1>p
    <3>2. (\A o \in Done(b) + 1 .. Done(a) : script'[o] = "addJob")
            <=> OnlyAddsJobs(Done(b) + 1, Done(a))
      BY <3>1, RangeStays
    <3> QED BY <1>a, <1>b, <3>2 DEF OnlyAddsJobs
  <2> QED BY <1>a, <1>b, <2>1 DEF Abreast
<1>3. ASSUME took[a] > took[b], NEW m \in 0 .. 4, Result(took[a], m)' PROVE Follows(a, b, m)'
  <2>1. \A u \in Worlds : took[a] <= Brought(u)
    BY DEF ControlInv, PairInv
  <2>2. Result(took[a], m)
    <3>1. PICK k \in Nat \ {0} : k = took[a] /\ took'[a] = k
      BY <1>3, <1>a, <1>p
    <3>2. Result(k, m)'
      BY <1>3, <3>1 DEF Result
    <3>3. Result(k, m)
      BY <2>1, <3>1, <3>2, ResultStays
    <3> QED BY <3>1, <3>3
  <2>3. Follows(a, b, m) /\ InCall(b)
    <3>1. took[b] # Brought(b)
      BY <1>1, <1>3, <1>p DEF PairInv
    <3> QED BY <1>1, <1>3, <1>p, <2>2, <3>1 DEF PairInv, WorldInv
  <2>4. OnlyAddsJobs(Done(b) + 2, Done(a))' <=> OnlyAddsJobs(Done(b) + 2, Done(a))
    <3>1. Done(b) + 2 \in Nat \ {0} /\ Done(a) \in Nat /\ Done(a) <= Len(script)
      BY <1>p
    <3>2. (\A o \in Done(b) + 2 .. Done(a) : script'[o] = "addJob")
            <=> OnlyAddsJobs(Done(b) + 2, Done(a))
      BY <3>1, RangeStays
    <3> QED BY <1>a, <1>b, <3>2 DEF OnlyAddsJobs
  <2> QED BY <1>a, <1>b, <2>3, <2>4 DEF Follows, Beyond, Within
<1>4. took'[a] <= Brought(b)'
  BY <1>1, <1>a, <1>b DEF PairInv
<1> QED BY <1>1, <1>2, <1>3, <1>4, <1>a, <1>b DEF PairInv

\* What the relations between w and another world say when w is in no call
LEMMA FreeWorld ==
  ASSUME Types, ControlInv, NEW w \in Worlds, ~ InCall(w), NEW b \in Worlds
  PROVE  /\ took[w] = Brought(w) /\ took[b] <= took[w]
         /\ took[b] = took[w] => Abreast(w, b) /\ Abreast(b, w)
         /\ took[b] < took[w] => InCall(b) /\ Brought(b) = took[w]
         /\ \A m \in 0 .. 4 : took[b] < took[w] /\ Result(took[w], m) =>
              Follows(w, b, m) /\ After(pc[b], Operation(b), mres[b], m) \in Outcomes
<1>1. PairInv(w, b) /\ PairInv(b, w) /\ WorldInv(w) /\ WorldInv(b)
  BY DEF ControlInv
<1>2. /\ took[b] \in Nat /\ took[w] \in Nat /\ Brought(b) \in Nat /\ Brought(w) \in Nat
      /\ InCall(b) => pc[b] \in Stages
  BY Positions
<1>3. took[w] = Brought(w) /\ took[b] <= took[w]
  BY <1>1 DEF WorldInv, PairInv
<1>4. took[b] < took[w] => InCall(b) /\ Brought(b) = took[w]
  BY <1>1, <1>2 DEF PairInv, WorldInv
<1>5. ASSUME NEW m \in 0 .. 4, took[b] < took[w], Result(took[w], m)
      PROVE  Follows(w, b, m) /\ After(pc[b], Operation(b), mres[b], m) \in Outcomes
  <2>1. Follows(w, b, m)
    BY <1>1, <1>2, <1>5 DEF PairInv
  <2>2. After(pc[b], Operation(b), mres[b], m) \in Stages \cup Outcomes
    BY <1>2, <1>4, <1>5, StageAfter
  <2>3. pc[w] \notin Stages
    BY DEF InCall, Stages
  <2> QED BY <2>1, <2>2, <2>3 DEF Follows, Within
<1> QED BY <1>1, <1>2, <1>3, <1>4, <1>5 DEF PairInv

\* addJob, which calls nobody, leaves a world as it stands to the others.
LEMMA PairSubmits ==
  ASSUME Types, ControlInv, NEW w \in Worlds, Submits(w), NEW b \in Worlds \ {w}
  PROVE  PairInv(w, b)' /\ PairInv(b, w)'
<1>m. Moves(w)
  BY DEF Moves
<1>w. /\ ~ InCall(w) /\ ~ InCall(w)' /\ pc' = pc
      /\ Done(w)' = Done(w) + 1 /\ Brought(w)' = Brought(w) /\ took' = took
      /\ brought' = brought
      /\ outcomes'[w][Done(w) + 1] = "returned"
      /\ \A k \in 1 .. Done(w) : outcomes'[w][k] = outcomes[w][k]
      /\ script'[Done(w) + 1] = "addJob" /\ Done(w) + 1 <= Len(script')
  BY SubmitsTo
<1>b. /\ Done(b)' = Done(b) /\ Brought(b)' = Brought(b) /\ (InCall(b)' <=> InCall(b))
      /\ mres'[b] = mres[b] /\ outcomes'[b] = outcomes[b]
      /\ InCall(b) => Operation(b)' = Operation(b)
  BY <1>m, OthersPositions
<1>p. /\ Done(w) \in Nat /\ Done(b) \in Nat /\ Done(w) <= Len(script) /\ Done(b) <= Len(script)
      /\ Len(script) \in Nat
      /\ took[w] \in Nat /\ took[b] \in Nat /\ Brought(b) \in Nat /\ Brought(w) \in Nat
      /\ WorldInv(b) /\ Operation(b) = script[Done(b) + 1]
      /\ InCall(b) => Done(b) + 1 <= Len(script)
  BY Positions
<1>i. PairInv(w, b) /\ PairInv(b, w)
  BY DEF ControlInv
<1>s. \A p \in 1 .. Len(script) : script'[p] = script[p]
  BY <1>m, ScriptGrows
<1>f. /\ took[b] <= took[w]
      /\ took[b] = took[w] => Abreast(w, b) /\ Abreast(b, w)
      /\ took[b] < took[w] => InCall(b) /\ Brought(b) = took[w]
      /\ \A m \in 0 .. 4 : took[b] < took[w] /\ Result(took[w], m) =>
           Follows(w, b, m) /\ After(pc[b], Operation(b), mres[b], m) \in Outcomes
  BY <1>w, FreeWorld
\* What b has beyond w is after the job that w submits.
<1>1. Done(b) > Done(w) => outcomes[b][Done(w) + 1] = "returned"
  BY <1>p, <1>s, <1>w DEF WorldInv, Begun
<1>2. ASSUME took[b] = took[w] PROVE Abreast(w, b)' /\ Abreast(b, w)'
  <2>1. OnlyAddsJobs(Done(b) + 1, Done(w)) /\ OnlyAddsJobs(Done(w) + 1, Done(b))
    BY <1>2, <1>f DEF Abreast
  <2>2. \A o \in Done(b) + 1 .. Done(w) + 1 : script'[o] = "addJob"
    <3>1. \A o \in Done(b) + 1 .. Done(w) : script'[o] = "addJob"
      BY <1>m, <1>p, <2>1, RangeStays
    <3>2. \A o \in Done(b) + 1 .. Done(w) + 1 : o \in Done(b) + 1 .. Done(w) \/ o = Done(w) + 1
      BY <1>p
    <3> QED BY <1>w, <3>1, <3>2
  <2>3. \A o \in Done(w) + 2 .. Done(b) : script'[o] = "addJob"
    BY <1>p, <1>s, <1>w, <2>1 DEF OnlyAddsJobs
  <2>4. InCall(b) => pc[b] = "creating" /\ Done(w) <= Done(b) /\ Done(w) # Done(b)
    <3>1. InCall(b) => Operation(b) # "addJob"
      BY <1>p DEF WorldInv
    <3>2. Done(w) = Done(b) /\ InCall(b) => script[Done(b) + 1] = "addJob"
      BY <1>p, <1>s, <1>w
    <3> QED BY <1>2, <1>f, <1>w, <1>p, <3>1, <3>2 DEF Abreast
  <2> QED BY <1>w, <1>b, <1>p, <2>2, <2>3, <2>4 DEF Abreast, OnlyAddsJobs
<1>3. ASSUME NEW m \in 0 .. 4, took[b] < took[w], Result(took[w], m)' PROVE Follows(w, b, m)'
  <2>1. Result(took[w], m)
    BY <1>w, <1>3 DEF Result, Brought
  <2>2. Follows(w, b, m) /\ After(pc[b], Operation(b), mres[b], m) \in Outcomes /\ InCall(b)
    BY <1>3, <1>f, <2>1
  <2>3. Beyond(w, b, After(pc[b], Operation(b), mres[b], m))
    BY <2>2 DEF Follows
  <2>4. \A o \in Done(b) + 2 .. Done(w) + 1 : script'[o] = "addJob"
    <3>1. \A o \in Done(b) + 2 .. Done(w) : script'[o] = "addJob"
      BY <1>m, <1>p, <2>3, RangeStays DEF Beyond
    <3>2. \A o \in Done(b) + 2 .. Done(w) + 1 : o \in Done(b) + 2 .. Done(w) \/ o = Done(w) + 1
      BY <1>p
    <3> QED BY <1>w, <3>1, <3>2
  <2>5. Beyond(w, b, After(pc[b], Operation(b), mres[b], m))'
    BY <1>w, <1>b, <1>p, <2>2, <2>3, <2>4 DEF Beyond, OnlyAddsJobs
  <2> QED BY <1>w, <1>b, <2>2, <2>5 DEF Follows
<1>4. \A k \in 1 .. Done(w)' : k <= Done(b)' => outcomes'[w][k] = outcomes'[b][k]
  BY <1>w, <1>b, <1>p, <1>i, <1>1 DEF PairInv
<1>5. \A k \in 1 .. Done(b)' : k <= Done(w)' => outcomes'[w][k] = outcomes'[b][k]
  BY <1>w, <1>b, <1>p, <1>4
<1>6. took'[w] <= Brought(b)' /\ took'[b] <= Brought(w)'
  BY <1>w, <1>b, <1>i DEF PairInv
<1>7. /\ \A k \in 1 .. Brought(w)' : k <= Brought(b)' => brought'[w][k].kind = brought'[b][k].kind
      /\ \A k \in 1 .. Brought(b)' : k <= Brought(w)' => brought'[b][k].kind = brought'[w][k].kind
  BY <1>w, <1>b, <1>i DEF PairInv
<1> QED BY <1>w, <1>f, <1>p, <1>2, <1>3, <1>4, <1>5, <1>6, <1>7 DEF PairInv

\* So does the beginning of an operation: nobody is more than one call behind.
LEMMA PairBegins ==
  ASSUME Types, ControlInv, NEW w \in Worlds, Begins(w), NEW b \in Worlds \ {w}
  PROVE  PairInv(w, b)' /\ PairInv(b, w)'
<1>m. Moves(w)
  BY DEF Moves
<1>w. /\ ~ InCall(w) /\ InCall(w)' /\ pc'[w] = "creating"
      /\ Done(w)' = Done(w) /\ Brought(w)' = Brought(w) + 1 /\ took' = took
      /\ outcomes' = outcomes
      /\ brought'[w][Brought(w) + 1].kind = "check"
      /\ \A k \in 1 .. Brought(w) : brought'[w][k] = brought[w][k]
      /\ script'[Done(w) + 1] \in {"addJobPerWorld", "runJobs"}
      /\ Done(w) + 1 <= Len(script')
  BY BeginsTo
<1>b. /\ Done(b)' = Done(b) /\ Brought(b)' = Brought(b) /\ (InCall(b)' <=> InCall(b))
      /\ pc'[b] = pc[b] /\ mres'[b] = mres[b] /\ brought'[b] = brought[b]
      /\ took'[b] = took[b] /\ outcomes'[b] = outcomes[b]
      /\ InCall(b) => Operation(b)' = Operation(b)
  BY <1>m, OthersPositions
<1>p. /\ Done(w) \in Nat /\ Done(b) \in Nat /\ Done(w) <= Len(script) /\ Done(b) <= Len(script)
      /\ Len(script) \in Nat
      /\ took[w] \in Nat /\ took[b] \in Nat /\ Brought(b) \in Nat /\ Brought(w) \in Nat
      /\ WorldInv(b)
  BY Positions
<1>i. PairInv(w, b) /\ PairInv(b, w)
  BY DEF ControlInv
<1>s. \A p \in 1 .. Len(script) : script'[p] = script[p]
  BY <1>m, ScriptGrows
<1>f. /\ took[w] = Brought(w) /\ took[b] <= took[w]
      /\ took[b] = took[w] => Abreast(w, b) /\ Abreast(b, w)
      /\ took[b] < took[w] => InCall(b) /\ Brought(b) = took[w]
      /\ \A m \in 0 .. 4 : took[b] < took[w] /\ Result(took[w], m) =>
           Follows(w, b, m) /\ After(pc[b], Operation(b), mres[b], m) \in Outcomes
  BY <1>w, FreeWorld
<1>2. ASSUME took[b] = took[w]
      PROVE  /\ Abreast(w, b)' /\ Abreast(b, w)'
             /\ Brought(b) <= Brought(w) + 1
             /\ Brought(b) = Brought(w) + 1 => brought[b][Brought(b)].kind = "check"
  <2>1. /\ OnlyAddsJobs(Done(b) + 1, Done(w)) /\ OnlyAddsJobs(Done(w) + 1, Done(b))
        /\ InCall(b) => pc[b] = "creating" /\ Done(w) <= Done(b)
    BY <1>2, <1>f, <1>w DEF Abreast
  <2>2. /\ \A o \in Done(b) + 1 .. Done(w) : script'[o] = "addJob"
        /\ \A o \in Done(w) + 1 .. Done(b) : script'[o] = "addJob"
    BY <1>m, <1>p, <2>1, RangeStays
  <2>3. Done(b) <= Done(w)
    BY <1>w, <1>p, <2>2
  <2>4. KindOf["creating"] = "check"
    BY DEF KindOf, Stages
  <2>5. /\ Brought(b) <= Brought(w) + 1
        /\ Brought(b) = Brought(w) + 1 => brought[b][Brought(b)].kind = "check"
    BY <1>2, <1>f, <1>p, <2>1, <2>4 DEF WorldInv
  <2> QED BY <1>w, <1>b, <1>p, <2>1, <2>2, <2>3, <2>5 DEF Abreast, OnlyAddsJobs
<1>3. ASSUME NEW m \in 0 .. 4, took[b] < took[w], Result(took[w], m)' PROVE Follows(w, b, m)'
  <2>1. Result(took[w], m)
    <3>1. PICK k \in Nat \ {0} : k = took[w] /\ took'[w] = k
      BY <1>3, <1>w, <1>p
    <3>2. Result(k, m)'
      BY <1>3, <3>1 DEF Result
    <3>3. \A u \in Worlds : k <= Brought(u)
      BY <3>1 DEF ControlInv, PairInv
    <3> QED BY <1>m, <3>1, <3>2, <3>3, ResultStays
  <2>2. Follows(w, b, m) /\ After(pc[b], Operation(b), mres[b], m) \in Outcomes /\ InCall(b)
    BY <1>3, <1>f, <2>1
  <2>3. Beyond(w, b, After(pc[b], Operation(b), mres[b], m))
    BY <2>2 DEF Follows
  <2>4. \A o \in Done(b) + 2 .. Done(w) : script'[o] = "addJob"
    BY <1>p, <1>s, <1>w, <2>3 DEF OnlyAddsJobs, Beyond
  <2>5. Beyond(w, b, After(pc[b], Operation(b), mres[b], m))'
    BY <1>w, <1>b, <1>p, <2>2, <2>3, <2>4 DEF Beyond, OnlyAddsJobs
  <2> QED BY <1>w, <1>b, <2>2, <2>5 DEF Follows
<1>4. \A k \in 1 .. Brought(w)' : k <= Brought(b)' => brought'[w][k].kind = brought'[b][k].kind
  <2>1. \A k \in 1 .. Brought(w) : k <= Brought(b)' => brought'[w][k].kind = brought'[b][k].kind
    BY <1>w, <1>b, <1>p, <1>i DEF PairInv
  <2>2. Brought(w) + 1 <= Brought(b) => brought[b][Brought(w) + 1].kind = "check"
    BY <1>2, <1>f, <1>p
  <2> QED BY <1>w, <1>b, <1>p, <2>1, <2>2
<1>5. \A k \in 1 .. Brought(b)' : k <= Brought(w)' => brought'[b][k].kind = brought'[w][k].kind
  BY <1>4, <1>w, <1>b, <1>p
<1>6. took'[w] <= Brought(b)' /\ took'[b] <= Brought(w)'
  BY <1>w, <1>b, <1>i, <1>p DEF PairInv
<1>7. /\ \A k \in 1 .. Done(w)' : k <= Done(b)' => outcomes'[w][k] = outcomes'[b][k]
      /\ \A k \in 1 .. Done(b)' : k <= Done(w)' => outcomes'[b][k] = outcomes'[w][k]
  BY <1>w, <1>b, <1>i DEF PairInv
<1> QED BY <1>w, <1>f, <1>p, <1>2, <1>3, <1>4, <1>5, <1>6, <1>7 DEF PairInv

\* A world that takes its call finds every other world in the same call, or one
\* that has taken it and is where w will be.
LEMMA TakerMeets ==
  ASSUME Types, ControlInv, NEW w \in Worlds, InCall(w), NEW m \in 0 .. 4,
         Result(took[w] + 1, m), NEW b \in Worlds
  PROVE  /\ Brought(w) = took[w] + 1
         /\ \/ /\ took[b] = took[w] /\ InCall(b) /\ Brought(b) = took[w] + 1
               /\ Done(b) = Done(w) /\ pc[b] = pc[w] /\ (pc[w] = "comparing" => mres[b] = mres[w])
            \/ took[b] = took[w] + 1 /\ Follows(b, w, m)
<1>1. PairInv(w, b) /\ PairInv(b, w) /\ WorldInv(w) /\ WorldInv(b)
  BY DEF ControlInv
<1>2. took[b] \in Nat /\ took[w] \in Nat /\ Brought(b) \in Nat /\ Brought(w) \in Nat
  BY Positions
<1>3. Brought(b) >= took[w] + 1
  BY DEF Result
<1>4. Brought(w) = took[w] + 1
  BY <1>1, <1>2 DEF WorldInv
<1>5. took[b] = took[w] \/ took[b] = took[w] + 1
  BY <1>1, <1>2, <1>3, <1>4 DEF WorldInv, PairInv
<1>6. took[b] = took[w] => InCall(b) /\ Brought(b) = took[w] + 1
  BY <1>1, <1>2, <1>3 DEF WorldInv
<1>7. took[b] = took[w] + 1 => Follows(b, w, m)
  BY <1>1, <1>2 DEF PairInv
<1>8. took[b] = took[w] => /\ Done(b) = Done(w) /\ pc[b] = pc[w]
                           /\ pc[w] = "comparing" => mres[b] = mres[w]
  BY <1>1, <1>6 DEF PairInv, Abreast
<1> QED BY <1>4, <1>5, <1>6, <1>7, <1>8

\* So does a call's result that leads to the next stage: who is behind will get
\* the same result,
LEMMA PairContinues ==
  ASSUME Types, ControlInv, NEW w \in Worlds, NEW m \in 0 .. 4, NEW s \in Stages,
         s = After(pc[w], Operation(w), mres[w], m), Leaves(w, m, s), NEW b \in Worlds \ {w}
  PROVE  PairInv(w, b)' /\ PairInv(b, w)'
<1>m. Moves(w)
  BY DEF Moves
<1>w. /\ InCall(w) /\ InCall(w)' /\ pc'[w] = s /\ script' = script
      /\ Done(w)' = Done(w) /\ Brought(w)' = Brought(w) + 1 /\ took'[w] = took[w] + 1
      /\ outcomes' = outcomes
      /\ brought'[w][Brought(w) + 1].kind = KindOf[s]
      /\ \A k \in 1 .. Brought(w) : brought'[w][k] = brought[w][k]
      /\ s = "comparing" => mres'[w] = m
      /\ Result(took[w] + 1, m)
  BY ContinuesTo
<1>b. /\ Done(b)' = Done(b) /\ Brought(b)' = Brought(b) /\ (InCall(b)' <=> InCall(b))
      /\ pc'[b] = pc[b] /\ mres'[b] = mres[b] /\ brought'[b] = brought[b]
      /\ took'[b] = took[b] /\ outcomes'[b] = outcomes[b]
      /\ InCall(b) => Operation(b)' = Operation(b)
  BY <1>m, OthersPositions
<1>p. /\ Done(w) \in Nat /\ Done(b) \in Nat
      /\ took[w] \in Nat /\ took[b] \in Nat /\ Brought(b) \in Nat /\ Brought(w) \in Nat
      /\ WorldInv(b) /\ Operation(b) = script[Done(b) + 1] /\ Operation(w) = script[Done(w) + 1]
      /\ pc[w] \in Stages
  BY <1>w, Positions
<1>i. PairInv(w, b) /\ PairInv(b, w)
  BY DEF ControlInv
<1>o. s \notin Outcomes
  BY DEF Stages, Outcomes
<1>f. /\ Brought(w) = took[w] + 1
      /\ \/ /\ took[b] = took[w] /\ InCall(b) /\ Brought(b) = took[w] + 1
            /\ Done(b) = Done(w) /\ pc[b] = pc[w] /\ (pc[w] = "comparing" => mres[b] = mres[w])
         \/ took[b] = took[w] + 1 /\ Follows(b, w, m)
  BY <1>w, TakerMeets
<1>1. /\ took'[w] <= Brought(b)' /\ took'[b] <= Brought(w)'
      /\ \A k \in 1 .. Done(w)' : k <= Done(b)' => outcomes'[w][k] = outcomes'[b][k]
      /\ \A k \in 1 .. Done(b)' : k <= Done(w)' => outcomes'[b][k] = outcomes'[w][k]
  <2>1. Brought(b) >= took[w] + 1
    BY <1>w DEF Result
  <2> QED BY <1>w, <1>b, <1>i, <1>p, <1>f, <2>1 DEF PairInv
<1>k. \A k \in 1 .. Brought(w) : k <= Brought(b)' => brought'[w][k].kind = brought'[b][k].kind
  BY <1>w, <1>b, <1>p, <1>i DEF PairInv
<1>2. CASE took[b] = took[w]
  <2>1. /\ InCall(b) /\ Brought(b) = Brought(w)
        /\ Done(b) = Done(w) /\ pc[b] = pc[w] /\ (pc[w] = "comparing" => mres[b] = mres[w])
    BY <1>f, <1>2, <1>p
  <2>2. /\ \A k \in 1 .. Brought(w)' : k <= Brought(b)' => brought'[w][k].kind = brought'[b][k].kind
        /\ \A k \in 1 .. Brought(b)' : k <= Brought(w)' => brought'[b][k].kind = brought'[w][k].kind
    BY <1>w, <1>b, <1>p, <1>k, <2>1
  <2>3. ASSUME NEW n \in 0 .. 4, Result(took[w], n)' PROVE Follows(w, b, n)'
    <3>1. n = m
      <4>1. PICK k \in Nat \ {0} : k = took[w] + 1 /\ took'[w] = k
        BY <1>w, <1>p
      <4>2. Result(k, n)'
        BY <2>3, <4>1 DEF Result
      <4>3. \A u \in Worlds : k <= Brought(u)
        BY <1>w, <4>1 DEF Result
      <4>4. Result(k, n) /\ Result(k, m)
        BY <1>m, <1>w, <4>1, <4>2, <4>3, ResultStays
      <4> QED BY <4>4, OneResult
    <3>2. Operation(b)' = Operation(w) /\ mres'[b] = mres[b]
      BY <1>b, <1>p, <2>1
    <3>3. After(pc[b], Operation(b), mres[b], m) = s
      BY <1>p, <2>1 DEF After
    <3>4. After(pc[b], Operation(b), mres[b], n)' = s
      BY <1>b, <2>1, <3>1, <3>3 DEF After
    <3> QED BY <1>w, <1>b, <1>o, <2>1, <3>1, <3>4 DEF Follows, Within
  <2> QED BY <1>w, <1>b, <1>p, <1>1, <1>2, <2>2, <2>3 DEF PairInv
<1>3. CASE took[b] = took[w] + 1
  <2>1. Done(b) = Done(w) /\ pc[b] = s /\ (s = "comparing" => mres[b] = m)
    BY <1>f, <1>3, <1>o, <1>p DEF Follows, Within
  <2>2. InCall(b)
    BY <2>1 DEF InCall, Stages
  <2>3. Brought(b) = Brought(w) + 1 /\ brought[b][Brought(b)].kind = KindOf[s]
    BY <1>f, <1>3, <1>p, <2>1, <2>2 DEF WorldInv
  <2>4. /\ \A k \in 1 .. Brought(w)' : k <= Brought(b)' => brought'[w][k].kind = brought'[b][k].kind
        /\ \A k \in 1 .. Brought(b)' : k <= Brought(w)' => brought'[b][k].kind = brought'[w][k].kind
    BY <1>w, <1>b, <1>p, <1>k, <2>3
  <2>5. Abreast(w, b)' /\ Abreast(b, w)'
    BY <1>w, <1>b, <1>p, <2>1, <2>2 DEF Abreast, OnlyAddsJobs
  <2> QED BY <1>w, <1>b, <1>p, <1>1, <1>3, <2>4, <2>5 DEF PairInv
<1> QED BY <1>f, <1>2, <1>3

\* and so does one that ends the operation, in return or in an exception.
LEMMA PairEnds ==
  ASSUME Types, ControlInv, NEW w \in Worlds, NEW m \in 0 .. 4, NEW s \in Outcomes,
         s = After(pc[w], Operation(w), mres[w], m), Leaves(w, m, s), NEW b \in Worlds \ {w}
  PROVE  PairInv(w, b)' /\ PairInv(b, w)'
<1>m. Moves(w)
  BY DEF Moves
<1>w. /\ InCall(w) /\ ~ InCall(w)' /\ pc'[w] = "script" /\ script' = script
      /\ Done(w)' = Done(w) + 1 /\ Brought(w)' = Brought(w) /\ took'[w] = took[w] + 1
      /\ outcomes'[w][Done(w) + 1] = s
      /\ \A k \in 1 .. Done(w) : outcomes'[w][k] = outcomes[w][k]
      /\ brought' = brought
      /\ Result(took[w] + 1, m)
  BY EndsTo
<1>b. /\ Done(b)' = Done(b) /\ Brought(b)' = Brought(b) /\ (InCall(b)' <=> InCall(b))
      /\ pc'[b] = pc[b] /\ mres'[b] = mres[b]
      /\ took'[b] = took[b] /\ outcomes'[b] = outcomes[b]
      /\ InCall(b) => Operation(b)' = Operation(b)
  BY <1>m, OthersPositions
<1>p. /\ Done(w) \in Nat /\ Done(b) \in Nat
      /\ took[w] \in Nat /\ took[b] \in Nat /\ Brought(b) \in Nat /\ Brought(w) \in Nat
      /\ WorldInv(b) /\ Operation(b) = script[Done(b) + 1] /\ Operation(w) = script[Done(w) + 1]
      /\ pc[w] \in Stages
  BY <1>w, Positions
<1>i. PairInv(w, b) /\ PairInv(b, w)
  BY DEF ControlInv
<1>f. /\ Brought(w) = took[w] + 1
      /\ \/ /\ took[b] = took[w] /\ InCall(b) /\ Brought(b) = took[w] + 1
            /\ Done(b) = Done(w) /\ pc[b] = pc[w] /\ (pc[w] = "comparing" => mres[b] = mres[w])
         \/ took[b] = took[w] + 1 /\ Follows(b, w, m)
  BY <1>w, TakerMeets
<1>1. /\ took'[w] <= Brought(b)' /\ took'[b] <= Brought(w)'
      /\ \A k \in 1 .. Brought(w)' : k <= Brought(b)' => brought'[w][k].kind = brought'[b][k].kind
      /\ \A k \in 1 .. Brought(b)' : k <= Brought(w)' => brought'[b][k].kind = brought'[w][k].kind
  <2>1. Brought(b) >= took[w] + 1
    BY <1>w DEF Result
  <2> QED BY <1>w, <1>b, <1>i, <1>p, <1>f, <2>1 DEF PairInv
<1>k. \A k \in 1 .. Done(w) : k <= Done(b)' => outcomes'[w][k] = outcomes'[b][k]
  BY <1>w, <1>b, <1>p, <1>i DEF PairInv
<1>2. CASE took[b] = took[w]
  <2>1. /\ InCall(b) /\ Done(b) = Done(w) /\ pc[b] = pc[w]
        /\ pc[w] = "comparing" => mres[b] = mres[w]
    BY <1>f, <1>2, <1>p
  <2>2. /\ \A k \in 1 .. Done(w)' : k <= Done(b)' => outcomes'[w][k] = outcomes'[b][k]
        /\ \A k \in 1 .. Done(b)' : k <= Done(w)' => outcomes'[b][k] = outcomes'[w][k]
    BY <1>w, <1>b, <1>p, <1>k, <2>1
  <2>3. ASSUME NEW n \in 0 .. 4, Result(took[w], n)' PROVE Follows(w, b, n)'
    <3>1. n = m
      <4>1. PICK k \in Nat \ {0} : k = took[w] + 1 /\ took'[w] = k
        BY <1>w, <1>p
      <4>2. Result(k, n)
        BY <1>w, <2>3, <4>1 DEF Result, Brought
      <4> QED BY <1>w, <4>1, <4>2, OneResult
    <3>3. After(pc[b], Operation(b), mres[b], m) = s
      BY <1>p, <2>1 DEF After
    <3>4. After(pc[b], Operation(b), mres[b], n)' = s
      BY <1>b, <2>1, <3>1, <3>3 DEF After
    <3>5. Beyond(w, b, s)'
      BY <1>w, <1>b, <1>p, <2>1 DEF Beyond, OnlyAddsJobs
    <3> QED BY <3>4, <3>5 DEF Follows
  <2> QED BY <1>w, <1>b, <1>p, <1>1, <1>2, <2>2, <2>3 DEF PairInv
<1>3. CASE took[b] = took[w] + 1
  <2>1. Beyond(b, w, s)
    BY <1>f, <1>3, <1>p DEF Follows
  <2>2. /\ \A k \in 1 .. Done(w)' : k <= Done(b)' => outcomes'[w][k] = outcomes'[b][k]
        /\ \A k \in 1 .. Done(b)' : k <= Done(w)' => outcomes'[b][k] = outcomes'[w][k]
    BY <1>w, <1>b, <1>p, <1>k, <2>1 DEF Beyond
  <2>3. \A o \in Done(w) + 2 .. Done(b) : script'[o] = "addJob"
    BY <1>w, <2>1 DEF Beyond, OnlyAddsJobs
  <2>4. Done(w) + 1 <= Done(b) /\ (InCall(b) => pc[b] = "creating")
    BY <1>p, <2>1 DEF Beyond, InCall
  <2>5. Abreast(w, b)' /\ Abreast(b, w)'
    BY <1>w, <1>b, <1>p, <2>3, <2>4 DEF Abreast, OnlyAddsJobs
  <2> QED BY <1>w, <1>b, <1>p, <1>1, <1>3, <2>2, <2>5 DEF PairInv
<1> QED BY <1>f, <1>2, <1>3

\* Every step keeps the invariant of the collective calls.
LEMMA ControlStep ==
  ASSUME Types, ControlInv, NEW w \in Worlds, Moves(w)
  PROVE  ControlInv'
<1>1. \A u \in Worlds : WorldInv(u)'
  BY WorldKeeps
<1>2. ASSUME NEW b \in Worlds \ {w} PROVE PairInv(w, b)' /\ PairInv(b, w)'
  <2>1. ASSUME NEW m \in 0 .. 4,
               LET s == After(pc[w], Operation(w), mres[w], m)
               IN  Leaves(w, m, s) /\ (s \in Stages \/ s \in Outcomes)
        PROVE  PairInv(w, b)' /\ PairInv(b, w)'
    BY <2>1, PairContinues, PairEnds
  <2> QED BY <2>1, PairSubmits, PairBegins, FourMoves
<1>3. \A a, b \in Worlds : PairInv(a, b)'
  <2> SUFFICES ASSUME NEW a \in Worlds, NEW b \in Worlds PROVE PairInv(a, b)'
    OBVIOUS
  <2>1. CASE a = b
    BY <2>1, PairSelf
  <2>2. CASE a # b /\ (a = w \/ b = w)
    BY <1>2, <2>2
  <2>3. CASE a # w /\ b # w
    BY <2>3, PairStays
  <2> QED BY <2>1, <2>2, <2>3
<1> QED BY <1>1, <1>3 DEF ControlInv

-----------------------------------------------------------------------------
(* The blocks of jobs of the worlds                                        *)

\* Division with remainder of natural numbers.
LEMMA DivMod ==
  ASSUME NEW a \in Nat, NEW b \in Nat \ {0}
  PROVE  /\ a \div b \in Nat /\ a % b \in 0 .. b - 1
         /\ a = b * (a \div b) + (a % b)
<1>1. a = b * (a \div b) + (a % b)
  OBVIOUS
<1>2. a % b \in 0 .. b - 1 /\ a \div b \in Int
  OBVIOUS
<1>3. ASSUME NEW q \in Int, NEW m \in 0 .. b - 1, a = b * q + m PROVE q \in Nat
  BY <1>3
<1> QED BY <1>1, <1>2, <1>3

\* Multiplication keeps the order of natural numbers.
LEMMA TimesMonotone ==
  ASSUME NEW a \in Nat, NEW b \in Nat, NEW q \in Nat, a <= b
  PROVE  q * a <= q * b
  OBVIOUS

\* The blocks of distributeJobs follow each other from the first job to the last.
THEOREM BlocksInARow ==
  ASSUME NEW n \in Nat, NEW size \in Nat \ {0}
  PROVE  /\ JobStart(n, size, 0) = 0
         /\ \A r \in 0 .. size - 1 : JobCount(n, size, r) \in Nat
         /\ \A r \in 0 .. size - 1 : r + 1 < size =>
              JobStart(n, size, r + 1) = JobStart(n, size, r) + JobCount(n, size, r)
         /\ JobStart(n, size, size - 1) + JobCount(n, size, size - 1) = n
<1> DEFINE q == n \div size
           m == n % size
<1>1. q \in Nat /\ m \in 0 .. size - 1 /\ n = size * q + m
  BY DivMod
<1>2. \A r : JobCount(n, size, r) = q + (IF r < m THEN 1 ELSE 0)
  BY DEF JobCount
<1>3. \A r : JobStart(n, size, r) = q * r + (IF r < m THEN r ELSE m)
  BY DEF JobStart
<1> HIDE DEF q, m
<1>4. JobStart(n, size, 0) = 0
  BY <1>1, <1>3
<1>5. \A r \in 0 .. size - 1 : JobCount(n, size, r) \in Nat
  BY <1>1, <1>2
<1>6. ASSUME NEW r \in 0 .. size - 1
      PROVE  JobStart(n, size, r + 1) = JobStart(n, size, r) + JobCount(n, size, r)
  <2>1. q * (r + 1) = q * r + q
    BY <1>1
  <2>2. (IF r + 1 < m THEN r + 1 ELSE m) = (IF r < m THEN r ELSE m) + (IF r < m THEN 1 ELSE 0)
    BY <1>1
  <2> QED BY <1>1, <1>2, <1>3, <2>1, <2>2
<1>7. JobStart(n, size, size - 1) + JobCount(n, size, size - 1) = n
  <2>1. q * (size - 1) + q = size * q
    BY <1>1
  <2> QED BY <1>1, <1>2, <1>3, <2>1
<1> QED BY <1>4, <1>5, <1>6, <1>7

\* What distributeJobs creates on the worlds is all jobs, each on one world.
THEOREM EachJobOnOneWorld ==
  ASSUME NEW n \in Nat, NEW size \in Nat \ {0}, NEW i \in 0 .. n - 1
  PROVE  LET Owns(r) == /\ JobStart(n, size, r) <= i
                        /\ i < JobStart(n, size, r) + JobCount(n, size, r)
         IN  /\ \E r \in 0 .. size - 1 : Owns(r)
             /\ \A r, s \in 0 .. size - 1 : Owns(r) /\ Owns(s) => r = s
<1> DEFINE q == n \div size
           m == n % size
           Owns(r) == /\ JobStart(n, size, r) <= i
                      /\ i < JobStart(n, size, r) + JobCount(n, size, r)
<1>1. q \in Nat /\ m \in 0 .. size - 1 /\ n = size * q + m
  BY DivMod
<1>2. \A r : JobCount(n, size, r) = q + (IF r < m THEN 1 ELSE 0)
  BY DEF JobCount
<1>3. \A r : JobStart(n, size, r) = q * r + (IF r < m THEN r ELSE m)
  BY DEF JobStart
<1> HIDE DEF q, m
<1>4. \E r \in 0 .. size - 1 : Owns(r)
  <2>1. CASE i < (q + 1) * m
    <3>0. PICK b \in Nat \ {0} : b = q + 1
      BY <1>1
    <3> DEFINE r == i \div b
    <3>1. r \in Nat /\ i % b \in 0 .. q /\ i = (q + 1) * r + (i % b)
      <4>0. i \in Nat
        OBVIOUS
      <4>1. r \in Nat /\ i % b \in 0 .. b - 1 /\ i = b * r + (i % b)
        BY <4>0, DivMod
      <4> QED BY <1>1, <3>0, <4>1
    <3> HIDE DEF r
    <3>2. r < m
      <4>1. (q + 1) * r < (q + 1) * m
        BY <1>1, <2>1, <3>1
      <4>2. ASSUME m <= r PROVE FALSE
        <5>1. (q + 1) * m <= (q + 1) * r
          BY <1>1, <3>1, <4>2, TimesMonotone
        <5> QED BY <1>1, <3>1, <4>1, <5>1
      <4> QED BY <1>1, <3>1, <4>2
    <3>3. (q + 1) * r = q * r + r
      BY <1>1, <3>1
    <3>4. Owns(r)
      BY <1>1, <1>2, <1>3, <3>1, <3>2, <3>3
    <3> QED BY <1>1, <3>1, <3>2, <3>4
  <2>2. CASE i >= (q + 1) * m
    <3>1. (q + 1) * m = q * m + m
      BY <1>1
    <3>2. q # 0
      <4>1. ASSUME q = 0 PROVE FALSE
        <5>1. n = m /\ (q + 1) * m = m
          BY <1>1, <4>1
        <5> QED BY <1>1, <2>2, <5>1
      <4> QED BY <4>1
    <3> DEFINE k == i - (q + 1) * m
               r == m + k \div q
    <3>3. k \in Nat
      BY <1>1, <2>2
    <3>4. k \div q \in Nat /\ k % q \in 0 .. q - 1 /\ k = q * (k \div q) + (k % q)
      BY <1>1, <3>2, <3>3, DivMod
    <3>5. PICK d \in Nat, e \in 0 .. q - 1 : i - (q + 1) * m = q * d + e
      BY <3>4
    <3>6. q * (m + d) = q * m + q * d
      BY <1>1
    <3>7. m + d < size
      <4>1. ASSUME size <= m + d PROVE FALSE
        <5>1. q * size <= q * (m + d)
          BY <1>1, <4>1, TimesMonotone
        <5>2. size * q = q * size
          BY <1>1
        <5> QED BY <1>1, <3>1, <3>5, <3>6, <5>1, <5>2
      <4> QED BY <1>1, <4>1
    <3>8. Owns(m + d)
      BY <1>1, <1>2, <1>3, <3>1, <3>5, <3>6
    <3> QED BY <1>1, <3>7, <3>8
  <2> QED BY <1>1, <2>1, <2>2
<1>5. ASSUME NEW r \in 0 .. size - 1, NEW s \in 0 .. size - 1, r < s
      PROVE  JobStart(n, size, r) + JobCount(n, size, r) <= JobStart(n, size, s)
  <2>1. q * (r + 1) <= q * s
    BY <1>1, <1>5, TimesMonotone
  <2>2. q * (r + 1) = q * r + q
    BY <1>1
  <2>3. (IF r < m THEN r ELSE m) + (IF r < m THEN 1 ELSE 0) <= (IF s < m THEN s ELSE m)
    BY <1>1, <1>5
  <2>4. q * r \in Int /\ q * s \in Int
    BY <1>1
  <2> QED BY <1>1, <1>2, <1>3, <2>1, <2>2, <2>3, <2>4
<1>6. \A r \in 0 .. size - 1 : JobStart(n, size, r) \in Int /\ JobCount(n, size, r) \in Int
  BY <1>1, <1>2, <1>3
<1>7. ASSUME NEW r \in 0 .. size - 1, NEW s \in 0 .. size - 1, Owns(r), Owns(s) PROVE r = s
  <2>1. ~ r < s
    BY <1>5, <1>6, <1>7
  <2>2. ~ s < r
    BY <1>5, <1>6, <1>7
  <2> QED BY <2>1, <2>2
<1> QED BY <1>4, <1>7

-----------------------------------------------------------------------------
(* Jobs and their numbers                                                  *)

\* The block of jobs distributeJobs gives a world lies inside the jobs.
LEMMA BlockInside ==
  ASSUME NEW n \in Nat, NEW w \in Worlds
  PROVE  /\ JobStart(n, swcount, w) \in Nat /\ JobCount(n, swcount, w) \in Nat
         /\ JobStart(n, swcount, w) + JobCount(n, swcount, w) <= n
<1> DEFINE q == n \div swcount
           m == n % swcount
<1>1. q \in Nat /\ m \in 0 .. swcount - 1 /\ n = swcount * q + m
  BY WorldsAssumption, DivMod
<1>2. JobCount(n, swcount, w) = q + (IF w < m THEN 1 ELSE 0)
  BY DEF JobCount
<1>3. JobStart(n, swcount, w) = q * w + (IF w < m THEN w ELSE m)
  BY DEF JobStart
<1> HIDE DEF q, m
<1>4. w \in Nat /\ swcount \in Nat /\ w + 1 <= swcount
  BY WorldsAssumption DEF Worlds
<1>5. q * (w + 1) <= q * swcount /\ q * (w + 1) = q * w + q /\ q * w \in Nat
  BY <1>1, <1>4, TimesMonotone
<1>6. q * swcount = swcount * q
  BY <1>1, <1>4
<1> QED BY <1>1, <1>2, <1>3, <1>4, <1>5, <1>6

\* Every job submitted is for exactly one world.
LEMMA OneBlock ==
  ASSUME NEW n \in Nat, NEW j \in 1 .. n
  PROVE  /\ \E u \in Worlds : InBlock(u, n, j)
         /\ \A u, v \in Worlds : InBlock(u, n, j) /\ InBlock(v, n, j) => u = v
<1>1. j - 1 \in 0 .. n - 1
  OBVIOUS
<1> DEFINE Owns(r) == /\ JobStart(n, swcount, r) <= j - 1
                      /\ j - 1 < JobStart(n, swcount, r) + JobCount(n, swcount, r)
<1>2. /\ \E r \in Worlds : Owns(r)
      /\ \A r, s \in Worlds : Owns(r) /\ Owns(s) => r = s
  BY <1>1, WorldsAssumption, EachJobOnOneWorld DEF Worlds
<1>3. \A u \in Worlds : Owns(u) <=> InBlock(u, n, j)
  BY BlockInside DEF InBlock
<1> HIDE DEF Owns
<1> QED BY <1>2, <1>3

\* The jobs of a block are among those waiting.
LEMMA BlockRange ==
  ASSUME NEW n \in Nat, NEW u \in Worlds, NEW j \in Int, InBlock(u, n, j)
  PROVE  j \in 1 .. n
  BY BlockInside DEF InBlock

\* How many jobs were submitted in a row is a number.
LEMMA OneNumber ==
  ASSUME NEW p \in Nat, NEW n \in Nat, NEW k \in Nat, Submitted(p, n), Submitted(p, k)
  PROVE  n = k
<1>1. ASSUME NEW a \in Nat, NEW b \in Nat, Submitted(p, a), Submitted(p, b) PROVE ~ (a < b)
  <2> SUFFICES ASSUME a < b PROVE FALSE
    OBVIOUS
  <2>1. p - a \in p - b + 1 .. p
    BY <1>1 DEF Submitted
  <2>2. script[p - a] = "addJob" /\ script[p - a] # "addJob"
    BY <1>1, <2>1 DEF Submitted, OnlyAddsJobs
  <2> QED BY <2>2
<1> QED BY <1>1

\* How many jobs were submitted before a place of the script never changes.
LEMMA SubmittedStays ==
  ASSUME Types, ControlInv, NEW w \in Worlds, Moves(w),
         NEW p \in Nat, p <= Len(script), NEW n \in Nat
  PROVE  Submitted(p, n)' <=> Submitted(p, n)
<1>1. n <= p => \A o \in p - n + 1 .. p : script'[o] = script[o]
  BY ScriptGrows
<1>2. n < p => script'[p - n] = script[p - n]
  BY ScriptGrows
<1> QED BY <1>1, <1>2 DEF Submitted, OnlyAddsJobs

\* The operations a world has begun are those it has ended and the one it is
\* in.
LEMMA BegunGrows ==
  ASSUME Types, ControlInv, NEW w \in Worlds, Moves(w)
  PROVE  /\ \A u \in Worlds : Begun(u) \in Nat /\ Begun(u) <= Len(script) /\ Done(u) <= Begun(u)
         /\ \A u \in Worlds \ {w} : Begun(u)' = Begun(u)
         /\ ~ InCall(w) => Begun(w)' = Begun(w) + 1 /\ Begun(w) = Done(w)
         /\ InCall(w) => Begun(w)' = Begun(w) /\ Begun(w) = Done(w) + 1
<1>1. \A u \in Worlds : Begun(u) \in Nat /\ Begun(u) <= Len(script) /\ Done(u) <= Begun(u)
  BY Positions DEF Begun, WorldInv
<1>2. \A u \in Worlds \ {w} : Begun(u)' = Begun(u)
  BY OthersPositions DEF Begun
<1>3. CASE Submits(w)
  BY <1>1, <1>2, <1>3, SubmitsTo DEF Begun
<1>4. CASE Begins(w)
  BY <1>1, <1>2, <1>4, BeginsTo DEF Begun
<1>5. ASSUME NEW m \in 0 .. 4, NEW s \in Stages, Leaves(w, m, s)
      PROVE  InCall(w) /\ Begun(w)' = Begun(w) /\ Begun(w) = Done(w) + 1
  BY <1>5, ContinuesTo DEF Begun
<1>6. ASSUME NEW m \in 0 .. 4, NEW s \in Outcomes, Leaves(w, m, s)
      PROVE  InCall(w) /\ Begun(w)' = Begun(w) /\ Begun(w) = Done(w) + 1
  BY <1>6, EndsTo DEF Begun
<1> QED BY <1>1, <1>2, <1>3, <1>4, <1>5, <1>6, FourMoves

-----------------------------------------------------------------------------
(* What a step of a world does to the jobs                                 *)

\* The share of a world is a block of what is waiting, with the ids from its
\* counter on.
LEMMA ShareFacts ==
  ASSUME Types, ControlInv, NEW w \in Worlds, PendingInv(w), ~ InCall(w)
  PROVE  LET n == Len(create[w])
             s == JobStart(n, swcount, w)
         IN  /\ Share(w) \in Seq(Jobs) /\ Len(Share(w)) = JobCount(n, swcount, w)
             /\ n \in Nat /\ n <= Done(w) /\ s \in Nat /\ s + JobCount(n, swcount, w) <= n
             /\ \A i \in 1 .. Len(Share(w)) :
                  /\ Share(w)[i].job = Done(w) - n + s + i
                  /\ Share(w)[i].id = jobcounter[w] + s + i - 1
<1> DEFINE n == Len(create[w])
           s == JobStart(n, swcount, w)
           c == JobCount(n, swcount, w)
<1>1. n \in Nat /\ Done(w) \in Nat /\ jobcounter[w] \in Nat
  BY Positions DEF Types
<1>2. s \in Nat /\ c \in Nat /\ s + c <= n
  BY <1>1, BlockInside
<1>3. /\ n <= Done(w)
      /\ \A i \in 1 .. n : create[w][i] = Done(w) - n + i
  BY DEF PendingInv, Submitted
<1>4. Share(w) = [i \in 1 .. c |-> [job |-> create[w][s + i], id |-> jobcounter[w] + (s + i) - 1]]
  BY DEF Share
<1> HIDE DEF n, s, c
<1>5. \A i \in 1 .. c : /\ [job |-> create[w][s + i], id |-> jobcounter[w] + (s + i) - 1] \in Jobs
                        /\ create[w][s + i] = Done(w) - n + s + i
  <2> SUFFICES ASSUME NEW i \in 1 .. c
               PROVE  /\ [job |-> create[w][s + i], id |-> jobcounter[w] + (s + i) - 1] \in Jobs
                      /\ create[w][s + i] = Done(w) - n + s + i
    OBVIOUS
  <2>1. s + i \in 1 .. n
    BY <1>1, <1>2
  <2>2. create[w][s + i] = Done(w) - n + (s + i)
    BY <1>3, <2>1
  <2>3. create[w][s + i] \in Nat /\ jobcounter[w] + (s + i) - 1 \in Nat
    BY <1>1, <1>2, <1>3, <2>1, <2>2
  <2> QED BY <1>1, <1>2, <2>2, <2>3 DEF Jobs
<1>6. Share(w) \in Seq(Jobs) /\ Len(Share(w)) = c
  <2> DEFINE e(i) == [job |-> create[w][s + i], id |-> jobcounter[w] + (s + i) - 1]
  <2>1. \A i \in 1 .. c : e(i) \in Jobs
    BY <1>5
  <2>2. Share(w) = [i \in 1 .. c |-> e(i)]
    BY <1>4
  <2> HIDE DEF e
  <2> QED BY <1>2, <2>1, <2>2
<1>7. \A i \in 1 .. c : Share(w)[i].job = Done(w) - n + s + i
                        /\ Share(w)[i].id = jobcounter[w] + s + i - 1
  BY <1>1, <1>2, <1>4, <1>5
<1> QED BY <1>1, <1>2, <1>3, <1>6, <1>7 DEF n, s, c

\* jobs are new on w, each for a place of the script that w is responsible for.
Fresh(w, jobs) ==
  LET n == Len(create[w])
      op == script'[Done(w) + 1]
  IN  /\ jobs \in Seq(Jobs)
      /\ \A i \in 1 .. Len(jobs) :
           IF op = "addJobPerWorld"
           THEN jobs[i].job = Done(w) + 1 /\ jobs[i].id = jobcounter[w] + w
           ELSE /\ jobs[i].job - (Done(w) - n) = jobs[i].id - jobcounter[w] + 1
                /\ InBlock(w, n, jobs[i].id - jobcounter[w] + 1)
      /\ \A i, j \in 1 .. Len(jobs) : i < j => jobs[i].id < jobs[j].id /\ jobs[i].job < jobs[j].job
      /\ jobcounter' = [jobcounter EXCEPT ![w] = @ + IF op = "addJobPerWorld" THEN swcount ELSE n]

\* Every job that w is responsible for is among them.
AllOf(w, jobs) ==
  LET n == Len(create[w])
  IN  IF script'[Done(w) + 1] = "addJobPerWorld"
      THEN \E i \in 1 .. Len(jobs) : jobs[i].job = Done(w) + 1
      ELSE \A j \in 1 .. n : InBlock(w, n, j) =>
             \E i \in 1 .. Len(jobs) : jobs[i].job = Done(w) - n + j

Creates(w, jobs) ==
  /\ Begins(w) /\ Fresh(w, jobs)
  /\ Create(w, jobs) /\ ClearPendingJobs(w) /\ UNCHANGED ran
  /\ Brings0(w)' => AllOf(w, jobs)

\* addJobPerWorld makes at most one job on each world,
LEMMA PerWorldCreates ==
  ASSUME Types, ControlInv, NEW w \in Worlds, PendingInv(w), NEW e \in 0 .. 1,
         AddJobPerWorld(w, e), Begins(w)
  PROVE  \E jobs : Creates(w, jobs)
<1> DEFINE job == [job |-> Place(w), id |-> jobcounter[w] + w]
           jobs == IF e = 1 THEN << >> ELSE <<job>>
<1>1. /\ Done(w) \in Nat /\ Place(w) = Done(w) + 1 /\ jobcounter[w] \in Nat /\ w \in Nat
      /\ jobcounter \in [Worlds -> Nat \ {0}]
  <2>1. w \in Nat
    BY WorldsAssumption DEF Worlds
  <2>2. jobcounter \in [Worlds -> Nat \ {0}]
    BY DEF Types
  <2> QED BY <2>1, <2>2, Positions
<1>2. job \in Jobs /\ job.job = Done(w) + 1 /\ job.id = jobcounter[w] + w
  BY <1>1 DEF Jobs
<1>3. script'[Done(w) + 1] = "addJobPerWorld"
  <2>1. Reads(w, "addJobPerWorld")
    <3>1. Place(w) \in Nat /\ Len(script) \in Nat
      BY DEF Types, Place
    <3> QED BY <3>1 DEF AddJobPerWorld, Does, Reads
  <2> QED BY <2>1, ReadsScript DEF Operations
<1>4. jobs \in Seq(Jobs) /\ Len(jobs) = (IF e = 1 THEN 0 ELSE 1)
      /\ \A i \in 1 .. Len(jobs) : i = 1 /\ jobs[i] = job
  <2> HIDE DEF job
  <2>1. CASE e = 1
    BY <2>1
  <2>2. CASE e # 1
    BY <1>2, <2>2
  <2> QED BY <2>1, <2>2
<1>5. Create(w, jobs) /\ ClearPendingJobs(w) /\ UNCHANGED ran
      /\ jobcounter' = [jobcounter EXCEPT ![w] = @ + swcount] /\ Brings(w, "check", e)
  BY DEF AddJobPerWorld
<1>6. Brings0(w)' => e = 0
  <2>1. brought \in [Worlds -> Seq(BroughtCalls)] /\ [kind |-> "check", value |-> e] \in BroughtCalls
    BY DEF Types, BroughtCalls
  <2>2. brought' = [brought EXCEPT ![w] = Append(@, [kind |-> "check", value |-> e])]
    BY <1>5 DEF Brings
  <2>3. /\ Len(brought[w]) \in Nat /\ Len(brought'[w]) = Len(brought[w]) + 1
        /\ brought'[w][Len(brought[w]) + 1] = [kind |-> "check", value |-> e]
    BY <2>1, <2>2, AppendedOn
  <2> QED BY <2>3 DEF Brings0, Brought
<1> HIDE DEF job, jobs
<1>7. Fresh(w, jobs)
  BY <1>1, <1>2, <1>3, <1>4, <1>5 DEF Fresh
<1>8. e = 0 => AllOf(w, jobs)
  <2> SUFFICES ASSUME e = 0 PROVE AllOf(w, jobs)
    OBVIOUS
  <2>1. 1 \in 1 .. Len(jobs) /\ jobs[1].job = Done(w) + 1
    BY <1>2, <1>4
  <2> QED BY <1>3, <2>1 DEF AllOf
<1>9. Creates(w, jobs)
  BY <1>5, <1>6, <1>7, <1>8 DEF Creates
<1> QED BY <1>9

\* and runJobs makes those of the world's share.
LEMMA RunCreates ==
  ASSUME Types, ControlInv, NEW w \in Worlds, PendingInv(w), NEW k \in 0 .. Len(script),
         RunJobs(w, k), Begins(w)
  PROVE  \E jobs : Creates(w, jobs)
<1> DEFINE n == Len(create[w])
           s == JobStart(n, swcount, w)
           c == JobCount(n, swcount, w)
           jobs == SubSeq(Share(w), 1, k)
           value == IF k < Len(Share(w)) THEN 1 ELSE 0
<1>1. Done(w) \in Nat /\ Place(w) = Done(w) + 1 /\ jobcounter[w] \in Nat
      /\ jobcounter \in [Worlds -> Nat \ {0}]
  BY Positions DEF Types
<1>2. ~ InCall(w)
  BY DEF Begins
<1>3. /\ Share(w) \in Seq(Jobs) /\ Len(Share(w)) = c
      /\ n \in Nat /\ n <= Done(w) /\ s \in Nat /\ s + c <= n /\ c \in Nat
      /\ \A i \in 1 .. Len(Share(w)) :
           Share(w)[i].job = Done(w) - n + s + i /\ Share(w)[i].id = jobcounter[w] + s + i - 1
  <2>1. n \in Nat
    BY DEF Types
  <2> QED BY <1>2, <2>1, ShareFacts, BlockInside
<1>4. script'[Done(w) + 1] = "runJobs"
  <2>1. Reads(w, "runJobs")
    <3>1. Place(w) \in Nat /\ Len(script) \in Nat
      BY DEF Types, Place
    <3> QED BY <3>1 DEF RunJobs, Does, Reads
  <2> QED BY <2>1, ReadsScript DEF Operations
<1>5. /\ Create(w, jobs) /\ ClearPendingJobs(w) /\ UNCHANGED ran /\ k \in 0 .. Len(Share(w))
      /\ jobcounter' = [jobcounter EXCEPT ![w] = @ + n] /\ Brings(w, "check", value)
  BY DEF RunJobs
<1> HIDE DEF n, s, c
<1>6. /\ jobs \in Seq(Jobs) /\ Len(jobs) = k /\ k <= c /\ k \in Nat
      /\ \A i \in 1 .. Len(jobs) :
           /\ jobs[i].job = Done(w) - n + s + i /\ jobs[i].id = jobcounter[w] + s + i - 1
  <2>1. /\ jobs \in Seq(Jobs) /\ Len(jobs) = k
        /\ \A i \in 1 .. k : jobs[i] = Share(w)[i]
    BY <1>3, <1>5, SubSeqProperties
  <2> QED BY <1>3, <1>5, <2>1
<1>7. Brings0(w)' => k = c
  <2>1. brought \in [Worlds -> Seq(BroughtCalls)] /\ [kind |-> "check", value |-> value] \in BroughtCalls
    BY DEF Types, BroughtCalls
  <2>2. brought' = [brought EXCEPT ![w] = Append(@, [kind |-> "check", value |-> value])]
    BY <1>5 DEF Brings
  <2>3. /\ Len(brought[w]) \in Nat /\ Len(brought'[w]) = Len(brought[w]) + 1
        /\ brought'[w][Len(brought[w]) + 1] = [kind |-> "check", value |-> value]
    <3> HIDE DEF value
    <3> QED BY <2>1, <2>2, AppendedOn
  <2>4. Brings0(w)' => value = 0
    BY <2>3 DEF Brings0, Brought
  <2> QED BY <1>3, <1>5, <2>4
<1> HIDE DEF jobs, value
<1>i. \A j : InBlock(w, n, j) <=> s < j /\ j <= s + c
  BY DEF InBlock, s, c
<1>8. Fresh(w, jobs)
  <2>1. \A i \in 1 .. Len(jobs) :
          /\ jobs[i].job - (Done(w) - n) = jobs[i].id - jobcounter[w] + 1
          /\ s < jobs[i].id - jobcounter[w] + 1 /\ jobs[i].id - jobcounter[w] + 1 <= s + c
    BY <1>1, <1>3, <1>6
  <2>2. \A i, j \in 1 .. Len(jobs) : i < j => jobs[i].id < jobs[j].id /\ jobs[i].job < jobs[j].job
    <3> SUFFICES ASSUME NEW i \in 1 .. Len(jobs), NEW j \in 1 .. Len(jobs), i < j
                 PROVE  jobs[i].id < jobs[j].id /\ jobs[i].job < jobs[j].job
      OBVIOUS
    <3>1. /\ jobs[i].job = Done(w) - n + s + i /\ jobs[i].id = jobcounter[w] + s + i - 1
          /\ jobs[j].job = Done(w) - n + s + j /\ jobs[j].id = jobcounter[w] + s + j - 1
      BY <1>6
    <3>2. i \in Nat /\ j \in Nat /\ Done(w) \in Nat /\ n \in Nat /\ s \in Nat /\ jobcounter[w] \in Nat
      BY <1>1, <1>3, <1>6
    <3>3. Done(w) - n + s + i < Done(w) - n + s + j
          /\ jobcounter[w] + s + i - 1 < jobcounter[w] + s + j - 1
      BY <3>2
    <3> QED BY <3>1, <3>3
  <2> QED BY <1>4, <1>5, <1>6, <1>i, <2>1, <2>2 DEF Fresh, n
<1>9. k = c => AllOf(w, jobs)
  <2> SUFFICES ASSUME k = c, NEW j \in 1 .. n, s < j, j <= s + c
               PROVE  \E i \in 1 .. Len(jobs) : jobs[i].job = Done(w) - n + j
    BY <1>4, <1>i DEF AllOf, n
  <2>1. j - s \in 1 .. Len(jobs)
    BY <1>3, <1>6
  <2>2. jobs[j - s].job = Done(w) - n + s + (j - s)
    BY <1>6, <2>1
  <2> QED BY <1>1, <1>3, <2>1, <2>2
<1>10. Creates(w, jobs)
  BY <1>5, <1>7, <1>8, <1>9 DEF Creates
<1> QED BY <1>10

\* A world outside a call submits a job, or creates some and begins a call.
LEMMA FreeWorldMoves ==
  ASSUME Types, ControlInv, NEW w \in Worlds, PendingInv(w), World(w), ~ InCall(w)
  PROVE  (AddJob(w) /\ Submits(w)) \/ \E jobs : Creates(w, jobs)
<1>m. Moves(w)
  BY WorldMoves
<1>1. CASE AddJob(w)
  <2>1. pc'[w] # "creating"
    BY <1>1 DEF AddJob, Ends, Types
  <2>2. ~ Begins(w)
    BY <2>1 DEF Begins, Types
  <2> QED BY <1>1, <1>m, <2>2 DEF Moves, Leaves
<1>b. ASSUME pc' = [pc EXCEPT ![w] = "creating"] PROVE Begins(w)
  <2>1. ~ Submits(w)
    BY <1>b DEF Submits, InCall, Types
  <2> QED BY <1>m, <2>1 DEF Moves, Leaves
<1>2. ASSUME NEW e \in 0 .. 1, AddJobPerWorld(w, e) PROVE \E jobs : Creates(w, jobs)
  BY <1>2, <1>b, PerWorldCreates DEF AddJobPerWorld
<1>3. ASSUME NEW n \in 0 .. Len(script), RunJobs(w, n) PROVE \E jobs : Creates(w, jobs)
  BY <1>3, <1>b, RunCreates DEF RunJobs
<1>4. pc[w] = "script"
  BY DEF InCall
<1> QED BY <1>1, <1>2, <1>3, <1>4 DEF World, CheckAgain, CreationFailed, PerWorldAdded, Synchronise,
       SynchFailed, Work, Compare, EndRunJobs, JobRaised, Shipped

\* A world in a call runs its jobs, drops them, or leaves them alone.
Runs(w, k) ==
  /\ pc[w] = "synchronising" /\ pc'[w] = "joining" /\ k \in 0 .. Len(jobvec[w])
  /\ ran' = [ran EXCEPT ![w] = @ \o [i \in 1 .. k |-> jobvec[w][i].id]]
  /\ jobvec' = jobvec
  /\ Brings0(w)' => k = Len(jobvec[w])

Drops(w) ==
  /\ ClearJobs(w) /\ ran' = ran
  /\ pc[w] \in {"joining", "comparing", "shipping"} /\ Operation(w) = "runJobs"
  /\ pc'[w] = "comparing" \/ pc'[w] = "script"

LeavesJobs(w) ==
  /\ jobvec' = jobvec /\ ran' = ran
  /\ pc'[w] # "comparing" /\ (pc'[w] = "script" => Operation(w) = "addJobPerWorld")
  /\ pc'[w] = "joining" => ~ Brings0(w)'
  /\ Keeps(w)' => Keeps(w)

InCallMoves(w) ==
  /\ InCall(w) /\ UNCHANGED <<script, create, jobcounter, made>>
  /\ LeavesJobs(w) \/ Drops(w) \/ \E k \in Nat : Runs(w, k)

\* What w has brought last after it has brought x
LEMMA LastBrought ==
  ASSUME Types, NEW w \in Worlds, NEW kind \in {"check", "ship", "synch", "compare"},
         NEW x \in 0 .. 4, Brings(w, kind, x)
  PROVE  Brings0(w)' <=> x = 0
<1>1. brought \in [Worlds -> Seq(BroughtCalls)] /\ [kind |-> kind, value |-> x] \in BroughtCalls
  BY DEF Types, BroughtCalls
<1>2. brought' = [brought EXCEPT ![w] = Append(@, [kind |-> kind, value |-> x])]
  BY DEF Brings
<1>3. /\ Len(brought[w]) \in Nat /\ Len(brought'[w]) = Len(brought[w]) + 1
      /\ brought'[w][Len(brought[w]) + 1] = [kind |-> kind, value |-> x]
  BY <1>1, <1>2, AppendedOn
<1> QED BY <1>3 DEF Brings0, Brought

\* Inside a call a world leaves its jobs, runs some of them or drops them.
LEMMA InCallData ==
  ASSUME Types, ControlInv, NEW w \in Worlds, PendingInv(w), JobsInv(w), World(w), InCall(w)
  PROVE  InCallMoves(w)
<1>t. /\ pc \in [Worlds -> Stages \cup {"script"}] /\ create \in [Worlds -> Seq(Nat)]
      /\ jobvec \in [Worlds -> Seq(Jobs)]
  BY DEF Types
<1>c. create[w] = << >> /\ pc[w] # "script"
  BY DEF PendingInv, InCall
<1>p. [create EXCEPT ![w] = << >>] = create
  BY <1>t, <1>c
<1>o. /\ Operation(w) \in {"addJobPerWorld", "runJobs"}
      /\ pc[w] \in {"synchronising", "joining", "comparing"} => Operation(w) = "runJobs"
  BY Positions DEF WorldInv
<1>q. UNCHANGED script => Operation(w)' = Operation(w) \/ pc'[w] = "script"
  <2> SUFFICES ASSUME UNCHANGED script, pc'[w] # "script" PROVE Operation(w)' = Operation(w)
    OBVIOUS
  <2>1. outcomes' = outcomes
    <3>1. Moves(w)
      BY WorldMoves
    <3>2. PICK m \in 0 .. 4 : Leaves(w, m, After(pc[w], Operation(w), mres[w], m))
      BY <3>1 DEF Moves, Submits, Begins
    <3> QED BY <1>t, <3>2 DEF Leaves, Ends
  <2> QED BY <2>1 DEF Operation, Place
<1>1. CASE CheckAgain(w)
  <2>1. pc'[w] = "checking" /\ pc[w] = "creating"
    BY <1>1, <1>t DEF CheckAgain
  <2> QED BY <1>1, <2>1 DEF CheckAgain, InCallMoves, LeavesJobs, Keeps
<1>2. CASE CreationFailed(w)
  <2>1. pc'[w] = "shipping" /\ pc[w] = "checking"
    BY <1>2, <1>t DEF CreationFailed
  <2> QED BY <1>2, <2>1 DEF CreationFailed, InCallMoves, LeavesJobs, Keeps
<1>3. CASE PerWorldAdded(w)
  <2>1. pc'[w] = "script" /\ pc[w] = "checking" /\ Operation(w) = "addJobPerWorld"
    BY <1>3, <1>t DEF PerWorldAdded, Ends
  <2> QED BY <1>3, <2>1 DEF PerWorldAdded, InCallMoves, LeavesJobs, Keeps
<1>4. ASSUME NEW e \in 0 .. 1, Synchronise(w, e) PROVE InCallMoves(w)
  <2>1. pc'[w] = "synchronising" /\ pc[w] = "checking"
    BY <1>4, <1>t DEF Synchronise
  <2> QED BY <1>4, <2>1 DEF Synchronise, InCallMoves, LeavesJobs, Keeps
<1>5. CASE SynchFailed(w)
  <2>1. pc'[w] = "joining" /\ pc[w] = "synchronising"
    BY <1>5, <1>t DEF SynchFailed
  <2>2. ~ Brings0(w)'
    BY <1>5, LastBrought DEF SynchFailed
  <2> QED BY <1>5, <2>1, <2>2 DEF SynchFailed, InCallMoves, LeavesJobs, Keeps
<1>6. ASSUME NEW n \in 0 .. Len(script), NEW r \in 0 .. 4, Work(w, n, r) PROVE InCallMoves(w)
  <2>1. pc'[w] = "joining" /\ pc[w] = "synchronising"
    BY <1>6, <1>t DEF Work
  <2>2. Brings0(w)' <=> r = 0
    BY <1>6, LastBrought DEF Work
  <2>3. r = 0 => n = Len(jobvec[w])
    BY <1>6 DEF Work, PossibleResults
  <2>4. n \in Nat /\ Len(jobvec[w]) \in Nat
    BY <1>6, <1>t DEF Work
  <2>5. Runs(w, n)
    BY <1>6, <2>1, <2>2, <2>3 DEF Work, Runs
  <2> QED BY <1>6, <2>4, <2>5 DEF Work, InCallMoves
<1>7. ASSUME NEW e \in 0 .. 1, Compare(w, e) PROVE InCallMoves(w)
  <2>1. pc'[w] = "comparing" /\ pc[w] = "joining"
    BY <1>7, <1>t DEF Compare
  <2> QED BY <1>7, <1>o, <2>1 DEF Compare, InCallMoves, Drops
<1>8. CASE EndRunJobs(w)
  <2>1. pc'[w] = "script" /\ pc[w] = "comparing"
    BY <1>8, <1>t DEF EndRunJobs, Ends
  <2>2. jobvec[w] = << >>
    BY <2>1 DEF JobsInv
  <2>3. [jobvec EXCEPT ![w] = << >>] = jobvec
    BY <1>t, <2>2
  <2>4. create' = create /\ ClearJobs(w)
    BY <1>8, <1>p, <2>3 DEF EndRunJobs, ClearJobs, ClearPendingJobs
  <2> QED BY <1>8, <1>o, <2>1, <2>4 DEF EndRunJobs, InCallMoves, Drops
<1>9. CASE JobRaised(w)
  <2>1. pc'[w] = "shipping" /\ pc[w] = "comparing"
    BY <1>9, <1>t DEF JobRaised
  <2>2. Operation(w)' = "runJobs"
    BY <1>9, <1>o, <1>q, <2>1 DEF JobRaised
  <2>3. ~ Keeps(w)'
    BY <2>1, <2>2 DEF Keeps
  <2> QED BY <1>9, <2>1, <2>3 DEF JobRaised, InCallMoves, LeavesJobs
<1>10. CASE Shipped(w)
  <2>1. pc'[w] = "script" /\ pc[w] = "shipping"
    BY <1>10, <1>t DEF Shipped, Ends
  <2>2. CASE Operation(w) = "runJobs"
    BY <1>10, <1>p, <2>1, <2>2 DEF Shipped, InCallMoves, Drops, ClearPendingJobs
  <2>3. CASE Operation(w) = "addJobPerWorld"
    BY <1>10, <2>1, <2>3 DEF Shipped, InCallMoves, LeavesJobs, Keeps
  <2> QED BY <1>o, <2>2, <2>3
<1> QED BY <1>c, <1>1, <1>2, <1>3, <1>4, <1>5, <1>6, <1>7, <1>8, <1>9, <1>10
       DEF World, AddJob, AddJobPerWorld, RunJobs, Does

\* What one world adds at the end leaves the sequences of the others alone.
LEMMA AddedOn ==
  ASSUME NEW S, NEW f \in [Worlds -> Seq(S)], NEW w \in Worlds, NEW x \in Seq(S),
         NEW g, g = [f EXCEPT ![w] = @ \o x]
  PROVE  /\ g \in [Worlds -> Seq(S)]
         /\ Len(f[w]) \in Nat /\ Len(x) \in Nat /\ Len(g[w]) = Len(f[w]) + Len(x)
         /\ \A i \in 1 .. Len(f[w]) : g[w][i] = f[w][i]
         /\ \A i \in 1 .. Len(x) : g[w][Len(f[w]) + i] = x[i]
         /\ \A u \in Worlds \ {w} : g[u] = f[u]
<1>1. f[w] \in Seq(S) /\ g[w] = f[w] \o x
  OBVIOUS
<1>2. /\ g[w] \in Seq(S) /\ Len(g[w]) = Len(f[w]) + Len(x)
      /\ Len(f[w]) \in Nat /\ Len(x) \in Nat
      /\ \A i \in 1 .. Len(f[w]) + Len(x) :
           g[w][i] = IF i <= Len(f[w]) THEN f[w][i] ELSE x[i - Len(f[w])]
  BY <1>1, ConcatProperties
<1>3. g \in [Worlds -> Seq(S)] /\ \A u \in Worlds \ {w} : g[u] = f[u]
  BY <1>2
<1>4. ASSUME NEW i \in 1 .. Len(x) PROVE g[w][Len(f[w]) + i] = x[i]
  <2>1. /\ Len(f[w]) + i \in 1 .. Len(f[w]) + Len(x) /\ ~ (Len(f[w]) + i <= Len(f[w]))
        /\ Len(f[w]) + i - Len(f[w]) = i
    BY <1>2
  <2> QED BY <1>2, <2>1
<1> QED BY <1>2, <1>3, <1>4

\* Making jobs adds them to those made and those kept.
LEMMA CreatesTo ==
  ASSUME Types, ControlInv, NEW w \in Worlds, NEW jobs, Creates(w, jobs)
  PROVE  /\ made' \in [Worlds -> Seq(Jobs)] /\ jobvec' \in [Worlds -> Seq(Jobs)]
         /\ Len(made[w]) \in Nat /\ Len(jobvec[w]) \in Nat /\ Len(jobs) \in Nat
         /\ Len(made'[w]) = Len(made[w]) + Len(jobs) /\ Len(jobvec'[w]) = Len(jobvec[w]) + Len(jobs)
         /\ \A i \in 1 .. Len(made[w]) : made'[w][i] = made[w][i]
         /\ \A i \in 1 .. Len(jobvec[w]) : jobvec'[w][i] = jobvec[w][i]
         /\ \A i \in 1 .. Len(jobs) :
              made'[w][Len(made[w]) + i] = jobs[i] /\ jobvec'[w][Len(jobvec[w]) + i] = jobs[i]
         /\ \A u \in Worlds \ {w} : made'[u] = made[u] /\ jobvec'[u] = jobvec[u]
<1>1. /\ made \in [Worlds -> Seq(Jobs)] /\ jobvec \in [Worlds -> Seq(Jobs)] /\ jobs \in Seq(Jobs)
      /\ made' = [made EXCEPT ![w] = @ \o jobs] /\ jobvec' = [jobvec EXCEPT ![w] = @ \o jobs]
  BY DEF Types, Creates, Create, Fresh
<1> QED BY <1>1, AddedOn

\* Running jobs adds the ids of the first k of those kept.
LEMMA RunsTo ==
  ASSUME Types, NEW w \in Worlds, NEW k \in Nat, Runs(w, k)
  PROVE  /\ ran' \in [Worlds -> Seq(Nat)]
         /\ Len(ran[w]) \in Nat /\ Len(ran'[w]) = Len(ran[w]) + k
         /\ \A i \in 1 .. Len(ran[w]) : ran'[w][i] = ran[w][i]
         /\ \A i \in 1 .. k : ran'[w][Len(ran[w]) + i] = jobvec[w][i].id
         /\ \A u \in Worlds \ {w} : ran'[u] = ran[u]
<1> DEFINE ids == [i \in 1 .. k |-> jobvec[w][i].id]
<1>1. /\ ran \in [Worlds -> Seq(Nat)] /\ jobvec[w] \in Seq(Jobs)
      /\ k \in 0 .. Len(jobvec[w]) /\ ran' = [ran EXCEPT ![w] = @ \o ids]
  BY DEF Types, Runs
<1>2. \A i \in 1 .. k : jobvec[w][i].id \in Nat
  <2>1. \A i \in 1 .. k : jobvec[w][i] \in Jobs
    BY <1>1
  <2> QED BY <2>1 DEF Jobs
<1>3. ids \in Seq(Nat) /\ Len(ids) = k /\ \A i \in 1 .. k : ids[i] = jobvec[w][i].id
  BY <1>2
<1> HIDE DEF ids
<1> QED BY <1>1, <1>3, AddedOn

\* The three ways in which a world deals with jobs
DataMoves(w) ==
  \/ AddJob(w) /\ Submits(w)
  \/ \E jobs : Creates(w, jobs)
  \/ InCallMoves(w)

\* Every step of a world is one of these.
LEMMA WorldDataMoves ==
  ASSUME Types, ControlInv, NEW w \in Worlds, PendingInv(w), JobsInv(w), World(w)
  PROVE  Moves(w) /\ DataMoves(w)
  BY WorldMoves, FreeWorldMoves, InCallData DEF DataMoves

\* The jobs of the others are left alone.
LEMMA OthersJobs ==
  ASSUME Types, ControlInv, NEW w \in Worlds, DataMoves(w), NEW u \in Worlds \ {w}
  PROVE  /\ create'[u] = create[u] /\ jobcounter'[u] = jobcounter[u] /\ jobvec'[u] = jobvec[u]
         /\ made'[u] = made[u] /\ ran'[u] = ran[u]
<1>1. CASE AddJob(w)
  BY <1>1 DEF AddJob, Types
<1>2. ASSUME NEW jobs, Creates(w, jobs)
      PROVE  /\ create'[u] = create[u] /\ jobcounter'[u] = jobcounter[u] /\ jobvec'[u] = jobvec[u]
             /\ made'[u] = made[u] /\ ran'[u] = ran[u]
  <2>1. made'[u] = made[u] /\ jobvec'[u] = jobvec[u]
    BY <1>2, CreatesTo
  <2>2. jobcounter'[u] = jobcounter[u]
    <3> DEFINE c == IF script'[Done(w) + 1] = "addJobPerWorld" THEN swcount ELSE Len(create[w])
    <3>1. jobcounter' = [jobcounter EXCEPT ![w] = @ + c] /\ jobcounter \in [Worlds -> Nat \ {0}]
      BY <1>2 DEF Creates, Fresh, Types
    <3> HIDE DEF c
    <3> QED BY <3>1
  <2>3. create'[u] = create[u] /\ ran'[u] = ran[u]
    BY <1>2 DEF Creates, ClearPendingJobs, Types
  <2> QED BY <2>1, <2>2, <2>3
<1>3. CASE InCallMoves(w)
  <2>1. \A k \in Nat : Runs(w, k) => ran'[u] = ran[u]
    BY RunsTo
  <2>2. jobvec'[u] = jobvec[u] /\ ran'[u] = ran[u]
    BY <1>3, <2>1 DEF InCallMoves, LeavesJobs, Drops, Runs, ClearJobs, Types
  <2> QED BY <1>3, <2>2 DEF InCallMoves
<1> QED BY <1>1, <1>2, <1>3 DEF DataMoves

\* Every step leaves a typed state.
LEMMA TypesStep ==
  ASSUME Types, ControlInv, NEW w \in Worlds, Moves(w), DataMoves(w)
  PROVE  Types'
<1>1. script' \in Seq(Operations) /\ Len(script') <= MaxOps
  BY ScriptGrows
<1>2. brought' \in [Worlds -> Seq([kind : {"check", "ship", "synch", "compare"}, value : 0 .. 4])]
  BY BroughtGrows DEF BroughtCalls
<1>3. mres' \in [Worlds -> 0 .. 4]
  BY DEF Moves, Submits, Begins, Leaves, Types
<1>4. pc' \in [Worlds -> Stages \cup {"script"}]
  <2>1. \A s \in Stages \cup {"script"} : [pc EXCEPT ![w] = s] \in [Worlds -> Stages \cup {"script"}]
    BY DEF Types
  <2>3. CASE Submits(w)
    BY <2>3 DEF Submits, Types
  <2>4. CASE Begins(w)
    BY <2>1, <2>4 DEF Begins, Stages
  <2>5. ASSUME NEW m \in 0 .. 4, NEW s, s \in Stages \/ s \in Outcomes, Leaves(w, m, s)
        PROVE  pc' \in [Worlds -> Stages \cup {"script"}]
    BY <2>1, <2>5 DEF Leaves, Ends
  <2> QED BY <2>3, <2>4, <2>5, FourMoves
<1>5. took' \in [Worlds -> Nat]
  <2>1. took \in [Worlds -> Nat]
    BY DEF Types
  <2>2. ASSUME NEW m \in 0 .. 4, NEW s, Leaves(w, m, s) PROVE took' \in [Worlds -> Nat]
    <3>1. took' = [took EXCEPT ![w] = took[w] + 1]
      BY <2>2 DEF Leaves, Takes
    <3> QED BY <2>1, <3>1
  <2> QED BY <2>1, <2>2 DEF Moves, Submits, Begins
<1>6. outcomes' \in [Worlds -> Seq(Outcomes)]
  <2>1. \A s \in Outcomes : [outcomes EXCEPT ![w] = Append(@, s)] \in [Worlds -> Seq(Outcomes)]
    BY AppendedOn DEF Types
  <2>2. CASE Submits(w)
    BY <2>1, <2>2 DEF Submits, Outcomes
  <2>3. CASE UNCHANGED outcomes
    BY <2>3 DEF Types
  <2>4. ASSUME NEW m \in 0 .. 4, NEW s, s \in Stages \/ s \in Outcomes, Leaves(w, m, s)
        PROVE  outcomes' \in [Worlds -> Seq(Outcomes)]
    BY <2>1, <2>3, <2>4 DEF Leaves, Ends
  <2> QED BY <2>2, <2>3, <2>4, FourMoves DEF Begins
<1>7. /\ create' \in [Worlds -> Seq(Nat)] /\ jobcounter' \in [Worlds -> Nat \ {0}]
      /\ jobvec' \in [Worlds -> Seq(Jobs)] /\ made' \in [Worlds -> Seq(Jobs)]
      /\ ran' \in [Worlds -> Seq(Nat)]
  <2>t. /\ create \in [Worlds -> Seq(Nat)] /\ jobcounter \in [Worlds -> Nat \ {0}]
        /\ jobvec \in [Worlds -> Seq(Jobs)] /\ made \in [Worlds -> Seq(Jobs)]
        /\ ran \in [Worlds -> Seq(Nat)]
    BY DEF Types
  <2>c. \A f \in [Worlds -> Seq(Nat)] : [f EXCEPT ![w] = << >>] \in [Worlds -> Seq(Nat)]
    OBVIOUS
  <2>d. [jobvec EXCEPT ![w] = << >>] \in [Worlds -> Seq(Jobs)]
    BY <2>t
  <2>1. CASE AddJob(w)
    <3>1. Place(w) \in Nat /\ create' = [create EXCEPT ![w] = Append(@, Place(w))]
      BY <2>1, Positions DEF AddJob
    <3> QED BY <2>1, <2>t, <3>1, AppendedOn DEF AddJob
  <2>2. ASSUME NEW jobs, Creates(w, jobs)
        PROVE  /\ create' \in [Worlds -> Seq(Nat)] /\ jobcounter' \in [Worlds -> Nat \ {0}]
               /\ jobvec' \in [Worlds -> Seq(Jobs)] /\ made' \in [Worlds -> Seq(Jobs)]
               /\ ran' \in [Worlds -> Seq(Nat)]
    <3> DEFINE c == IF script'[Done(w) + 1] = "addJobPerWorld" THEN swcount ELSE Len(create[w])
    <3>1. c \in Nat
      BY <2>t, WorldsAssumption
    <3>2. jobcounter' = [jobcounter EXCEPT ![w] = @ + c]
      BY <2>2 DEF Creates, Fresh
    <3> HIDE DEF c
    <3>3. jobcounter[w] + c \in Nat \ {0}
      BY <2>t, <3>1
    <3> QED BY <2>2, <2>c, <2>t, <3>2, <3>3, CreatesTo DEF Creates, ClearPendingJobs
  <2>3. CASE InCallMoves(w)
    BY <2>3, <2>t, <2>d, RunsTo DEF InCallMoves, LeavesJobs, Drops, Runs, ClearJobs
  <2> QED BY <2>1, <2>2, <2>3 DEF DataMoves
<1> QED BY <1>1, <1>2, <1>3, <1>4, <1>5, <1>6, <1>7 DEF Types

-----------------------------------------------------------------------------
(* The jobs that are waiting                                               *)

\* How many jobs waited for each operation begun never changes.
LEMMA NumberStays ==
  ASSUME Types, ControlInv, NEW w \in Worlds, Moves(w),
         NEW b \in Nat, b <= Len(script),
         \A p \in 1 .. b : \E n \in 0 .. p - 1 : Submitted(p - 1, n)
  PROVE  \A p \in 1 .. b : \E n \in 0 .. p - 1 : Submitted(p - 1, n)'
<1> SUFFICES ASSUME NEW p \in 1 .. b PROVE \E n \in 0 .. p - 1 : Submitted(p - 1, n)'
  OBVIOUS
<1>1. PICK n \in 0 .. p - 1 : Submitted(p - 1, n)
  OBVIOUS
<1>2. PICK k \in Nat : k = p - 1
  OBVIOUS
<1>3. k <= Len(script) /\ n \in Nat
  BY <1>2, Positions
<1>4. Submitted(k, n)'
  BY <1>1, <1>2, <1>3, SubmittedStays
<1> QED BY <1>2, <1>4

\* A step of one world leaves what is waiting on another.
LEMMA PendingOthers ==
  ASSUME Types, ControlInv, NEW w \in Worlds, Moves(w), DataMoves(w), NEW u \in Worlds \ {w},
         PendingInv(u)
  PROVE  PendingInv(u)'
<1>1. Done(u)' = Done(u) /\ (InCall(u)' <=> InCall(u)) /\ create'[u] = create[u]
      /\ Begun(u)' = Begun(u)
  BY OthersPositions, OthersJobs, BegunGrows
<1>2. PICK d \in Nat, n \in Nat, b \in Nat : d = Done(u) /\ n = Len(create[u]) /\ b = Begun(u)
  <2>1. Done(u) \in Nat /\ Begun(u) \in Nat
    BY Positions, BegunGrows
  <2>2. Len(create[u]) \in Nat
    BY DEF Types
  <2> QED BY <2>1, <2>2
<1>3. d <= Len(script) /\ b <= Len(script)
  BY <1>2, Positions, BegunGrows
<1>4. Submitted(d, n)' <=> Submitted(d, n)
  BY <1>3, SubmittedStays
<1>5. \A p \in 1 .. b : \E k \in 0 .. p - 1 : Submitted(p - 1, k)
  BY <1>2 DEF PendingInv
<1>6. \A p \in 1 .. b : \E k \in 0 .. p - 1 : Submitted(p - 1, k)'
  BY <1>3, <1>5, NumberStays
<1>7. InCall(u)' => create'[u] = << >>
  BY <1>1 DEF PendingInv
<1>8. ~ InCall(u)' => /\ Submitted(Done(u), Len(create[u]))'
                      /\ \A i \in 1 .. Len(create'[u]) : create'[u][i] = Done(u)' - Len(create'[u]) + i
  <2>1. Submitted(Done(u), Len(create[u]))' <=> Submitted(d, n)'
    BY <1>1, <1>2 DEF Submitted
  <2> QED BY <1>1, <1>2, <1>4, <2>1 DEF PendingInv
<1> QED BY <1>1, <1>2, <1>6, <1>7, <1>8 DEF PendingInv

\* What waits on a world is what was submitted since its last operation.
LEMMA PendingStep ==
  ASSUME Types, ControlInv, NEW w \in Worlds, Moves(w), DataMoves(w), PendingInv(w)
  PROVE  PendingInv(w)'
<1>1. PICK d \in Nat, n \in Nat : d = Done(w) /\ n = Len(create[w])
  BY Positions DEF Types
<1>2. d <= Len(script) /\ (~ InCall(w) => Submitted(d, n)') /\ (~ InCall(w) => n <= d)
  <2>1. d <= Len(script)
    BY <1>1, Positions
  <2>2. Submitted(d, n)' <=> Submitted(d, n)
    BY <2>1, SubmittedStays
  <2> QED BY <1>1, <2>1, <2>2 DEF PendingInv, Submitted
<1>3. /\ ~ InCall(w) => Begun(w)' = d + 1 /\ Begun(w) = d
      /\ InCall(w) => Begun(w)' = d + 1 /\ Begun(w) = d + 1 /\ d + 1 <= Len(script)
  BY <1>1, BegunGrows, Positions
<1>4. \A p \in 1 .. Begun(w)' : \E k \in 0 .. p - 1 : Submitted(p - 1, k)'
  <2>1. CASE InCall(w)
    <3>1. \A p \in 1 .. d + 1 : \E k \in 0 .. p - 1 : Submitted(p - 1, k)
      BY <1>3, <2>1 DEF PendingInv
    <3>2. \A p \in 1 .. d + 1 : \E k \in 0 .. p - 1 : Submitted(p - 1, k)'
      BY <1>3, <2>1, <3>1, NumberStays
    <3> QED BY <1>3, <2>1, <3>2
  <2>2. CASE ~ InCall(w)
    <3>1. \A p \in 1 .. d : \E k \in 0 .. p - 1 : Submitted(p - 1, k)
      BY <1>3, <2>2 DEF PendingInv
    <3>2. \A p \in 1 .. d : \E k \in 0 .. p - 1 : Submitted(p - 1, k)'
      BY <1>2, <3>1, NumberStays
    <3>3. n \in 0 .. d + 1 - 1 /\ Submitted(d + 1 - 1, n)'
      <4>1. d + 1 - 1 = d
        OBVIOUS
      <4> QED BY <1>2, <2>2, <4>1
    <3>4. \A p \in 1 .. d + 1 : p = d + 1 \/ p \in 1 .. d
      OBVIOUS
    <3> QED BY <1>3, <2>2, <3>2, <3>3, <3>4
  <2> QED BY <2>1, <2>2
<1>5. CASE AddJob(w) /\ Submits(w)
  <2>1. ~ InCall(w) /\ ~ InCall(w)' /\ Done(w)' = d + 1
    BY <1>1, <1>5, SubmitsTo DEF Submits
  <2>2. script'[d + 1] = "addJob"
    BY <1>1, <1>5, ReadsScript DEF Submits, Operations
  <2>3. /\ Len(create'[w]) = n + 1 /\ create'[w][n + 1] = d + 1
        /\ \A i \in 1 .. n : create'[w][i] = create[w][i]
    <3>1. create' = [create EXCEPT ![w] = Append(@, d + 1)] /\ create \in [Worlds -> Seq(Nat)]
      BY <1>1, <1>5, Positions DEF AddJob, Types
    <3> QED BY <1>1, <3>1, AppendedOn
  <2>4. Submitted(d + 1, n + 1)'
    <3>1. n <= d /\ (\A o \in d - n + 1 .. d : script'[o] = "addJob")
          /\ (n < d => script'[d - n] # "addJob")
      BY <1>2, <2>1 DEF Submitted, OnlyAddsJobs
    <3>2. d + 1 - (n + 1) = d - n /\ d + 1 - (n + 1) + 1 = d - n + 1
      OBVIOUS
    <3>3. \A o \in d - n + 1 .. d + 1 : o = d + 1 \/ o \in d - n + 1 .. d
      OBVIOUS
    <3>4. \A o \in d - n + 1 .. d + 1 : script'[o] = "addJob"
      BY <2>2, <3>1, <3>3
    <3> QED BY <3>1, <3>2, <3>4 DEF Submitted, OnlyAddsJobs
  <2>5. \A i \in 1 .. n : create[w][i] = d - n + i
    BY <1>1, <2>1 DEF PendingInv
  <2>6. \A i \in 1 .. n + 1 : create'[w][i] = d + 1 - (n + 1) + i
    BY <2>3, <2>5
  <2>7. Submitted(Done(w), Len(create[w]))'
    BY <2>1, <2>3, <2>4 DEF Submitted
  <2> QED BY <1>4, <2>1, <2>3, <2>6, <2>7 DEF PendingInv
<1>6. ASSUME NEW jobs, Creates(w, jobs) PROVE PendingInv(w)'
  <2>1. InCall(w)'
    BY <1>6, BeginsTo DEF Creates
  <2>2. create'[w] = << >>
    BY <1>6 DEF Creates, ClearPendingJobs, Types
  <2> QED BY <1>4, <2>1, <2>2 DEF PendingInv
<1>7. CASE InCallMoves(w)
  <2>1. InCall(w) /\ create'[w] = << >> /\ script' = script
    BY <1>7 DEF InCallMoves, PendingInv
  <2>2. CASE InCall(w)'
    BY <1>4, <2>1, <2>2 DEF PendingInv
  <2>3. CASE ~ InCall(w)'
    <3>1. Done(w)' = d + 1
      <4>1. Begun(w)' = d + 1
        BY <1>3, <2>1
      <4> QED BY <2>3, <4>1 DEF Begun
    <3>2. script'[d + 1] # "addJob"
      BY <1>1, <2>1, Positions DEF WorldInv
    <3>3. Submitted(d + 1, 0)'
      <4>1. d + 1 - 0 = d + 1
        OBVIOUS
      <4> QED BY <3>2, <4>1 DEF Submitted, OnlyAddsJobs
    <3>4. Len(create'[w]) = 0
      BY <2>1
    <3>5. Submitted(Done(w), Len(create[w]))'
      BY <3>1, <3>3, <3>4 DEF Submitted
    <3> QED BY <1>4, <2>3, <3>4, <3>5 DEF PendingInv
  <2> QED BY <2>2, <2>3
<1> QED BY <1>5, <1>6, <1>7 DEF DataMoves

-----------------------------------------------------------------------------
(* The jobs that were made                                                 *)

\* A job rightly made stays so.
LEMMA RightStays ==
  ASSUME Types, ControlInv, NEW w \in Worlds, Moves(w), NEW u \in Worlds,
         NEW q \in Nat \ {0}, MadeRightly(u, q)
  PROVE  MadeRightly(u, q)'
<1>1. /\ Begun(u) \in Nat /\ Begun(u)' \in Nat /\ Begun(u) <= Begun(u)' /\ Begun(u) <= Len(script)
  BY BegunGrows, Positions
<1>2. Len(script) \in Nat /\ \A p \in 1 .. Len(script) : script'[p] = script[p]
  BY ScriptGrows
<1>3. CASE q <= Begun(u) /\ script[q] = "addJobPerWorld"
  <2>1. q <= Begun(u)' /\ script'[q] = "addJobPerWorld"
    BY <1>1, <1>2, <1>3
  <2> QED BY <2>1 DEF MadeRightly
<1>4. ASSUME NEW p \in q + 1 .. Begun(u), NEW n \in 0 .. p - 1,
             script[p] = "runJobs", Submitted(p - 1, n), p - n <= q, InBlock(u, n, q - (p - n) + 1)
      PROVE  MadeRightly(u, q)'
  <2>1. p \in q + 1 .. Begun(u)' /\ script'[p] = "runJobs"
    BY <1>1, <1>2, <1>4
  <2>2. PICK k \in Nat : k = p - 1
    BY <1>1
  <2>3. Submitted(k, n)'
    BY <1>1, <1>4, <2>2, SubmittedStays
  <2>4. Submitted(p - 1, n)'
    BY <2>2, <2>3
  <2> QED BY <1>4, <2>1, <2>4 DEF MadeRightly
<1> QED BY <1>3, <1>4 DEF MadeRightly

\* A job was made for an operation of the script before the one that makes it.
LEMMA RightPlace ==
  ASSUME Types, ControlInv, NEW w \in Worlds, NEW q \in Nat \ {0}, MadeRightly(w, q)
  PROVE  /\ q <= Begun(w)
         /\ q = Begun(w) => script[q] = "addJobPerWorld"
<1>1. Begun(w) \in Nat
  BY Positions DEF Begun
<1> QED BY <1>1 DEF MadeRightly

\* The jobs already made on w were submitted before those that are waiting.
LEMMA OldBefore ==
  ASSUME Types, ControlInv, NEW w \in Worlds, PendingInv(w), ~ InCall(w),
         NEW q \in Nat \ {0}, MadeRightly(w, q)
  PROVE  q <= Done(w) - Len(create[w])
<1> DEFINE n == Len(create[w])
<1>1. Done(w) \in Nat /\ n \in Nat /\ Begun(w) = Done(w)
  BY Positions DEF Begun, Types
<1>2. n <= Done(w) /\ \A o \in Done(w) - n + 1 .. Done(w) : script[o] = "addJob"
  BY DEF PendingInv, Submitted, OnlyAddsJobs
<1> HIDE DEF n
<1>3. ASSUME NEW p \in 1 .. Done(w), script[p] # "addJob" PROVE p <= Done(w) - n
  BY <1>1, <1>2, <1>3
<1>4. CASE q <= Begun(w) /\ script[q] = "addJobPerWorld"
  BY <1>1, <1>3, <1>4 DEF n
<1>5. ASSUME NEW p \in q + 1 .. Begun(w), script[p] = "runJobs" PROVE q <= Done(w) - n
  BY <1>1, <1>3, <1>5
<1> QED BY <1>4, <1>5 DEF MadeRightly, n

\* New jobs have ids the world has not used and are rightly made.
LEMMA FreshFacts ==
  ASSUME Types, ControlInv, NEW w \in Worlds, Moves(w), PendingInv(w), NEW jobs, Creates(w, jobs),
         NEW i \in 1 .. Len(jobs)
  PROVE  /\ jobs[i].job \in Nat \ {0} /\ jobs[i].id \in Nat
         /\ jobcounter[w] <= jobs[i].id /\ jobs[i].id < jobcounter'[w]
         /\ Done(w) - Len(create[w]) < jobs[i].job
         /\ MadeRightly(w, jobs[i].job)'
<1>d. PICK d \in Nat, n \in Nat : d = Done(w) /\ n = Len(create[w])
  BY Positions DEF Types
<1> DEFINE op == script'[d + 1]
           c == IF op = "addJobPerWorld" THEN swcount ELSE n
<1>1. /\ n <= d /\ jobcounter[w] \in Nat \ {0} /\ ~ InCall(w)
      /\ jobcounter \in [Worlds -> Nat \ {0}] /\ Submitted(d, n)
  <2>1. ~ InCall(w)
    BY DEF Creates, Begins
  <2> QED BY <1>d, <2>1 DEF PendingInv, Submitted, Types
<1>2. /\ jobs \in Seq(Jobs)
      /\ IF op = "addJobPerWorld"
         THEN jobs[i].job = d + 1 /\ jobs[i].id = jobcounter[w] + w
         ELSE /\ jobs[i].job - (d - n) = jobs[i].id - jobcounter[w] + 1
              /\ InBlock(w, n, jobs[i].id - jobcounter[w] + 1)
      /\ jobcounter' = [jobcounter EXCEPT ![w] = @ + c]
  BY <1>d DEF Creates, Fresh
<1>3. jobs[i].job \in Nat /\ jobs[i].id \in Nat
  <2>1. jobs[i] \in Jobs
    BY <1>2
  <2> QED BY <2>1 DEF Jobs
<1>4. /\ Begun(w)' = d + 1 /\ op \in {"addJobPerWorld", "runJobs"} /\ d <= Len(script)
  BY <1>1, <1>d, BegunGrows, BeginsTo, Positions DEF Creates
<1> HIDE DEF op
<1>5. jobcounter'[w] = jobcounter[w] + c
  <2> HIDE DEF c
  <2> QED BY <1>1, <1>2
<1>6. CASE op = "addJobPerWorld"
  <2>1. w \in Nat /\ swcount \in Nat /\ w < swcount
    BY WorldsAssumption DEF Worlds
  <2>2. jobs[i].job = d + 1 /\ jobs[i].id = jobcounter[w] + w
    BY <1>2, <1>6
  <2>3. MadeRightly(w, jobs[i].job)'
    BY <1>1, <1>4, <1>6, <2>2 DEF MadeRightly, op
  <2> QED BY <1>1, <1>3, <1>5, <1>6, <1>d, <2>1, <2>2, <2>3
<1>7. CASE op # "addJobPerWorld"
  <2>1. PICK j : j = jobs[i].id - jobcounter[w] + 1
    OBVIOUS
  <2>2. j \in Int /\ jobs[i].job = d - n + j /\ InBlock(w, n, j)
    BY <1>1, <1>2, <1>3, <1>7, <2>1
  <2>3. j \in 1 .. n
    BY <1>1, <2>2, BlockRange
  <2>4. op = "runJobs" /\ Submitted(d, n)'
    BY <1>1, <1>4, <1>7, SubmittedStays
  <2>5. MadeRightly(w, jobs[i].job)'
    <3>1. /\ d + 1 \in jobs[i].job + 1 .. Begun(w)' /\ n \in 0 .. d + 1 - 1
          /\ d + 1 - n <= jobs[i].job /\ jobs[i].job - (d + 1 - n) + 1 = j /\ d + 1 - 1 = d
      BY <1>1, <1>3, <1>4, <2>2, <2>3
    <3>2. script'[d + 1] = "runJobs" /\ Submitted(d + 1 - 1, n)'
      BY <2>4, <3>1 DEF op
    <3> QED BY <2>2, <3>1, <3>2 DEF MadeRightly
  <2>6. c = n
    BY <1>7
  <2>7. jobs[i].job > 0 /\ d - n < jobs[i].job
    BY <1>1, <2>2, <2>3
  <2>8. jobcounter[w] <= jobs[i].id /\ jobs[i].id < jobcounter[w] + n
    BY <1>1, <1>3, <2>1, <2>3
  <2> QED BY <1>3, <1>5, <1>d, <2>5, <2>6, <2>7, <2>8
<1> QED BY <1>6, <1>7

\* What the lists of jobs are.
LEMMA JobsTypes ==
  ASSUME Types, NEW w \in Worlds
  PROVE  /\ Len(made[w]) \in Nat /\ Len(jobvec[w]) \in Nat /\ Kept(w) \in Int /\ jobcounter[w] \in Nat \ {0}
         /\ \A i \in 1 .. Len(made[w]) : made[w][i].job \in Nat /\ made[w][i].id \in Nat
<1>1. /\ made[w] \in Seq(Jobs) /\ Len(made[w]) \in Nat /\ Len(jobvec[w]) \in Nat
      /\ jobcounter[w] \in Nat \ {0}
  BY DEF Types
<1>2. \A i \in 1 .. Len(made[w]) : made[w][i] \in Jobs
  BY <1>1
<1> QED BY <1>1, <1>2 DEF Kept, Jobs

\* The places of the jobs made are in the part of the script that w has begun.
LEMMA JobPlaces ==
  ASSUME Types, ControlInv, NEW w \in Worlds, JobsInv(w), NEW i \in 1 .. Len(made[w])
  PROVE  /\ made[w][i].job \in Nat \ {0} /\ MadeRightly(w, made[w][i].job)
         /\ made[w][i].job <= Begun(w)
         /\ made[w][i].job = Begun(w) => script[Begun(w)] = "addJobPerWorld"
<1>1. made[w][i].job \in Nat \ {0} /\ MadeRightly(w, made[w][i].job)
  BY JobsTypes DEF JobsInv
<1> QED BY <1>1, RightPlace

\* A step of one world leaves the jobs of another.
LEMMA JobsOthers ==
  ASSUME Types, ControlInv, NEW w \in Worlds, Moves(w), DataMoves(w), NEW u \in Worlds \ {w},
         JobsInv(u)
  PROVE  JobsInv(u)'
<1>1. /\ jobcounter'[u] = jobcounter[u] /\ jobvec'[u] = jobvec[u] /\ made'[u] = made[u]
      /\ Kept(u)' = Kept(u)
  BY OthersJobs DEF Kept
<1>2. /\ Done(u)' = Done(u) /\ pc'[u] = pc[u] /\ (InCall(u)' <=> InCall(u)) /\ (Keeps(u)' <=> Keeps(u))
  <2>1. InCall(u) => Operation(u)' = Operation(u)
    BY OthersPositions
  <2> QED BY <2>1, OthersPositions DEF Keeps, InCall
<1>3. /\ Done(u) \in Nat /\ Done(u) <= Len(script) /\ Len(script) \in Nat
      /\ \A p \in 1 .. Len(script) : script'[p] = script[p]
  BY Positions, ScriptGrows
<1>4. \A i \in 1 .. Len(made[u]) : MadeRightly(u, made[u][i].job)'
  <2> SUFFICES ASSUME NEW i \in 1 .. Len(made[u]) PROVE MadeRightly(u, made[u][i].job)'
    OBVIOUS
  <2>1. PICK q \in Nat \ {0} : q = made[u][i].job
    BY JobPlaces
  <2>2. MadeRightly(u, q)'
    BY <2>1, JobPlaces, RightStays
  <2>3. made'[u][i].job = q
    BY <1>1, <2>1
  <2> QED BY <2>2, <2>3 DEF MadeRightly
<1>5. \A i \in 1 .. Len(made[u]) :
        (\A o \in made[u][i].job + 1 .. Done(u) : script'[o] # "runJobs")
          => (\A o \in made[u][i].job + 1 .. Done(u) : script[o] # "runJobs")
  BY <1>3, JobPlaces
<1>6. \A i \in 1 .. Len(made'[u]) : MadeRightly(u, made[u][i].job)'
  BY <1>1, <1>4
<1> QED BY <1>1, <1>2, <1>3, <1>5, <1>6 DEF JobsInv

\* addJob makes no job,
LEMMA JobsSubmit ==
  ASSUME Types, ControlInv, NEW w \in Worlds, Moves(w), JobsInv(w), AddJob(w), Submits(w)
  PROVE  JobsInv(w)'
<1>1. /\ jobcounter' = jobcounter /\ jobvec' = jobvec /\ made' = made /\ Kept(w)' = Kept(w)
  BY DEF AddJob, Kept
<1>2. /\ Done(w)' = Done(w) + 1 /\ ~ InCall(w) /\ ~ InCall(w)' /\ Keeps(w) /\ pc' = pc
      /\ script'[Done(w) + 1] = "addJob"
  BY SubmitsTo DEF Keeps, InCall
<1>3. /\ Done(w) \in Nat /\ Done(w) <= Len(script) /\ Len(script) \in Nat
      /\ \A p \in 1 .. Len(script) : script'[p] = script[p]
  BY Positions, ScriptGrows
<1>4. \A i \in 1 .. Len(made[w]) : MadeRightly(w, made[w][i].job)'
  <2> SUFFICES ASSUME NEW i \in 1 .. Len(made[w]) PROVE MadeRightly(w, made[w][i].job)'
    OBVIOUS
  <2>1. PICK q \in Nat \ {0} : q = made[w][i].job
    BY JobPlaces
  <2>2. MadeRightly(w, q)'
    BY <2>1, JobPlaces, RightStays
  <2> QED BY <1>1, <2>1, <2>2 DEF MadeRightly
<1>5. \A i \in 1 .. Len(made[w]) :
        (\A o \in made[w][i].job + 1 .. Done(w) + 1 : script'[o] # "runJobs")
          => (\A o \in made[w][i].job + 1 .. Done(w) : script[o] # "runJobs")
  BY <1>3, JobPlaces
<1> QED BY <1>1, <1>2, <1>3, <1>4, <1>5 DEF JobsInv, InCall

\* what an operation makes is in order and new,
LEMMA JobsCreate ==
  ASSUME Types, ControlInv, NEW w \in Worlds, Moves(w), PendingInv(w), JobsInv(w),
         NEW jobs, Creates(w, jobs)
  PROVE  JobsInv(w)'
<1> DEFINE l == Len(made[w])
           v == Len(jobvec[w])
           k == Len(jobs)
<1>1. /\ l \in Nat /\ v \in Nat /\ k \in Nat
      /\ Len(made'[w]) = l + k /\ Len(jobvec'[w]) = v + k
      /\ \A i \in 1 .. l : made'[w][i] = made[w][i]
      /\ \A i \in 1 .. v : jobvec'[w][i] = jobvec[w][i]
      /\ \A i \in 1 .. k : made'[w][l + i] = jobs[i] /\ jobvec'[w][v + i] = jobs[i]
  BY CreatesTo
<1>2. /\ Done(w)' = Done(w) /\ ~ InCall(w) /\ InCall(w)' /\ Keeps(w) /\ pc'[w] = "creating"
  BY BeginsTo DEF Keeps, InCall, Creates
<1>3. /\ Done(w) \in Nat /\ Done(w) <= Len(script) /\ Len(script) \in Nat
      /\ \A p \in 1 .. Len(script) : script'[p] = script[p]
  BY Positions, ScriptGrows
<1>4. /\ \A i \in 1 .. k :
           /\ jobs[i].job \in Nat \ {0} /\ jobs[i].id \in Nat
           /\ jobcounter[w] <= jobs[i].id /\ jobs[i].id < jobcounter'[w]
           /\ Done(w) - Len(create[w]) < jobs[i].job
           /\ MadeRightly(w, jobs[i].job)'
      /\ \A i, j \in 1 .. k : i < j => jobs[i].id < jobs[j].id /\ jobs[i].job < jobs[j].job
  BY FreshFacts DEF Creates, Fresh
<1>5. /\ jobcounter[w] \in Nat /\ jobcounter'[w] \in Nat /\ jobcounter[w] <= jobcounter'[w]
      /\ Kept(w)' = Kept(w) /\ Kept(w) = l - v /\ Len(create[w]) \in Nat
  <2>1. Len(create[w]) \in Nat /\ jobcounter[w] \in Nat /\ jobcounter \in [Worlds -> Nat \ {0}]
    BY DEF Types
  <2> DEFINE c == IF script'[Done(w) + 1] = "addJobPerWorld" THEN swcount ELSE Len(create[w])
  <2>2. c \in Nat
    BY <2>1, WorldsAssumption
  <2>3. jobcounter' = [jobcounter EXCEPT ![w] = @ + c]
    BY DEF Creates, Fresh
  <2> HIDE DEF c
  <2> QED BY <1>1, <2>1, <2>2, <2>3 DEF Kept
<1>6. \A i \in 1 .. l :
        /\ made[w][i].job \in Nat \ {0} /\ made[w][i].id \in Nat
        /\ 0 < made[w][i].id /\ made[w][i].id < jobcounter[w]
        /\ MadeRightly(w, made[w][i].job)'
        /\ made[w][i].job <= Done(w) - Len(create[w])
  <2> SUFFICES ASSUME NEW i \in 1 .. l
               PROVE  /\ made[w][i].job \in Nat \ {0} /\ made[w][i].id \in Nat
                      /\ 0 < made[w][i].id /\ made[w][i].id < jobcounter[w]
                      /\ MadeRightly(w, made[w][i].job)'
                      /\ made[w][i].job <= Done(w) - Len(create[w])
    OBVIOUS
  <2>1. PICK q \in Nat \ {0} : q = made[w][i].job
    BY JobPlaces
  <2>2. MadeRightly(w, q)
    BY <2>1, JobPlaces
  <2>3. MadeRightly(w, q)'
    BY <2>2, RightStays
  <2>4. q <= Done(w) - Len(create[w])
    BY <1>2, <2>2, OldBefore
  <2>5. MadeRightly(w, made[w][i].job)'
    BY <1>1, <2>1, <2>3 DEF MadeRightly
  <2> QED BY <2>1, <2>4, <2>5, JobsTypes DEF JobsInv
<1> HIDE DEF l, v, k
<1>7. \A i \in 1 .. l + k : i \in 1 .. l \/ \E h \in 1 .. k : i = l + h
  <2> SUFFICES ASSUME NEW i \in 1 .. l + k, ~ (i \in 1 .. l) PROVE \E h \in 1 .. k : i = l + h
    OBVIOUS
  <2>1. i - l \in 1 .. k /\ i = l + (i - l)
    BY <1>1
  <2> QED BY <2>1
<1>8. \A i \in 1 .. l + k :
        /\ 0 < made'[w][i].id /\ made'[w][i].id < jobcounter'[w]
        /\ 0 < made'[w][i].job /\ MadeRightly(w, made[w][i].job)'
  <2> SUFFICES ASSUME NEW i \in 1 .. l + k
               PROVE  /\ 0 < made'[w][i].id /\ made'[w][i].id < jobcounter'[w]
                      /\ 0 < made'[w][i].job /\ MadeRightly(w, made[w][i].job)'
    OBVIOUS
  <2>1. CASE i \in 1 .. l
    <3>1. made'[w][i] = made[w][i] /\ made[w][i].id \in Nat /\ made[w][i].job \in Nat \ {0}
          /\ 0 < made[w][i].id /\ made[w][i].id < jobcounter[w]
      BY <1>1, <1>6, <2>1
    <3>2. MadeRightly(w, made[w][i].job)'
      BY <1>6, <2>1
    <3> QED BY <1>5, <3>1, <3>2
  <2>2. ASSUME NEW h \in 1 .. k, i = l + h
        PROVE  /\ 0 < made'[w][i].id /\ made'[w][i].id < jobcounter'[w]
               /\ 0 < made'[w][i].job /\ MadeRightly(w, made[w][i].job)'
    <3>1. made'[w][i] = jobs[h]
      BY <1>1, <2>2
    <3>2. jobcounter[w] > 0
      BY DEF Types
    <3>3. MadeRightly(w, made[w][i].job)'
      BY <1>4, <3>1 DEF MadeRightly
    <3> QED BY <1>4, <1>5, <3>1, <3>2, <3>3
  <2> QED BY <1>7, <2>1, <2>2
<1>9. \A i, j \in 1 .. l + k :
        i < j => made'[w][i].id < made'[w][j].id /\ made'[w][i].job < made'[w][j].job
  <2> SUFFICES ASSUME NEW i \in 1 .. l + k, NEW j \in 1 .. l + k, i < j
               PROVE  made'[w][i].id < made'[w][j].id /\ made'[w][i].job < made'[w][j].job
    OBVIOUS
  <2>1. CASE i \in 1 .. l /\ j \in 1 .. l
    BY <1>1, <2>1 DEF JobsInv, l
  <2>2. ASSUME i \in 1 .. l, NEW h \in 1 .. k, j = l + h
        PROVE  made'[w][i].id < made'[w][j].id /\ made'[w][i].job < made'[w][j].job
    <3>1. made'[w][j] = jobs[h] /\ made'[w][i] = made[w][i]
      BY <1>1, <2>2
    <3> QED BY <1>3, <1>4, <1>5, <1>6, <2>2, <3>1
  <2>3. ASSUME NEW g \in 1 .. k, i = l + g, NEW h \in 1 .. k, j = l + h
        PROVE  made'[w][i].id < made'[w][j].id /\ made'[w][i].job < made'[w][j].job
    <3>1. made'[w][j] = jobs[h] /\ made'[w][i] = jobs[g] /\ g < h
      BY <1>1, <2>3
    <3> QED BY <1>4, <3>1
  <2>4. ASSUME NEW g \in 1 .. k, i = l + g PROVE ~ (j \in 1 .. l)
    BY <1>1, <2>4
  <2> QED BY <1>7, <2>1, <2>2, <2>3, <2>4
<1>10. Kept(w)' >= 0 /\ \A i \in 1 .. v + k : jobvec'[w][i] = made'[w][Kept(w)' + i]
  <2>1. Kept(w) >= 0 /\ \A i \in 1 .. v : jobvec[w][i] = made[w][Kept(w) + i]
    BY DEF JobsInv, v
  <2>2. ASSUME NEW i \in 1 .. v + k PROVE jobvec'[w][i] = made'[w][Kept(w) + i]
    <3>1. CASE i \in 1 .. v
      <4>1. Kept(w) + i \in 1 .. l
        BY <1>1, <1>5, <2>1, <3>1
      <4> QED BY <1>1, <2>1, <3>1, <4>1
    <3>2. CASE ~ (i \in 1 .. v)
      <4>1. i - v \in 1 .. k /\ v + (i - v) = i /\ l + (i - v) = Kept(w) + i
        BY <1>1, <1>5, <3>2
      <4> QED BY <1>1, <4>1
    <3> QED BY <3>1, <3>2
  <2> QED BY <1>5, <2>1, <2>2
<1>11. \A i \in 1 .. l + k :
         (\A o \in made'[w][i].job + 1 .. Done(w)' : script'[o] # "runJobs") => i > Kept(w)'
  <2> SUFFICES ASSUME NEW i \in 1 .. l + k,
                      \A o \in made'[w][i].job + 1 .. Done(w)' : script'[o] # "runJobs"
               PROVE  i > Kept(w)
    BY <1>5
  <2>1. CASE i \in 1 .. l
    <3>1. made'[w][i] = made[w][i] /\ made[w][i].job \in Nat
      BY <1>1, <1>6, <2>1
    <3>2. \A o \in made[w][i].job + 1 .. Done(w) : script[o] # "runJobs"
      BY <1>2, <1>3, <3>1
    <3> QED BY <1>2, <2>1, <3>2 DEF JobsInv, l
  <2>2. CASE ~ (i \in 1 .. l)
    BY <1>1, <1>5, <2>2
  <2> QED BY <2>1, <2>2
<1> QED BY <1>1, <1>2, <1>8, <1>9, <1>10, <1>11 DEF JobsInv

\* and inside a call the script and the operation stay,
LEMMA InCallPositions ==
  ASSUME Types, ControlInv, NEW w \in Worlds, Moves(w), InCallMoves(w)
  PROVE  /\ InCall(w) /\ script' = script /\ Operation(w) = script[Done(w) + 1]
         /\ Done(w) \in Nat /\ Done(w) + 1 <= Len(script) /\ Len(script) \in Nat
         /\ Begun(w) = Done(w) + 1 /\ Begun(w)' = Done(w) + 1
         /\ IF InCall(w)' THEN Done(w)' = Done(w) ELSE Done(w)' = Done(w) + 1
         /\ InCall(w)' => Operation(w)' = Operation(w)
         /\ pc'[w] = "script" <=> ~ InCall(w)'
<1>1. InCall(w) /\ script' = script
  BY DEF InCallMoves
<1>2. /\ Operation(w) = script[Done(w) + 1] /\ Done(w) \in Nat
      /\ Done(w) + 1 <= Len(script) /\ Len(script) \in Nat
  BY <1>1, Positions
<1>3. Begun(w) = Done(w) + 1 /\ Begun(w)' = Done(w) + 1
  BY <1>1, BegunGrows
<1>4. Done(w)' \in Nat
  <2>1. \A m \in 0 .. 4, s \in Stages \cup Outcomes : Leaves(w, m, s) => Done(w)' \in Nat
    BY <1>2, ContinuesTo, EndsTo
  <2> QED BY <1>1, <2>1, FourMoves DEF Submits, Begins
<1>5. IF InCall(w)' THEN Done(w)' = Done(w) ELSE Done(w)' = Done(w) + 1
  BY <1>2, <1>3, <1>4 DEF Begun
<1>6. Operation(w)' = script'[Place(w)'] /\ Place(w)' = Done(w)' + 1
  BY DEF Operation, Place, Done
<1> QED BY <1>1, <1>2, <1>3, <1>5, <1>6 DEF InCall

\* so that what is kept are the last of those made.
LEMMA JobsInCall ==
  ASSUME Types, ControlInv, NEW w \in Worlds, Moves(w), JobsInv(w), InCallMoves(w)
  PROVE  JobsInv(w)'
<1>1. /\ InCall(w) /\ script' = script /\ Operation(w) = script[Done(w) + 1]
      /\ Done(w) \in Nat /\ Done(w) + 1 <= Len(script) /\ Len(script) \in Nat
      /\ Begun(w) = Done(w) + 1
      /\ IF InCall(w)' THEN Done(w)' = Done(w) ELSE Done(w)' = Done(w) + 1
      /\ pc'[w] = "script" <=> ~ InCall(w)'
  BY InCallPositions
<1>2. jobcounter' = jobcounter /\ made' = made /\ jobvec \in [Worlds -> Seq(Jobs)]
  BY DEF InCallMoves, Types
<1>3. \A i \in 1 .. Len(made[w]) : MadeRightly(w, made[w][i].job)'
  <2> SUFFICES ASSUME NEW i \in 1 .. Len(made[w]) PROVE MadeRightly(w, made[w][i].job)'
    OBVIOUS
  <2>1. PICK q \in Nat \ {0} : q = made[w][i].job
    BY JobPlaces
  <2>2. MadeRightly(w, q)'
    BY <2>1, JobPlaces, RightStays
  <2> QED BY <1>2, <2>1, <2>2 DEF MadeRightly
<1>j. Len(made[w]) \in Nat /\ \A i \in 1 .. Len(made[w]) : made[w][i].job \in Nat \ {0}
  BY JobsTypes, JobPlaces
<1>4. ASSUME jobvec' = jobvec, pc'[w] # "comparing", Keeps(w)' => Keeps(w),
             pc'[w] = "script" => Operation(w) = "addJobPerWorld"
      PROVE  JobsInv(w)'
  <2>1. Kept(w)' = Kept(w)
    BY <1>2, <1>4 DEF Kept
  <2>2. ~ InCall(w)' => script'[Done(w)'] # "runJobs"
    BY <1>1, <1>4
  <2>3. \A i \in 1 .. Len(made[w]) :
          (\A o \in made[w][i].job + 1 .. Done(w)' : script'[o] # "runJobs")
            => (\A o \in made[w][i].job + 1 .. Done(w) : script[o] # "runJobs")
    BY <1>1, <1>j
  <2> QED BY <1>2, <1>3, <1>4, <2>1, <2>2, <2>3 DEF JobsInv
<1>5. CASE Drops(w)
  <2>1. jobvec'[w] = << >> /\ Operation(w) = "runJobs" /\ pc'[w] \in {"comparing", "script"}
    BY <1>2, <1>5 DEF Drops, ClearJobs
  <2>2. Len(jobvec'[w]) = 0 /\ Kept(w)' = Len(made[w])
    BY <1>2, <1>j, <2>1 DEF Kept
  <2>3. ASSUME Keeps(w)', NEW i \in 1 .. Len(made[w]),
               \A o \in made[w][i].job + 1 .. Done(w)' : script'[o] # "runJobs"
        PROVE  FALSE
    <3>1. pc'[w] = "script" /\ Done(w)' = Done(w) + 1
      BY <1>1, <2>1, <2>3 DEF Keeps
    <3>2. script[Done(w) + 1] = "runJobs"
      BY <1>1, <2>1
    <3>3. made[w][i].job <= Done(w) + 1 /\ made[w][i].job # Done(w) + 1
      BY <1>1, <3>2, JobPlaces
    <3>4. Done(w) + 1 \in made[w][i].job + 1 .. Done(w)'
      BY <1>1, <1>j, <3>1, <3>3
    <3> QED BY <1>1, <2>3, <3>2, <3>4
  <2>4. Kept(w)' >= 0 /\ (\A i \in 1 .. Len(jobvec'[w]) : jobvec'[w][i] = made'[w][Kept(w)' + i])
        /\ (Keeps(w)' => \A i \in 1 .. Len(made'[w]) :
             (\A o \in made'[w][i].job + 1 .. Done(w)' : script'[o] # "runJobs") => i > Kept(w)')
    BY <1>2, <1>j, <2>2, <2>3
  <2>5. /\ \A i \in 1 .. Len(made'[w]) :
             /\ 0 < made'[w][i].id /\ made'[w][i].id < jobcounter'[w]
             /\ 0 < made'[w][i].job /\ MadeRightly(w, made[w][i].job)'
        /\ \A i, j \in 1 .. Len(made'[w]) :
             i < j => made'[w][i].id < made'[w][j].id /\ made'[w][i].job < made'[w][j].job
    BY <1>2, <1>3 DEF JobsInv
  <2> QED BY <2>1, <2>4, <2>5 DEF JobsInv
<1>6. ASSUME NEW k \in Nat, Runs(w, k) PROVE JobsInv(w)'
  <2>1. jobvec' = jobvec /\ pc'[w] = "joining" /\ Keeps(w)
    BY <1>6 DEF Runs, Keeps
  <2> QED BY <1>4, <2>1
<1> QED BY <1>4, <1>5, <1>6 DEF InCallMoves, LeavesJobs

\* Every step keeps the invariant of a world's jobs.
LEMMA JobsStep ==
  ASSUME Types, ControlInv, NEW w \in Worlds, Moves(w), DataMoves(w), PendingInv(w), JobsInv(w)
  PROVE  JobsInv(w)'
  BY JobsSubmit, JobsCreate, JobsInCall DEF DataMoves

-----------------------------------------------------------------------------
(* The jobs that were run                                                  *)

\* A step of one world leaves what another has run.
LEMMA RanOthers ==
  ASSUME Types, ControlInv, NEW w \in Worlds, Moves(w), DataMoves(w), NEW u \in Worlds \ {w},
         RanInv(u)
  PROVE  RanInv(u)'
<1>1. jobcounter'[u] = jobcounter[u] /\ jobvec'[u] = jobvec[u] /\ ran'[u] = ran[u] /\ pc'[u] = pc[u]
  BY OthersJobs, OthersPositions
<1> QED BY <1>1 DEF RanInv

\* The ids of the jobs on a world increase, and are in use.
LEMMA KeptIds ==
  ASSUME Types, NEW w \in Worlds, JobsInv(w)
  PROVE  /\ \A i \in 1 .. Len(jobvec[w]) : jobvec[w][i].id \in Nat /\ jobvec[w][i].id < jobcounter[w]
         /\ \A i, j \in 1 .. Len(jobvec[w]) : i < j => jobvec[w][i].id < jobvec[w][j].id
<1>1. PICK l \in Nat, v \in Nat, k \in Int :
        l = Len(made[w]) /\ v = Len(jobvec[w]) /\ k = Kept(w) /\ k = l - v
  BY JobsTypes DEF Kept
<1>2. /\ k >= 0 /\ \A i \in 1 .. v : jobvec[w][i] = made[w][k + i]
      /\ \A i \in 1 .. l : made[w][i].id < jobcounter[w]
      /\ \A i, j \in 1 .. l : i < j => made[w][i].id < made[w][j].id
  BY <1>1 DEF JobsInv
<1>3. \A i \in 1 .. l : made[w][i].id \in Nat
  BY <1>1, JobsTypes
<1>4. \A i \in 1 .. v : k + i \in 1 .. l
  <2>1. k = l - v /\ k >= 0
    BY <1>1, <1>2
  <2> QED BY <2>1
<1>5. \A i, j \in 1 .. v : i < j => k + i < k + j
  OBVIOUS
<1>6. \A i \in 1 .. v : jobvec[w][i].id \in Nat /\ jobvec[w][i].id < jobcounter[w]
  BY <1>2, <1>3, <1>4
<1>7. \A i, j \in 1 .. v : i < j => jobvec[w][i].id < jobvec[w][j].id
  BY <1>2, <1>4, <1>5
<1> QED BY <1>1, <1>6, <1>7

\* What a world has run are jobs it has made, each once.
LEMMA RanStep ==
  ASSUME Types, ControlInv, NEW w \in Worlds, Moves(w), DataMoves(w), PendingInv(w), JobsInv(w),
         RanInv(w)
  PROVE  RanInv(w)'
<1>t. /\ Len(ran[w]) \in Nat /\ Len(jobvec[w]) \in Nat /\ jobcounter[w] \in Nat
      /\ \A i \in 1 .. Len(ran[w]) : ran[w][i] \in Nat
  <2>1. ran[w] \in Seq(Nat)
    BY DEF Types
  <2> QED BY <2>1, JobsTypes
<1>1. CASE AddJob(w) /\ Submits(w)
  BY <1>1 DEF AddJob, Submits, RanInv
<1>2. ASSUME NEW jobs, Creates(w, jobs) PROVE RanInv(w)'
  <2>1. /\ Len(jobs) \in Nat /\ Len(jobvec'[w]) = Len(jobvec[w]) + Len(jobs)
        /\ \A i \in 1 .. Len(jobvec[w]) : jobvec'[w][i] = jobvec[w][i]
        /\ \A i \in 1 .. Len(jobs) : jobvec'[w][Len(jobvec[w]) + i] = jobs[i]
    <3>1. /\ Len(jobs) \in Nat /\ Len(jobvec'[w]) = Len(jobvec[w]) + Len(jobs)
          /\ \A i \in 1 .. Len(jobvec[w]) : jobvec'[w][i] = jobvec[w][i]
      BY <1>2, CreatesTo
    <3>2. \A i \in 1 .. Len(jobs) : jobvec'[w][Len(jobvec[w]) + i] = jobs[i]
      BY <1>2, CreatesTo
    <3> QED BY <3>1, <3>2
  <2>2. \A i \in 1 .. Len(jobs) : /\ jobs[i].id \in Nat /\ jobcounter[w] <= jobs[i].id
                                  /\ jobs[i].id < jobcounter'[w]
    BY <1>2, FreshFacts
  <2>3. pc[w] # "joining" /\ ran' = ran
    BY <1>2 DEF Creates, Begins, InCall
  <2>4. jobcounter'[w] \in Nat /\ jobcounter[w] <= jobcounter'[w]
    <3> DEFINE c == IF script'[Done(w) + 1] = "addJobPerWorld" THEN swcount ELSE Len(create[w])
    <3>1. c \in Nat /\ jobcounter \in [Worlds -> Nat \ {0}]
      BY WorldsAssumption DEF Types
    <3>2. jobcounter' = [jobcounter EXCEPT ![w] = @ + c]
      BY <1>2 DEF Creates, Fresh
    <3> HIDE DEF c
    <3> QED BY <1>t, <3>1, <3>2
  <2>5. \A i \in 1 .. Len(ran[w]) : ran[w][i] < jobcounter[w] /\ ran[w][i] < jobcounter'[w]
    BY <1>t, <2>4 DEF RanInv
  <2>6. ASSUME NEW i \in 1 .. Len(ran[w]), NEW j \in 1 .. Len(jobvec[w]) + Len(jobs)
        PROVE  ran[w][i] < jobvec'[w][j].id
    <3>1. CASE j \in 1 .. Len(jobvec[w])
      BY <2>1, <2>3, <3>1 DEF RanInv
    <3>2. CASE ~ (j \in 1 .. Len(jobvec[w]))
      <4>1. j - Len(jobvec[w]) \in 1 .. Len(jobs) /\ Len(jobvec[w]) + (j - Len(jobvec[w])) = j
        BY <1>t, <2>1, <3>2
      <4>2. jobvec'[w][j] = jobs[j - Len(jobvec[w])]
        BY <2>1, <4>1
      <4> QED BY <1>t, <2>2, <2>5, <4>1, <4>2
    <3> QED BY <3>1, <3>2
  <2> QED BY <2>1, <2>3, <2>5, <2>6 DEF RanInv
<1>3. CASE InCallMoves(w)
  <2>1. jobcounter' = jobcounter
    BY <1>3 DEF InCallMoves
  <2>2. CASE Drops(w)
    <3>1. Len(jobvec'[w]) = 0
      BY <2>2 DEF Drops, ClearJobs, Types
    <3> QED BY <2>1, <2>2, <3>1 DEF Drops, RanInv
  <2>3. CASE LeavesJobs(w)
    <3>1. pc[w] = "joining" => pc'[w] \in {"joining", "comparing"}
      <4>1. InCall(w)
        BY <1>3 DEF InCallMoves
      <4>2. PICK m \in 0 .. 4 : Leaves(w, m, After(pc[w], Operation(w), mres[w], m))
        BY <4>1 DEF Moves, Submits, Begins
      <4> QED BY <4>2 DEF Leaves, After, Outcomes, Types
    <3>2. pc'[w] # "joining" => pc[w] # "joining"
      BY <2>3, <3>1 DEF LeavesJobs
    <3> QED BY <2>1, <2>3, <3>2 DEF LeavesJobs, RanInv
  <2>4. ASSUME NEW k \in Nat, Runs(w, k) PROVE RanInv(w)'
    <3>1. /\ Len(ran'[w]) = Len(ran[w]) + k
          /\ \A i \in 1 .. Len(ran[w]) : ran'[w][i] = ran[w][i]
          /\ \A i \in 1 .. k : ran'[w][Len(ran[w]) + i] = jobvec[w][i].id
      BY <2>4, RunsTo
    <3>2. pc'[w] = "joining" /\ k <= Len(jobvec[w])
          /\ \A i \in 1 .. Len(ran[w]), j \in 1 .. Len(jobvec[w]) : ran[w][i] < jobvec[w][j].id
      BY <2>4 DEF Runs, RanInv
    <3>3. \A i \in 1 .. Len(ran[w]) + k : i \in 1 .. Len(ran[w]) \/ \E h \in 1 .. k : i = Len(ran[w]) + h
      <4> SUFFICES ASSUME NEW i \in 1 .. Len(ran[w]) + k, ~ (i \in 1 .. Len(ran[w]))
                   PROVE  \E h \in 1 .. k : i = Len(ran[w]) + h
        OBVIOUS
      <4>1. i - Len(ran[w]) \in 1 .. k /\ i = Len(ran[w]) + (i - Len(ran[w]))
        BY <1>t
      <4> QED BY <4>1
    <3>4. \A i \in 1 .. k : i \in 1 .. Len(jobvec[w])
      BY <1>t, <3>2
    <3>5. \A i \in 1 .. Len(ran'[w]) : ran'[w][i] < jobcounter'[w]
      <4>1. \A i \in 1 .. k : jobvec[w][i].id < jobcounter[w]
        BY <3>4, KeptIds
      <4>2. \A i \in 1 .. Len(ran[w]) : ran[w][i] < jobcounter[w]
        BY DEF RanInv
      <4>3. ASSUME NEW i \in 1 .. Len(ran[w]) + k PROVE ran'[w][i] < jobcounter[w]
        BY <3>1, <3>3, <4>1, <4>2
      <4> QED BY <2>1, <3>1, <4>3
    <3>6. ASSUME NEW i \in 1 .. Len(ran[w]) + k, NEW j \in 1 .. Len(ran[w]) + k, i < j
          PROVE  ran'[w][i] < ran'[w][j]
      <4>1. CASE i \in 1 .. Len(ran[w]) /\ j \in 1 .. Len(ran[w])
        BY <3>1, <3>6, <4>1 DEF RanInv
      <4>2. ASSUME i \in 1 .. Len(ran[w]), NEW h \in 1 .. k, j = Len(ran[w]) + h
            PROVE  ran'[w][i] < ran'[w][j]
        BY <3>1, <3>2, <3>4, <4>2
      <4>3. ASSUME NEW g \in 1 .. k, i = Len(ran[w]) + g, NEW h \in 1 .. k, j = Len(ran[w]) + h
            PROVE  ran'[w][i] < ran'[w][j]
        <5>1. g < h
          BY <1>t, <3>6, <4>3
        <5>2. jobvec[w][g].id < jobvec[w][h].id
          BY <3>4, <5>1, KeptIds
        <5> QED BY <3>1, <4>3, <5>2
      <4>4. ASSUME NEW g \in 1 .. k, i = Len(ran[w]) + g PROVE ~ (j \in 1 .. Len(ran[w]))
        BY <1>t, <3>6, <4>4
      <4> QED BY <3>3, <4>1, <4>2, <4>3, <4>4
    <3> QED BY <3>1, <3>2, <3>5, <3>6 DEF RanInv
  <2> QED BY <1>3, <2>2, <2>3, <2>4 DEF InCallMoves
<1> QED BY <1>1, <1>2, <1>3 DEF DataMoves

-----------------------------------------------------------------------------
(* The ids of jobs                                                         *)

\* A call to which every world has come has a result.
LEMMA ResultExists ==
  ASSUME Types, NEW k \in Nat \ {0}, \A u \in Worlds : k <= Brought(u)
  PROVE  \E m \in 0 .. 4 : Result(k, m)
<1> DEFINE value(u) == brought[u][k].value
<1>1. \A u \in Worlds : value(u) \in 0 .. 4 /\ Brought(u) >= k
  <2> SUFFICES ASSUME NEW u \in Worlds PROVE value(u) \in 0 .. 4 /\ Brought(u) >= k
    OBVIOUS
  <2>1. brought[u] \in Seq(BroughtCalls) /\ Len(brought[u]) \in Nat
    BY DEF Types, BroughtCalls
  <2>2. k \in 1 .. Len(brought[u])
    BY <2>1 DEF Brought
  <2>3. brought[u][k] \in BroughtCalls
    BY <2>1, <2>2
  <2> QED BY <2>1, <2>2, <2>3 DEF BroughtCalls, Brought
<1>2. 0 \in Worlds
  BY WorldsAssumption DEF Worlds
<1>3. \A m : (\A u \in Worlds : value(u) <= m) /\ (\E u \in Worlds : value(u) = m) => Result(k, m)
  BY <1>1 DEF Result
<1> HIDE DEF value
<1>4. \E m \in 0 .. 4 : (\A u \in Worlds : value(u) <= m) /\ (\E u \in Worlds : value(u) = m)
  <2>1. CASE \E u \in Worlds : value(u) = 4
    BY <1>1, <2>1
  <2>2. CASE (\A u \in Worlds : value(u) <= 3) /\ \E u \in Worlds : value(u) = 3
    BY <1>1, <2>2
  <2>3. CASE (\A u \in Worlds : value(u) <= 2) /\ \E u \in Worlds : value(u) = 2
    BY <1>1, <2>3
  <2>4. CASE (\A u \in Worlds : value(u) <= 1) /\ \E u \in Worlds : value(u) = 1
    BY <1>1, <2>4
  <2>5. CASE \A u \in Worlds : value(u) = 0
    BY <1>1, <1>2, <2>5
  <2> QED BY <1>1, <2>1, <2>2, <2>3, <2>4, <2>5
<1> QED BY <1>3, <1>4

\* When w begins an operation, no other world has come further than that.
LEMMA WhoBegins ==
  ASSUME Types, ControlInv, NEW w \in Worlds, Begins(w), NEW b \in Worlds \ {w}
  PROVE  \/ Begun(b) <= Done(w)
         \/ pc[b] = "creating" /\ Done(b) = Done(w) /\ InCall(b)
<1>1. ~ InCall(w) /\ script'[Done(w) + 1] \in {"addJobPerWorld", "runJobs"}
  BY BeginsTo
<1>2. /\ Done(w) \in Nat /\ Done(b) \in Nat /\ took[b] \in Nat /\ took[w] \in Nat
      /\ Done(b) <= Len(script) /\ Len(script) \in Nat
      /\ Begun(b) = IF InCall(b) THEN Done(b) + 1 ELSE Done(b)
  BY Positions DEF Begun
<1>3. \A p \in 1 .. Len(script) : script'[p] = script[p]
  <2>1. Moves(w)
    BY DEF Moves
  <2> QED BY <2>1, ScriptGrows
<1>4. /\ took[w] = Brought(w) /\ took[b] <= took[w]
      /\ took[b] = took[w] => Abreast(w, b) /\ Abreast(b, w)
      /\ took[b] < took[w] => InCall(b)
      /\ \A m \in 0 .. 4 : took[b] < took[w] /\ Result(took[w], m) =>
           Follows(w, b, m) /\ After(pc[b], Operation(b), mres[b], m) \in Outcomes
  BY <1>1, FreeWorld
<1>5. CASE took[b] = took[w]
  <2>1. OnlyAddsJobs(Done(w) + 1, Done(b))
        /\ (InCall(b) => pc[b] = "creating" /\ Done(w) <= Done(b))
    BY <1>1, <1>4, <1>5 DEF Abreast
  <2>2. Done(b) <= Done(w)
    <3> SUFFICES ASSUME Done(w) + 1 <= Done(b) PROVE FALSE
      BY <1>2
    <3>1. script[Done(w) + 1] = "addJob" /\ Done(w) + 1 \in 1 .. Len(script)
      BY <1>2, <2>1 DEF OnlyAddsJobs
    <3> QED BY <1>1, <1>3, <3>1
  <2> QED BY <1>2, <2>1, <2>2
<1>6. CASE took[b] < took[w]
  <2>1. \A u \in Worlds : took[w] <= Brought(u)
    BY <1>2, <1>4 DEF ControlInv, PairInv
  <2>2. PICK m \in 0 .. 4 : Result(took[w], m)
    BY <1>2, <1>6, <2>1, ResultExists
  <2>3. Done(w) > Done(b)
    BY <1>4, <1>6, <2>2 DEF Follows, Beyond
  <2> QED BY <1>2, <2>3
<1> QED BY <1>2, <1>4, <1>5, <1>6

\* When w leaves the first call of an operation, every world has begun it.
LEMMA WhoLeavesCreating ==
  ASSUME Types, ControlInv, NEW w \in Worlds, Moves(w), pc[w] = "creating", NEW b \in Worlds
  PROVE  Done(b) = Done(w) /\ InCall(b) /\ pc'[w] = "checking"
<1>1. InCall(w)
  BY DEF InCall
<1>2. PICK m \in 0 .. 4 : Leaves(w, m, After(pc[w], Operation(w), mres[w], m))
  BY <1>1 DEF Moves, Submits, Begins
<1>3. After(pc[w], Operation(w), mres[w], m) = "checking" /\ "checking" \notin Outcomes
      /\ "checking" \in Stages
  BY DEF After, Outcomes, Stages
<1>4. Result(took[w] + 1, m) /\ pc'[w] = "checking"
  BY <1>2, <1>3, ContinuesTo
<1>5. took[b] \in Nat /\ took[w] \in Nat
  BY Positions
<1>6. \/ InCall(b) /\ Done(b) = Done(w)
      \/ Follows(b, w, m)
  BY <1>1, <1>4, TakerMeets
<1>7. Follows(b, w, m) => Done(b) = Done(w) /\ pc[b] = "checking"
  BY <1>3 DEF Follows, Within
<1> QED BY <1>4, <1>6, <1>7 DEF InCall

\* Only the beginning of an operation puts one world ahead of another.
LEMMA AheadSame ==
  ASSUME Types, ControlInv, NEW w \in Worlds, Moves(w), ~ Begins(w),
         NEW a \in Worlds, NEW b \in Worlds
  PROVE  (Ahead(a, b)' <=> Ahead(a, b)) /\ (Ahead(a, b) => a # w)
<1>1. /\ Done(a) \in Nat /\ Done(b) \in Nat /\ Done(w) \in Nat /\ Begun(a) \in Nat /\ Begun(b) \in Nat
      /\ WorldInv(a) /\ Len(script) \in Nat
  BY Positions, BegunGrows
<1>2. CASE Submits(w)
  <2>1. pc' = pc /\ ~ InCall(w) /\ script'[Done(w) + 1] = "addJob"
    BY <1>2, SubmitsTo
  <2>2. Ahead(a, b) => a # w
    BY <2>1 DEF Ahead, InCall
  <2>3. ASSUME a # w PROVE Ahead(a, b)' <=> Ahead(a, b)
    <3>1. Done(a)' = Done(a) /\ pc'[a] = pc[a]
      BY <2>3, OthersPositions
    <3>2. b # w => Begun(b)' = Begun(b)
      BY BegunGrows
    <3>3. Begun(w)' = Begun(w) + 1 /\ Begun(w) = Done(w)
      BY <2>1, BegunGrows
    <3>4. pc[a] = "creating" => Done(w) # Done(a)
      <4> SUFFICES ASSUME pc[a] = "creating", Done(w) = Done(a) PROVE FALSE
        OBVIOUS
      <4>1. script[Done(a) + 1] # "addJob" /\ Done(a) + 1 \in 1 .. Len(script)
        BY <1>1, Positions DEF WorldInv, InCall
      <4>2. \A p \in 1 .. Len(script) : script'[p] = script[p]
        BY ScriptGrows
      <4> QED BY <2>1, <4>1, <4>2
    <3>5. CASE b = w
      BY <1>1, <3>1, <3>3, <3>4, <3>5 DEF Ahead
    <3>6. CASE b # w
      BY <3>1, <3>2, <3>6 DEF Ahead
    <3> QED BY <3>5, <3>6
  <2>4. ~ Ahead(w, b)'
    BY <2>1 DEF Ahead, InCall
  <2> QED BY <2>1, <2>2, <2>3, <2>4 DEF Ahead, InCall
<1>3. CASE ~ Submits(w)
  <2>1. PICK m \in 0 .. 4 : Leaves(w, m, After(pc[w], Operation(w), mres[w], m))
    BY <1>3 DEF Moves
  <2>2. InCall(w) /\ Begun(b)' = Begun(b)
    BY <2>1, BegunGrows DEF Leaves
  <2>3. CASE a # w
    <3>1. Done(a)' = Done(a) /\ pc'[a] = pc[a]
      BY <2>3, OthersPositions
    <3> QED BY <2>2, <2>3, <3>1 DEF Ahead
  <2>4. CASE a = w
    <3>1. ~ Ahead(w, b)
      <4>1. pc[w] = "creating" => Done(b) = Done(w) /\ InCall(b)
        BY WhoLeavesCreating
      <4> QED BY <1>1, <4>1 DEF Ahead, Begun
    <3>2. pc'[w] # "creating"
      BY <2>1 DEF Leaves, After, Outcomes, Ends, Types
    <3> QED BY <2>4, <3>1, <3>2 DEF Ahead
  <2> QED BY <2>3, <2>4
<1> QED BY <1>2, <1>3

\* The ids a world takes in the operation it is in stay.
LEMMA IdsFromStays ==
  ASSUME Types, ControlInv, NEW w \in Worlds, Moves(w), DataMoves(w), NEW a \in Worlds \ {w},
         InCall(a), NEW c \in Nat, IdsFrom(a, c)
  PROVE  IdsFrom(a, c)'
<1>1. jobcounter'[a] = jobcounter[a] /\ made'[a] = made[a] /\ Done(a)' = Done(a)
      /\ Operation(a)' = Operation(a)
  BY OthersJobs, OthersPositions
<1>2. PICK d \in Nat : d = Done(a)
  BY Positions
<1>3. d <= Len(script)
  BY <1>2, Positions
<1>4. \A n \in 0 .. d : Submitted(d, n)' <=> Submitted(d, n)
  BY <1>3, SubmittedStays
<1>5. \A n \in 0 .. d : Submitted(Done(a), n)' => Submitted(Done(a), n)
  BY <1>1, <1>2, <1>4 DEF Submitted
<1> QED BY <1>1, <1>2, <1>5 DEF IdsFrom

\* What w has made after it created jobs
LEMMA MadeOrFresh ==
  ASSUME Types, ControlInv, NEW w \in Worlds, Moves(w), PendingInv(w), JobsInv(w),
         NEW jobs, Creates(w, jobs), NEW i \in 1 .. Len(made'[w])
  PROVE  \/ /\ i \in 1 .. Len(made[w]) /\ made'[w][i] = made[w][i]
            /\ made'[w][i].id < jobcounter[w] /\ made'[w][i].id \in Nat
         \/ \E h \in 1 .. Len(jobs) : made'[w][i] = jobs[h]
<1>1. /\ Len(made[w]) \in Nat /\ Len(jobs) \in Nat
      /\ Len(made'[w]) = Len(made[w]) + Len(jobs)
  BY CreatesTo
<1>2. CASE i \in 1 .. Len(made[w])
  <2>1. made'[w][i] = made[w][i]
    BY <1>2, CreatesTo
  <2>2. made[w][i].id < jobcounter[w] /\ made[w][i].id \in Nat
    BY <1>2, JobsTypes DEF JobsInv
  <2> QED BY <1>2, <2>1, <2>2
<1>3. CASE ~ (i \in 1 .. Len(made[w]))
  <2>1. i - Len(made[w]) \in 1 .. Len(jobs) /\ Len(made[w]) + (i - Len(made[w])) = i
    BY <1>1, <1>3
  <2>2. \A h \in 1 .. Len(jobs) : made'[w][Len(made[w]) + h] = jobs[h]
    BY CreatesTo
  <2>3. made'[w][i] = jobs[i - Len(made[w])]
    BY <2>1, <2>2
  <2> QED BY <2>1, <2>3
<1> QED BY <1>2, <1>3

\* The ids of the jobs that w creates, and its counter afterwards
LEMMA FreshIds ==
  ASSUME Types, ControlInv, NEW w \in Worlds, Moves(w), PendingInv(w), NEW jobs, Creates(w, jobs)
  PROVE  IF script'[Done(w) + 1] = "addJobPerWorld"
         THEN /\ jobcounter'[w] = jobcounter[w] + swcount
              /\ \A h \in 1 .. Len(jobs) : jobs[h].id = jobcounter[w] + w
         ELSE /\ jobcounter'[w] = jobcounter[w] + Len(create[w])
              /\ \A h \in 1 .. Len(jobs) : InBlock(w, Len(create[w]), jobs[h].id - jobcounter[w] + 1)
<1> DEFINE c == IF script'[Done(w) + 1] = "addJobPerWorld" THEN swcount ELSE Len(create[w])
<1>1. jobcounter' = [jobcounter EXCEPT ![w] = @ + c] /\ jobcounter \in [Worlds -> Nat \ {0}]
  BY DEF Creates, Fresh, Types
<1>2. jobcounter'[w] = jobcounter[w] + c
  <2> HIDE DEF c
  <2> QED BY <1>1
<1> QED BY <1>2 DEF Creates, Fresh

\* w and b have never made jobs of the same id.
Apart(w, b) ==
  \A i \in 1 .. Len(made[w]), j \in 1 .. Len(made[b]) : made[w][i].id # made[b][j].id

\* The first to begin an operation takes ids from the counter all have.
LEMMA IdsOfFirst ==
  ASSUME Types, ControlInv, NEW w \in Worlds, Moves(w), PendingInv(w), JobsInv(w),
         NEW jobs, Creates(w, jobs),
         NEW b \in Worlds \ {w}, JobsInv(b), IdsInv(w, b), IdsInv(b, w), Begun(b) <= Done(w)
  PROVE  /\ jobcounter'[b] = jobcounter[w]
         /\ Ahead(w, b)' /\ ~ Ahead(b, w)' /\ IdsFrom(w, jobcounter[b])' /\ Apart(w, b)'
<1>0. DataMoves(w) /\ Begins(w)
  BY DEF DataMoves, Creates
<1>1. /\ ~ InCall(w) /\ pc'[w] = "creating" /\ Done(w)' = Done(w) /\ script'[Done(w) + 1] \in {"addJobPerWorld", "runJobs"}
  BY <1>0, BeginsTo
<1>2. /\ Done(w) \in Nat /\ Done(b) \in Nat /\ Done(w) <= Len(script)
      /\ Begun(b)' = Begun(b) /\ Begun(w)' = Done(w) + 1 /\ Done(b)' = Done(b)
      /\ Begun(b) \in Nat /\ Done(b) <= Begun(b) /\ Begun(w) = Done(w)
  BY <1>1, Positions, BegunGrows, OthersPositions
<1>3. ~ Ahead(w, b) /\ ~ Ahead(b, w)
  BY <1>1, <1>2 DEF Ahead, InCall, Begun
<1>4. jobcounter[w] = jobcounter[b] /\ jobcounter'[b] = jobcounter[b] /\ made'[b] = made[b]
  BY <1>0, <1>3, OthersJobs DEF IdsInv
<1>5. Ahead(w, b)' /\ ~ Ahead(b, w)'
  BY <1>1, <1>2 DEF Ahead
<1>6. PICK c \in Nat, d \in Nat, n \in Nat : c = jobcounter[w] /\ d = Done(w) /\ n = Len(create[w])
  <2>1. create[w] \in Seq(Nat) /\ jobcounter[w] \in Nat
    BY DEF Types
  <2>2. Len(create[w]) \in Nat
    BY <2>1, LenProperties
  <2> QED BY <1>2, <2>1, <2>2
<1>7. Operation(w)' = script'[d + 1]
  BY <1>1, <1>6 DEF Operation, Place, Done
<1>8. \A i \in 1 .. Len(made'[w]) : made'[w][i].id >= c =>
        \E h \in 1 .. Len(jobs) : made'[w][i] = jobs[h]
  BY <1>6, MadeOrFresh
<1>9. ASSUME NEW k \in 0 .. d, Submitted(d, k)' PROVE k = n
  <2>1. Submitted(d, k) /\ Submitted(d, n)
    BY <1>1, <1>2, <1>6, <1>9, SubmittedStays DEF PendingInv
  <2> QED BY <2>1, OneNumber
<1>10. IdsFrom(w, c)'
  <2>1. CASE script'[d + 1] = "addJobPerWorld"
    BY <1>6, <1>7, <1>8, <2>1, FreshIds DEF IdsFrom
  <2>2. CASE script'[d + 1] = "runJobs"
    <3>1. jobcounter'[w] = c + n /\ \A h \in 1 .. Len(jobs) : InBlock(w, n, jobs[h].id - c + 1)
      BY <1>6, <2>2, FreshIds
    <3>2. \A i \in 1 .. Len(made'[w]) : made'[w][i].id >= c => InBlock(w, n, made'[w][i].id - c + 1)
      BY <1>8, <3>1
    <3>3. ASSUME NEW k \in 0 .. Done(w)', Submitted(Done(w), k)' PROVE k = n
      <4>1. k \in 0 .. d /\ Submitted(d, k)'
        BY <1>1, <1>6, <3>3 DEF Submitted
      <4> QED BY <1>9, <4>1
    <3>4. Operation(w)' # "addJobPerWorld"
      BY <1>7, <2>2
    <3>5. \A k \in 0 .. Done(w)' : Submitted(Done(w), k)' =>
            /\ jobcounter'[w] = c + k
            /\ \A i \in 1 .. Len(made'[w]) : made'[w][i].id >= c => InBlock(w, k, made'[w][i].id - c + 1)
      BY <3>1, <3>2, <3>3
    <3>6. \A k, j : InBlock(w, k, j)' <=> InBlock(w, k, j)
      BY DEF InBlock
    <3> QED BY <3>4, <3>5, <3>6 DEF IdsFrom, InBlock
  <2> QED BY <1>1, <1>6, <2>1, <2>2
<1>11. Apart(w, b)'
  <2> SUFFICES ASSUME NEW i \in 1 .. Len(made'[w]), NEW j \in 1 .. Len(made'[b])
               PROVE  made'[w][i].id # made'[b][j].id
    BY DEF Apart
  <2>1. made[b][j].id \in Nat /\ made[b][j].id < jobcounter[w]
    BY <1>4, JobsTypes DEF JobsInv
  <2>2. CASE i \in 1 .. Len(made[w]) /\ made'[w][i] = made[w][i]
    BY <1>4, <2>2 DEF IdsInv
  <2>3. ASSUME NEW h \in 1 .. Len(jobs), made'[w][i] = jobs[h]
        PROVE  made'[w][i].id # made'[b][j].id
    <3>1. jobs[h].id \in Nat /\ jobcounter[w] <= jobs[h].id
      BY FreshFacts
    <3> QED BY <1>4, <1>6, <2>1, <2>3, <3>1
  <2> QED BY <2>2, <2>3, MadeOrFresh
<1>12. IdsFrom(w, jobcounter[b])'
  BY <1>4, <1>6, <1>10 DEF IdsFrom
<1> QED BY <1>4, <1>5, <1>11, <1>12

\* Who begins it after another comes to the same counter, with other ids.
LEMMA IdsOfSecond ==
  ASSUME Types, ControlInv, NEW w \in Worlds, Moves(w), PendingInv(w), JobsInv(w),
         NEW jobs, Creates(w, jobs),
         NEW b \in Worlds \ {w}, JobsInv(b), IdsInv(w, b), IdsInv(b, w),
         pc[b] = "creating", Done(b) = Done(w), InCall(b)
  PROVE  /\ jobcounter'[b] = jobcounter'[w]
         /\ ~ Ahead(w, b)' /\ ~ Ahead(b, w)' /\ Apart(w, b)'
<1>0. DataMoves(w) /\ Begins(w)
  BY DEF DataMoves, Creates
<1>1. /\ ~ InCall(w) /\ pc'[w] = "creating" /\ Done(w)' = Done(w) /\ script'[Done(w) + 1] \in {"addJobPerWorld", "runJobs"}
  BY <1>0, BeginsTo
<1>2. /\ Done(w) \in Nat /\ Done(w) + 1 <= Len(script) /\ Len(script) \in Nat
      /\ Begun(b)' = Begun(b) /\ Begun(w)' = Done(w) + 1 /\ Done(b)' = Done(b)
      /\ Begun(b) = Done(b) + 1 /\ Begun(w) = Done(w) /\ Operation(b) = script[Done(w) + 1]
  <2>1. /\ Done(w) \in Nat /\ Done(w) + 1 <= Len(script) /\ Len(script) \in Nat
        /\ Operation(b) = script[Done(w) + 1]
    BY Positions
  <2>2. Begun(b)' = Begun(b) /\ Done(b)' = Done(b) /\ Begun(b) = Done(b) + 1
    BY BegunGrows, OthersPositions DEF Begun
  <2>3. Begun(w)' = Done(w) + 1 /\ Begun(w) = Done(w)
    BY <1>1, BegunGrows
  <2> QED BY <2>1, <2>2, <2>3
<1>3. Ahead(b, w)
  BY <1>2 DEF Ahead
<1>4. ~ Ahead(w, b)' /\ ~ Ahead(b, w)'
  BY <1>1, <1>2 DEF Ahead
<1>5. PICK c \in Nat, d \in Nat, n \in Nat : c = jobcounter[w] /\ d = Done(w) /\ n = Len(create[w])
  BY <1>2 DEF Types
<1>6. jobcounter'[b] = jobcounter[b] /\ made'[b] = made[b]
  BY <1>0, OthersJobs
<1>7. Operation(b) = script'[d + 1]
  BY <1>2, <1>5, ScriptGrows
<1>8. IdsFrom(b, c)
  BY <1>3, <1>5 DEF IdsInv
<1>9. n \in 0 .. d /\ Submitted(d, n)
  BY <1>1, <1>5 DEF PendingInv, Submitted
<1>10. \A j \in 1 .. Len(made[b]) : made[b][j].id \in Nat
  BY JobsTypes
<1>11. ASSUME NEW h \in 1 .. Len(jobs), NEW j \in 1 .. Len(made[b]) PROVE jobs[h].id # made[b][j].id
  <2> SUFFICES ASSUME jobs[h].id = made[b][j].id PROVE FALSE
    OBVIOUS
  <2>1. PICK x \in Nat : x = jobs[h].id /\ x = made[b][j].id /\ x >= c
    BY <1>5, FreshFacts
  <2>2. CASE script'[d + 1] = "addJobPerWorld"
    <3>1. x = c + w /\ x = c + b
      BY <1>5, <1>7, <1>8, <2>1, <2>2, FreshIds DEF IdsFrom
    <3> QED BY <3>1, WorldsAssumption DEF Worlds
  <2>3. CASE script'[d + 1] = "runJobs"
    <3>1. PICK k : k = x - c + 1
      OBVIOUS
    <3>2. InBlock(w, n, k) /\ k \in Int
      BY <1>5, <2>1, <2>3, <3>1, FreshIds
    <3>3. InBlock(b, n, k)
      BY <1>2, <1>5, <1>7, <1>8, <1>9, <2>1, <2>3, <3>1 DEF IdsFrom
    <3>4. k \in 1 .. n
      BY <3>2, BlockRange
    <3> QED BY <3>2, <3>3, <3>4, OneBlock
  <2> QED BY <1>1, <1>5, <2>2, <2>3
<1>12. Apart(w, b)'
  <2> SUFFICES ASSUME NEW i \in 1 .. Len(made'[w]), NEW j \in 1 .. Len(made[b])
               PROVE  made'[w][i].id # made[b][j].id
    BY <1>6 DEF Apart
  <2>1. CASE i \in 1 .. Len(made[w]) /\ made'[w][i] = made[w][i]
    BY <2>1 DEF IdsInv
  <2>2. ASSUME NEW h \in 1 .. Len(jobs), made'[w][i] = jobs[h] PROVE made'[w][i].id # made[b][j].id
    BY <1>11, <2>2
  <2> QED BY <2>1, <2>2, MadeOrFresh
<1>13. jobcounter[b] = jobcounter'[w]
  <2>1. CASE script'[d + 1] = "addJobPerWorld"
    BY <1>5, <1>7, <1>8, <2>1, FreshIds DEF IdsFrom
  <2>2. CASE script'[d + 1] = "runJobs"
    <3>1. jobcounter[b] = c + n
      BY <1>2, <1>5, <1>7, <1>8, <1>9, <2>2 DEF IdsFrom
    <3>2. jobcounter'[w] = c + n
      BY <1>5, <2>2, FreshIds
    <3> QED BY <3>1, <3>2
  <2> QED BY <1>1, <1>5, <2>1, <2>2
<1> QED BY <1>4, <1>6, <1>12, <1>13

\* A world agrees with itself,
LEMMA IdsSelf ==
  \A a \in Worlds : Types /\ JobsInv(a) => IdsInv(a, a)
<1> SUFFICES ASSUME NEW a \in Worlds, Types, JobsInv(a) PROVE IdsInv(a, a)
  OBVIOUS
<1>1. ~ Ahead(a, a)
  <2>1. Done(a) \in Nat
    BY DEF Types, Done
  <2> QED BY <2>1 DEF Ahead, Begun, InCall
<1>2. ASSUME NEW i \in 1 .. Len(made[a]), NEW j \in 1 .. Len(made[a]), made[a][i].id = made[a][j].id
      PROVE  i = j
  <2>1. made[a][i].id \in Nat /\ made[a][j].id \in Nat /\ Len(made[a]) \in Nat
    BY JobsTypes
  <2>2. ~ (i < j) /\ ~ (j < i)
    BY <1>2, <2>1 DEF JobsInv
  <2> QED BY <2>1, <2>2
<1> QED BY <1>1, <1>2 DEF IdsInv

\* after a step as well.
LEMMA IdsSelfAfter ==
  (\A a \in Worlds : Types /\ JobsInv(a) => IdsInv(a, a))'
  BY IdsSelf, PTL

\* Steps that create no jobs
LEMMA IdsStay ==
  ASSUME Types, ControlInv, NEW w \in Worlds, Moves(w), DataMoves(w), ~ Begins(w),
         NEW a \in Worlds, NEW b \in Worlds, IdsInv(a, b)
  PROVE  IdsInv(a, b)'
<1>1. made' = made /\ jobcounter' = jobcounter
  BY DEF DataMoves, Creates, AddJob, InCallMoves
<1>2. (Ahead(a, b)' <=> Ahead(a, b)) /\ (Ahead(a, b) => a # w)
      /\ (Ahead(b, a)' <=> Ahead(b, a))
  BY AheadSame
<1>3. ASSUME Ahead(a, b) PROVE IdsFrom(a, jobcounter[b])'
  <2>1. PICK c \in Nat : c = jobcounter[b]
    BY DEF Types
  <2>2. IdsFrom(a, c)'
    BY <1>2, <1>3, <2>1, IdsFromStays DEF IdsInv, Ahead, InCall
  <2> QED BY <1>1, <2>1, <2>2 DEF IdsFrom
<1> QED BY <1>1, <1>2, <1>3 DEF IdsInv

\* Every step keeps what is known of two worlds' ids.
LEMMA IdsStep ==
  ASSUME Types, ControlInv, NEW w \in Worlds, Moves(w), DataMoves(w), PendingInv(w),
         \A u \in Worlds : JobsInv(u) /\ JobsInv(u)',
         Types', \A u, v \in Worlds : IdsInv(u, v),
         NEW a \in Worlds, NEW b \in Worlds
  PROVE  IdsInv(a, b)'
<1>1. CASE ~ Begins(w)
  BY <1>1, IdsStay
<1>2. CASE a = b
  BY <1>2, IdsSelfAfter
<1>3. ASSUME Begins(w), a # w, b # w PROVE IdsInv(a, b)'
  <2>1. /\ made'[a] = made[a] /\ made'[b] = made[b]
        /\ jobcounter'[a] = jobcounter[a] /\ jobcounter'[b] = jobcounter[b]
        /\ pc'[a] = pc[a] /\ pc'[b] = pc[b] /\ Done(a)' = Done(a) /\ Done(b)' = Done(b)
        /\ Begun(a)' = Begun(a) /\ Begun(b)' = Begun(b)
    BY <1>3, OthersJobs, OthersPositions, BegunGrows
  <2>2. (Ahead(a, b)' <=> Ahead(a, b)) /\ (Ahead(b, a)' <=> Ahead(b, a))
    BY <2>1 DEF Ahead
  <2>3. ASSUME Ahead(a, b) PROVE IdsFrom(a, jobcounter[b])'
    <3>1. PICK c \in Nat : c = jobcounter[b]
      BY DEF Types
    <3>2. IdsFrom(a, c)'
      BY <1>3, <2>3, <3>1, IdsFromStays DEF IdsInv, Ahead, InCall
    <3> QED BY <2>1, <3>1, <3>2 DEF IdsFrom
  <2> QED BY <2>1, <2>2, <2>3 DEF IdsInv
<1>4. ASSUME Begins(w), NEW u \in Worlds \ {w} PROVE IdsInv(w, u)' /\ IdsInv(u, w)'
  <2>1. PICK jobs : Creates(w, jobs)
    BY <1>4 DEF DataMoves, AddJob, Submits, InCallMoves, Begins, Ends, InCall, Types, Creates
  <2>2. CASE Begun(u) <= Done(w)
    BY <2>1, <2>2, IdsOfFirst DEF IdsInv, Apart
  <2>3. CASE pc[u] = "creating" /\ Done(u) = Done(w) /\ InCall(u)
    BY <2>1, <2>3, IdsOfSecond DEF IdsInv, Apart
  <2> QED BY <1>4, <2>2, <2>3, WhoBegins
<1> QED BY <1>1, <1>2, <1>3, <1>4

-----------------------------------------------------------------------------
(* What an operation that succeeds has done                                *)

\* What was made and what was run stays so.
LEMMA JobsGrow ==
  ASSUME Types, ControlInv, NEW w \in Worlds, DataMoves(w), NEW u \in Worlds
  PROVE  /\ Len(made[u]) \in Nat /\ Len(made'[u]) \in Nat /\ Len(made[u]) <= Len(made'[u])
         /\ \A i \in 1 .. Len(made[u]) : made'[u][i] = made[u][i]
         /\ Len(ran[u]) \in Nat /\ Len(ran'[u]) \in Nat /\ Len(ran[u]) <= Len(ran'[u])
         /\ \A i \in 1 .. Len(ran[u]) : ran'[u][i] = ran[u][i]
<1>1. Len(made[u]) \in Nat /\ Len(ran[u]) \in Nat
  BY DEF Types
<1>2. CASE u # w
  BY <1>1, <1>2, OthersJobs
<1>3. CASE u = w
  <2>1. CASE AddJob(w)
    BY <1>1, <2>1 DEF AddJob
  <2>2. ASSUME NEW jobs, Creates(w, jobs)
        PROVE  /\ Len(made'[w]) \in Nat /\ Len(made[w]) <= Len(made'[w])
               /\ \A i \in 1 .. Len(made[w]) : made'[w][i] = made[w][i]
               /\ ran' = ran
    BY <2>2, CreatesTo DEF Creates
  <2>3. CASE InCallMoves(w)
    <3>1. made' = made
      BY <2>3 DEF InCallMoves
    <3>2. \A k \in Nat : Runs(w, k) => /\ Len(ran'[w]) \in Nat /\ Len(ran[w]) <= Len(ran'[w])
                                       /\ \A i \in 1 .. Len(ran[w]) : ran'[w][i] = ran[w][i]
      BY RunsTo
    <3>3. ran' = ran \/ \E k \in Nat : Runs(w, k)
      BY <2>3 DEF InCallMoves, LeavesJobs, Drops
    <3> QED BY <1>1, <1>3, <3>1, <3>2, <3>3
  <2> QED BY <1>1, <1>3, <2>1, <2>2, <2>3 DEF DataMoves
<1> QED BY <1>2, <1>3

\* An operation's jobs that were made stay made.
LEMMA CompleteStays ==
  ASSUME Types, ControlInv, NEW w \in Worlds, Moves(w), DataMoves(w), NEW u \in Worlds,
         NEW p \in 1 .. Len(script), Complete(u, p)
  PROVE  Complete(u, p)'
<1>1. script'[p] = script[p] /\ Len(script) \in Nat
  BY ScriptGrows
<1>2. \A q : MadeFor(q, u) # {} => MadeFor(q, u)' # {}
  BY JobsGrow DEF MadeFor
<1>3. ASSUME NEW n \in 0 .. p - 1 PROVE Submitted(p - 1, n)' <=> Submitted(p - 1, n)
  <2>1. PICK k \in Nat : k = p - 1 /\ k <= Len(script)
    BY <1>1
  <2>2. Submitted(k, n)' <=> Submitted(k, n)
    BY <2>1, SubmittedStays
  <2> QED BY <2>1, <2>2
<1> QED BY <1>1, <1>2, <1>3 DEF Complete, InBlock

\* Which jobs an operation was to run never changes.
LEMMA RunByStays ==
  ASSUME Types, ControlInv, NEW w \in Worlds, Moves(w),
         NEW p \in 1 .. Len(script), NEW q \in Nat
  PROVE  RunBy(q, p)' <=> RunBy(q, p)
<1>1. Len(script) \in Nat /\ \A o \in 1 .. Len(script) : script'[o] = script[o]
  BY ScriptGrows
<1>2. \A o \in q + 1 .. p - 1 : o \in 1 .. Len(script)
  BY <1>1
<1> QED BY <1>1, <1>2 DEF RunBy

\* Jobs created later aren't waiting for an operation that w has done.
LEMMA AllRanStays ==
  ASSUME Types, ControlInv, NEW w \in Worlds, Moves(w), DataMoves(w), PendingInv(w),
         NEW u \in Worlds, JobsInv(u), NEW p \in 1 .. Len(script), AllRan(u, p),
         u = w /\ Begins(w) => p <= Done(w)
  PROVE  AllRan(u, p)'
<1>1. ToSet(ran[u]) \subseteq ToSet(ran'[u])
  <2>1. DOMAIN ran[u] = 1 .. Len(ran[u]) /\ DOMAIN ran'[u] = 1 .. Len(ran'[u])
    <3>1. Types'
      BY TypesStep
    <3> QED BY <3>1 DEF Types
  <2> QED BY <2>1, JobsGrow DEF ToSet
<1>2. ASSUME NEW i \in 1 .. Len(made[u]), RunBy(made[u][i].job, p)' PROVE HasRun(u, i)'
  <2>1. made'[u][i] = made[u][i] /\ made[u][i].job \in Nat
    BY JobsGrow, JobsTypes
  <2>2. PICK q \in Nat : q = made[u][i].job /\ q = made'[u][i].job
    BY <2>1
  <2>3. RunBy(q, p)'
    BY <1>2, <2>2 DEF RunBy
  <2>4. HasRun(u, i)
    BY <2>2, <2>3, RunByStays DEF AllRan
  <2> QED BY <1>1, <2>1, <2>4 DEF HasRun
<1>3. CASE made'[u] = made[u]
  BY <1>2, <1>3 DEF AllRan
<1>4. ASSUME u = w, NEW jobs, Creates(w, jobs) PROVE AllRan(u, p)'
  <2>1. ASSUME NEW h \in 1 .. Len(jobs) PROVE ~ RunBy(jobs[h].job, p)'
    <3>1. /\ jobs[h].job \in Nat \ {0} /\ Done(w) - Len(create[w]) < jobs[h].job
      BY <1>4, FreshFacts
    <3>2. PICK q \in Nat, n \in Nat, d \in Nat :
            q = jobs[h].job /\ n = Len(create[w]) /\ d = Done(w) /\ d - n < q /\ n <= d
      <4>1. Len(create[w]) \in Nat /\ ~ InCall(w)
        BY <1>4 DEF Types, Creates, Begins
      <4>2. Len(create[w]) <= Done(w)
        BY <4>1 DEF PendingInv, Submitted
      <4> QED BY <3>1, <4>1, <4>2, Positions
    <3>3. p <= d
      BY <1>4, <3>2 DEF Creates
    <3>4. ~ RunBy(q, p)
      <4> SUFFICES ASSUME q < p, script[p] = "runJobs" PROVE FALSE
        BY DEF RunBy
      <4>1. \A o \in d - n + 1 .. d : script[o] = "addJob"
        BY <1>4, <3>2 DEF Creates, Begins, PendingInv, Submitted, OnlyAddsJobs
      <4>2. p \in d - n + 1 .. d
        BY <3>2, <3>3
      <4> QED BY <4>1, <4>2
    <3>5. ~ RunBy(q, p)'
      BY <3>4, RunByStays
    <3> QED BY <3>2, <3>5 DEF RunBy
  <2>2. ASSUME NEW i \in 1 .. Len(made'[w]), RunBy(made[w][i].job, p)' PROVE HasRun(w, i)'
    <3>1. \A h \in 1 .. Len(jobs) : made'[w][i] # jobs[h]
      BY <2>1, <2>2 DEF RunBy
    <3>2. i \in 1 .. Len(made[w])
      BY <1>4, <3>1, MadeOrFresh
    <3> QED BY <1>2, <1>4, <2>2, <3>2
  <2> QED BY <1>4, <2>2 DEF AllRan
<1> QED BY <1>3, <1>4, OthersJobs DEF DataMoves, AddJob, InCallMoves

\* Where a world in a call goes, and what that depends on
HowItLeaves(w) ==
  \/ pc[w] = "creating" /\ pc'[w] = "checking" /\ (Brings0(w)' => Brings0(w))
  \/ pc'[w] = "shipping"
  \/ pc[w] = "checking" /\ pc'[w] = "synchronising" /\ Takes(w, 0)
  \/ pc[w] = "synchronising" /\ pc'[w] = "joining"
  \/ pc[w] = "joining" /\ pc'[w] = "comparing" /\ mres'[w] \in 0 .. 4 /\ Takes(w, mres'[w])
  \/ Ends(w, "raised")
  \/ pc[w] = "checking" /\ Operation(w) = "addJobPerWorld" /\ Takes(w, 0) /\ Ends(w, "returned")
  \/ pc[w] = "comparing" /\ mres[w] = 0 /\ Ends(w, "returned")

\* How each stage is left, and with which result.
LEMMA InCallLeaves ==
  ASSUME Types, ControlInv, NEW w \in Worlds, World(w), InCall(w)
  PROVE  HowItLeaves(w)
<1>t. /\ pc \in [Worlds -> Stages \cup {"script"}] /\ mres \in [Worlds -> 0 .. 4]
  BY DEF Types
<1>c. pc[w] # "script"
  BY DEF InCall
<1>1. CASE CheckAgain(w)
  <2>1. pc'[w] = "checking" /\ pc[w] = "creating"
    BY <1>1, <1>t DEF CheckAgain
  <2>2. /\ brought[w] \in Seq(BroughtCalls) /\ brought[w] # << >>
        /\ Last(brought[w]) = brought[w][Brought(w)]
    BY <1>c, Positions DEF Types, BroughtCalls, WorldInv, Brought, Last, InCall
  <2>3. Last(brought[w]) \in BroughtCalls
    BY <2>2 DEF Last
  <2>4. Last(brought[w]).value \in 0 .. 4
    BY <2>3 DEF BroughtCalls
  <2>5. Brings0(w)' => Last(brought[w]).value = 0
    BY <1>1, <2>4, LastBrought DEF CheckAgain
  <2> QED BY <2>1, <2>2, <2>5 DEF HowItLeaves, Brings0
<1>2. CASE CreationFailed(w)
  BY <1>2, <1>t DEF CreationFailed, HowItLeaves
<1>3. CASE PerWorldAdded(w)
  BY <1>3 DEF PerWorldAdded, HowItLeaves
<1>4. ASSUME NEW e \in 0 .. 1, Synchronise(w, e) PROVE HowItLeaves(w)
  BY <1>4, <1>t DEF Synchronise, HowItLeaves
<1>5. CASE SynchFailed(w)
  BY <1>5, <1>t DEF SynchFailed, HowItLeaves
<1>6. ASSUME NEW n \in 0 .. Len(script), NEW r \in 0 .. 4, Work(w, n, r) PROVE HowItLeaves(w)
  BY <1>6, <1>t DEF Work, HowItLeaves
<1>7. ASSUME NEW e \in 0 .. 1, Compare(w, e) PROVE HowItLeaves(w)
  <2>1. PICK m \in 0 .. 4 : Takes(w, m) /\ mres' = [mres EXCEPT ![w] = m]
    BY <1>7 DEF Compare
  <2>2. mres'[w] = m
    BY <1>t, <2>1
  <2> QED BY <1>7, <1>t, <2>1, <2>2 DEF Compare, HowItLeaves
<1>8. CASE EndRunJobs(w)
  <2>1. PICK m \in 0 .. 1 :
           /\ mres' = IF m = 1 THEN [mres EXCEPT ![w] = 4] ELSE mres
           /\ IF mres'[w] = 0
              THEN Ends(w, "returned") /\ UNCHANGED <<create, jobvec>>
              ELSE Ends(w, "raised") /\ ClearJobs(w) /\ ClearPendingJobs(w)
    BY <1>8 DEF EndRunJobs
  <2>2. mres'[w] = 0 => mres[w] = 0
    BY <1>t, <2>1
  <2> QED BY <1>8, <2>1, <2>2 DEF EndRunJobs, HowItLeaves
<1>9. CASE JobRaised(w)
  BY <1>9, <1>t DEF JobRaised, HowItLeaves
<1>10. CASE Shipped(w)
  BY <1>10 DEF Shipped, HowItLeaves
<1> QED BY <1>c, <1>1, <1>2, <1>3, <1>4, <1>5, <1>6, <1>7, <1>8, <1>9, <1>10
       DEF World, AddJob, AddJobPerWorld, RunJobs, Does

\* What a world takes is the largest value all worlds have brought.
LEMMA TakesResult ==
  ASSUME NEW w \in Worlds, NEW m, Takes(w, m)
  PROVE  Result(took[w] + 1, m)
  BY DEF Takes, Result, Brought

\* What a world that is in the same call as w brought to it, if its result is 0
LEMMA BroughtNothingBad ==
  ASSUME Types, ControlInv, NEW w \in Worlds, NEW u \in Worlds,
         Result(took[w] + 1, 0), Brought(u) = took[w] + 1
  PROVE  Brings0(u)
<1>1. brought[u] \in Seq(BroughtCalls) /\ took[w] \in Nat /\ Brought(u) = Len(brought[u])
  BY DEF Types, BroughtCalls, Brought
<1>2. brought[u][took[w] + 1] \in BroughtCalls
  BY <1>1
<1>3. brought[u][took[w] + 1].value <= 0 /\ brought[u][took[w] + 1].value \in 0 .. 4
  BY <1>2 DEF Result, BroughtCalls
<1> QED BY <1>3 DEF Brings0

\* If the second check finds no failure, every world has made its jobs.
LEMMA AllComplete ==
  ASSUME Types, ControlInv, NEW w \in Worlds, \A u \in Worlds : SuccessInv(u),
         pc[w] = "checking", Result(took[w] + 1, 0), NEW u \in Worlds
  PROVE  Complete(u, Place(w))
<1>1. /\ \/ /\ InCall(u) /\ Brought(u) = took[w] + 1 /\ Done(u) = Done(w) /\ pc[u] = pc[w]
         \/ Follows(u, w, 0)
      /\ Done(u) \in Nat /\ Done(w) \in Nat /\ Place(w) = Done(w) + 1 /\ Place(u) = Done(u) + 1
  BY TakerMeets, Positions DEF InCall
<1>2. CASE InCall(u) /\ Brought(u) = took[w] + 1 /\ Done(u) = Done(w) /\ pc[u] = pc[w]
  <2>1. Brings0(u)
    BY <1>2, BroughtNothingBad
  <2> QED BY <1>1, <1>2, <2>1 DEF SuccessInv
<1>3. CASE Follows(u, w, 0)
  <2>1. CASE Operation(w) = "runJobs"
    <3>1. After(pc[w], Operation(w), mres[w], 0) = "synchronising" /\ "synchronising" \notin Outcomes
      BY <2>1 DEF After, Outcomes
    <3>2. Done(u) = Done(w) /\ pc[u] = "synchronising"
      BY <1>3, <3>1 DEF Follows, Within
    <3> QED BY <1>1, <3>2 DEF SuccessInv
  <2>2. CASE Operation(w) # "runJobs"
    <3>1. After(pc[w], Operation(w), mres[w], 0) = "returned" /\ "returned" \in Outcomes
      BY <2>2 DEF After, Outcomes
    <3>2. Done(u) > Done(w) /\ outcomes[u][Done(w) + 1] = "returned"
      BY <1>3, <3>1 DEF Follows, Beyond
    <3>3. Done(w) + 1 \in 1 .. Done(u)
      BY <1>1, <3>2
    <3> QED BY <1>1, <3>2, <3>3 DEF SuccessInv
  <2> QED BY <2>1, <2>2
<1> QED BY <1>1, <1>2, <1>3

\* If no world has a bad result of its jobs, every world has run all of them.
LEMMA AllHaveRun ==
  ASSUME Types, ControlInv, NEW w \in Worlds, \A u \in Worlds : SuccessInv(u),
         pc[w] = "joining", Result(took[w] + 1, 0), NEW u \in Worlds
  PROVE  AllRan(u, Place(w))
<1>1. /\ \/ /\ InCall(u) /\ Brought(u) = took[w] + 1 /\ Done(u) = Done(w) /\ pc[u] = pc[w]
         \/ Follows(u, w, 0)
      /\ Done(u) \in Nat /\ Done(w) \in Nat /\ Place(w) = Done(w) + 1 /\ Place(u) = Done(u) + 1
  BY TakerMeets, Positions DEF InCall
<1>2. CASE InCall(u) /\ Brought(u) = took[w] + 1 /\ Done(u) = Done(w) /\ pc[u] = pc[w]
  <2>1. Brings0(u)
    BY <1>2, BroughtNothingBad
  <2> QED BY <1>1, <1>2, <2>1 DEF SuccessInv
<1>3. CASE Follows(u, w, 0)
  <2>1. After(pc[w], Operation(w), mres[w], 0) = "comparing" /\ "comparing" \notin Outcomes
    BY DEF After, Outcomes
  <2>2. Done(u) = Done(w) /\ pc[u] = "comparing" /\ mres[u] = 0
    BY <1>3, <2>1 DEF Follows, Within
  <2> QED BY <1>1, <2>2 DEF SuccessInv
<1> QED BY <1>1, <1>2, <1>3

\* A world that brings success after its jobs has run all of them.
LEMMA WorkRunsAll ==
  ASSUME Types, ControlInv, NEW w \in Worlds, Moves(w), InCallMoves(w), JobsInv(w),
         Types', Runs(w, Len(jobvec[w]))
  PROVE  AllRan(w, Place(w))'
<1>1. PICK d \in Nat : d = Done(w)
  BY Positions
<1>2. /\ script' = script /\ Place(w)' = d + 1 /\ made' = made
  <2>1. InCall(w)'
    BY DEF Runs, InCall
  <2>2. Done(w)' = d /\ script' = script
    BY <1>1, <2>1, InCallPositions
  <2> QED BY <2>2 DEF InCallMoves, Place, Done
<1>3. PICK v \in Nat, k \in Int, l \in Nat :
        v = Len(jobvec[w]) /\ k = Kept(w) /\ l = Len(made[w]) /\ k = l - v
  BY JobsTypes DEF Kept
<1>4. /\ Len(ran[w]) \in Nat /\ Len(ran'[w]) = Len(ran[w]) + v
      /\ \A i \in 1 .. v : ran'[w][Len(ran[w]) + i] = jobvec[w][i].id
  BY <1>3, RunsTo
<1>5. ASSUME NEW i \in 1 .. l, \A o \in made[w][i].job + 1 .. d : script[o] # "runJobs"
      PROVE  made[w][i].id \in ToSet(ran'[w])
  <2>1. Keeps(w)
    BY DEF Keeps, Runs
  <2>2. i > k
    BY <1>1, <1>3, <1>5, <2>1 DEF JobsInv
  <2>3. i - k \in 1 .. v /\ k + (i - k) = i
    <3>1. k = l - v
      BY <1>3
    <3> QED BY <2>2, <3>1
  <2>4. jobvec[w][i - k] = made[w][i]
    BY <1>3, <2>3 DEF JobsInv
  <2>5. Len(ran[w]) + (i - k) \in DOMAIN ran'[w]
    <3>1. DOMAIN ran'[w] = 1 .. Len(ran'[w])
      BY DEF Types
    <3> QED BY <1>4, <2>3, <3>1
  <2> QED BY <1>4, <2>3, <2>4, <2>5 DEF ToSet
<1>6. ASSUME NEW i \in 1 .. l, RunBy(made[w][i].job, Place(w))' PROVE HasRun(w, i)'
  <2>1. PICK q \in Nat : q = made[w][i].job
    BY <1>3, JobsTypes
  <2>2. \A o \in q + 1 .. d + 1 - 1 : script[o] # "runJobs"
    BY <1>2, <1>6, <2>1 DEF RunBy
  <2>3. \A o \in q + 1 .. d : script[o] # "runJobs"
    BY <2>2
  <2> QED BY <1>2, <1>5, <2>1, <2>3 DEF HasRun
<1> QED BY <1>2, <1>3, <1>6 DEF AllRan

\* What an operation that returned anywhere promises of every world stays true.
LEMMA DoneOperations ==
  ASSUME Types, ControlInv, NEW w \in Worlds, Moves(w), DataMoves(w), PendingInv(w),
         \A v \in Worlds : JobsInv(v), NEW u \in Worlds, SuccessInv(u),
         NEW p \in 1 .. Done(u), outcomes[u][p] = "returned", NEW v \in Worlds
  PROVE  Complete(v, p)' /\ (script'[p] = "runJobs" => AllRan(v, p)')
<1>1. p \in 1 .. Len(script) /\ Done(u) \in Nat /\ Done(w) \in Nat
  BY Positions
<1>2. script'[p] = script[p]
  BY <1>1, ScriptGrows
<1>3. Complete(v, p) /\ (script[p] = "runJobs" => AllRan(v, p))
  BY DEF SuccessInv
<1>4. Begins(w) => p <= Done(w)
  <2> SUFFICES ASSUME Begins(w) PROVE p <= Done(w)
    OBVIOUS
  <2>1. u # w => Begun(u) <= Done(w) \/ Done(u) = Done(w)
    BY WhoBegins
  <2>2. Begun(u) \in Nat /\ Done(u) <= Begun(u)
    BY BegunGrows
  <2> QED BY <1>1, <2>1, <2>2
<1> QED BY <1>1, <1>2, <1>3, <1>4, CompleteStays, AllRanStays

\* A step of one world keeps that promise to the others,
LEMMA SuccessOthers ==
  ASSUME Types, ControlInv, NEW w \in Worlds, Moves(w), DataMoves(w), PendingInv(w),
         \A v \in Worlds : JobsInv(v), NEW u \in Worlds \ {w}, SuccessInv(u)
  PROVE  SuccessInv(u)'
<1>1. /\ Done(u)' = Done(u) /\ pc'[u] = pc[u] /\ mres'[u] = mres[u] /\ outcomes'[u] = outcomes[u]
      /\ (Brings0(u)' <=> Brings0(u))
  BY OthersPositions DEF Brings0, Brought
<1>2. PICK p \in Nat : p = Place(u)
  BY Positions
<1>3. Place(u)' = p /\ p = Done(u) + 1 /\ Done(u) \in Nat
  BY <1>1, <1>2, Positions DEF Place, Done
<1>4. InCall(u) => p \in 1 .. Len(script) /\ Begun(u) = p
  BY <1>3, Positions DEF Begun
<1>5. InCall(u) /\ pc[u] # "creating" /\ Begins(w) => p <= Done(w)
  BY <1>3, <1>4, WhoBegins
<1>6. \A v \in Worlds : InCall(u) /\ Complete(v, p) => Complete(v, p)'
  BY <1>4, CompleteStays
<1>7. \A v \in Worlds : InCall(u) /\ pc[u] # "creating" /\ AllRan(v, p) => AllRan(v, p)'
  BY <1>4, <1>5, AllRanStays
<1>8. pc[u] \in {"creating", "checking"} /\ Brings0(u) => Complete(u, p)'
  BY <1>2, <1>6 DEF SuccessInv, InCall
<1>9. pc[u] \in {"synchronising", "joining", "comparing"} => \A v \in Worlds : Complete(v, p)'
  BY <1>2, <1>6 DEF SuccessInv, InCall
<1>10. pc[u] = "joining" /\ Brings0(u) => AllRan(u, p)'
  BY <1>2, <1>7 DEF SuccessInv, InCall
<1>11. pc[u] = "comparing" /\ mres[u] = 0 => \A v \in Worlds : AllRan(v, p)'
  BY <1>2, <1>7 DEF SuccessInv, InCall
<1>12. \A k \in 1 .. Done(u) : outcomes[u][k] = "returned" =>
         \A v \in Worlds : Complete(v, k)' /\ (script'[k] = "runJobs" => AllRan(v, k)')
  BY DoneOperations
<1>13. /\ \A v \in Worlds : Complete(v, p)' => Complete(v, Place(u))'
       /\ \A v \in Worlds : AllRan(v, p)' => AllRan(v, Place(u))'
  BY <1>3 DEF Complete, AllRan, RunBy
<1> QED BY <1>1, <1>8, <1>9, <1>10, <1>11, <1>12, <1>13 DEF SuccessInv

\* addJob keeps it,
LEMMA SuccessSubmit ==
  ASSUME Types, ControlInv, NEW w \in Worlds, Moves(w), DataMoves(w), PendingInv(w),
         \A v \in Worlds : JobsInv(v), SuccessInv(w), AddJob(w), Submits(w)
  PROVE  SuccessInv(w)'
<1>1. /\ ~ InCall(w)' /\ Done(w)' = Done(w) + 1 /\ Done(w) \in Nat
      /\ script'[Done(w) + 1] = "addJob"
      /\ \A k \in 1 .. Done(w) : outcomes'[w][k] = outcomes[w][k]
  BY SubmitsTo, Positions
<1>2. \A k \in 1 .. Done(w) : outcomes[w][k] = "returned" =>
         \A v \in Worlds : Complete(v, k)' /\ (script'[k] = "runJobs" => AllRan(v, k)')
  BY DoneOperations
<1>3. PICK p \in Nat : p = Done(w) + 1
  BY <1>1
<1>4. \A v \in Worlds : Complete(v, p)' /\ script'[p] # "runJobs"
  BY <1>1, <1>3 DEF Complete
<1>5. \A k \in 1 .. Done(w)' : k \in 1 .. Done(w) \/ k = p
  BY <1>1, <1>3
<1>6. \A k \in 1 .. Done(w)' : outcomes'[w][k] = "returned" =>
         \A v \in Worlds : Complete(v, k)' /\ (script'[k] = "runJobs" => AllRan(v, k)')
  BY <1>1, <1>2, <1>4, <1>5
<1>7. pc'[w] = "script"
  BY <1>1 DEF InCall
<1> QED BY <1>6, <1>7 DEF SuccessInv

\* the beginning of an operation keeps it,
LEMMA SuccessCreate ==
  ASSUME Types, ControlInv, NEW w \in Worlds, Moves(w), DataMoves(w), PendingInv(w),
         \A v \in Worlds : JobsInv(v), SuccessInv(w), NEW jobs, Creates(w, jobs)
  PROVE  SuccessInv(w)'
<1>1. /\ pc'[w] = "creating" /\ outcomes' = outcomes /\ script'[Done(w) + 1] \in {"addJobPerWorld", "runJobs"}
      /\ Done(w)' = Done(w) /\ ~ InCall(w)
  BY BeginsTo DEF Creates
<1>2. \A k \in 1 .. Done(w) : outcomes[w][k] = "returned" =>
         \A v \in Worlds : Complete(v, k)' /\ (script'[k] = "runJobs" => AllRan(v, k)')
  BY DoneOperations
<1>3. PICK d \in Nat, n \in Nat : d = Done(w) /\ n = Len(create[w]) /\ d <= Len(script)
  BY Positions DEF Types
<1>4. Place(w)' = d + 1
  BY <1>1, <1>3 DEF Place, Done
<1>5. \A h \in 1 .. Len(jobs) : MadeFor(jobs[h].job, w)' # {}
  <2> SUFFICES ASSUME NEW h \in 1 .. Len(jobs) PROVE \E i \in 1 .. Len(made'[w]) : made'[w][i].job = jobs[h].job
    BY DEF MadeFor
  <2>1. /\ Len(made[w]) \in Nat /\ Len(jobs) \in Nat /\ Len(made'[w]) = Len(made[w]) + Len(jobs)
    BY CreatesTo
  <2>2. \A i \in 1 .. Len(jobs) : made'[w][Len(made[w]) + i] = jobs[i]
    BY CreatesTo
  <2>3. Len(made[w]) + h \in 1 .. Len(made'[w])
    BY <2>1
  <2> QED BY <2>2, <2>3
<1>6. ASSUME AllOf(w, jobs) PROVE Complete(w, d + 1)'
  <2>1. CASE script'[d + 1] = "addJobPerWorld"
    <3>1. PICK h \in 1 .. Len(jobs) : jobs[h].job = d + 1
      BY <1>3, <1>6, <2>1 DEF AllOf
    <3>2. MadeFor(d + 1, w)' # {}
      BY <1>5, <3>1 DEF MadeFor
    <3> QED BY <2>1, <3>2 DEF Complete
  <2>2. CASE script'[d + 1] = "runJobs"
    <3>1. \A j \in 1 .. n : InBlock(w, n, j) => \E h \in 1 .. Len(jobs) : jobs[h].job = d - n + j
      BY <1>3, <1>6, <2>2 DEF AllOf
    <3>2. ASSUME NEW k \in 0 .. d, Submitted(d, k)' PROVE k = n
      <4>1. Submitted(d, k) /\ Submitted(d, n)
        BY <1>1, <1>3, <3>2, SubmittedStays DEF PendingInv
      <4> QED BY <4>1, OneNumber
    <3>3. ASSUME NEW k \in 0 .. d + 1 - 1, Submitted(d + 1 - 1, k)', NEW j \in 1 .. k, InBlock(w, k, j)
          PROVE  MadeFor(d + 1 - k + j - 1, w)' # {}
      <4>1. k \in 0 .. d /\ d + 1 - 1 = d
        OBVIOUS
      <4>2. k = n
        BY <3>2, <3>3, <4>1
      <4>3. PICK h \in 1 .. Len(jobs) : jobs[h].job = d - k + j
        BY <3>1, <3>3, <4>2
      <4>4. d + 1 - k + j - 1 = d - k + j
        BY <4>1
      <4> QED BY <1>5, <4>3, <4>4 DEF MadeFor
    <3> QED BY <2>2, <3>3 DEF Complete, InBlock
  <2> QED BY <1>1, <1>3, <2>1, <2>2
<1>7. Brings0(w)' => Complete(w, Place(w))'
  <2>1. Brings0(w)' => Complete(w, d + 1)'
    BY <1>6 DEF Creates
  <2> QED BY <1>4, <2>1 DEF Complete
<1> QED BY <1>1, <1>2, <1>7 DEF SuccessInv

\* the calls inside an operation establish it,
LEMMA SuccessInCall ==
  ASSUME Types, ControlInv, NEW w \in Worlds, World(w), Moves(w), DataMoves(w), InCallMoves(w),
         PendingInv(w), \A v \in Worlds : JobsInv(v), \A v \in Worlds : SuccessInv(v), Types'
  PROVE  SuccessInv(w)'
<1>1. /\ InCall(w) /\ script' = script /\ Operation(w) = script[Done(w) + 1]
      /\ Done(w) \in Nat /\ Done(w) + 1 <= Len(script) /\ Len(script) \in Nat
      /\ IF InCall(w)' THEN Done(w)' = Done(w) ELSE Done(w)' = Done(w) + 1
      /\ pc'[w] = "script" <=> ~ InCall(w)'
      /\ ~ Begins(w)
  BY InCallPositions DEF Begins
<1>2. PICK p \in Nat : p = Done(w) + 1
  BY <1>1
<1>3. p = Place(w) /\ p \in 1 .. Len(script) /\ script'[p] = Operation(w)
      /\ (InCall(w)' => Place(w)' = p)
  BY <1>1, <1>2 DEF Place, Done
<1>4. \A v \in Worlds : /\ Complete(v, p) => Complete(v, p)'
                        /\ AllRan(v, p) => AllRan(v, p)'
  BY <1>1, <1>3, CompleteStays, AllRanStays
<1>5. InCall(w)' => \A v \in Worlds : /\ Complete(v, p)' => Complete(v, Place(w))'
                                      /\ AllRan(v, p)' => AllRan(v, Place(w))'
  BY <1>3 DEF Complete, AllRan, RunBy
<1>6. \A k \in 1 .. Done(w) : outcomes[w][k] = "returned" =>
         \A v \in Worlds : Complete(v, k)' /\ (script'[k] = "runJobs" => AllRan(v, k)')
  BY DoneOperations
<1>7. \A k \in 1 .. Done(w) : outcomes'[w][k] = outcomes[w][k]
  <2>1. \A m \in 0 .. 4, s \in Stages \cup Outcomes :
          Leaves(w, m, s) => \A k \in 1 .. Done(w) : outcomes'[w][k] = outcomes[w][k]
    BY ContinuesTo, EndsTo
  <2> QED BY <1>1, <2>1, FourMoves DEF Submits, Begins
<1>8. ASSUME InCall(w)' PROVE
        \A k \in 1 .. Done(w)' : outcomes'[w][k] = "returned" =>
         \A v \in Worlds : Complete(v, k)' /\ (script'[k] = "runJobs" => AllRan(v, k)')
  BY <1>1, <1>6, <1>7, <1>8
<1>t. pc \in [Worlds -> Stages \cup {"script"}] /\ outcomes \in [Worlds -> Seq(Outcomes)]
  BY DEF Types
<1>9. CASE pc[w] = "creating" /\ pc'[w] = "checking" /\ (Brings0(w)' => Brings0(w))
  <2>1. Brings0(w)' => Complete(w, p)'
    BY <1>3, <1>4, <1>9 DEF SuccessInv
  <2> QED BY <1>1, <1>5, <1>8, <1>9, <2>1 DEF SuccessInv
<1>10. CASE pc'[w] = "shipping"
  BY <1>1, <1>8, <1>10 DEF SuccessInv
<1>11. CASE pc[w] = "checking" /\ pc'[w] = "synchronising" /\ Takes(w, 0)
  <2>1. \A v \in Worlds : Complete(v, p)
    BY <1>3, <1>11, AllComplete, TakesResult
  <2> QED BY <1>1, <1>4, <1>5, <1>8, <1>11, <2>1 DEF SuccessInv
<1>12. CASE pc[w] = "synchronising" /\ pc'[w] = "joining"
  <2>1. \A v \in Worlds : Complete(v, p)
    BY <1>3, <1>12 DEF SuccessInv
  <2>2. Brings0(w)' => Runs(w, Len(jobvec[w]))
    BY <1>12 DEF InCallMoves, LeavesJobs, Drops, Runs
  <2>3. Brings0(w)' => AllRan(w, Place(w))'
    BY <2>2, WorkRunsAll
  <2> QED BY <1>1, <1>4, <1>5, <1>8, <1>12, <2>1, <2>3 DEF SuccessInv
<1>13. CASE pc[w] = "joining" /\ pc'[w] = "comparing" /\ mres'[w] \in 0 .. 4 /\ Takes(w, mres'[w])
  <2>1. \A v \in Worlds : Complete(v, p)
    BY <1>3, <1>13 DEF SuccessInv
  <2>2. mres'[w] = 0 => \A v \in Worlds : AllRan(v, p)
    BY <1>3, <1>13, AllHaveRun, TakesResult
  <2> QED BY <1>1, <1>4, <1>5, <1>8, <1>13, <2>1, <2>2 DEF SuccessInv
<1>14. ASSUME NEW how \in Outcomes, Ends(w, how),
              how = "returned" => /\ \A v \in Worlds : Complete(v, p)
                                  /\ Operation(w) = "runJobs" => \A v \in Worlds : AllRan(v, p)
       PROVE  SuccessInv(w)'
  <2>1. pc'[w] = "script" /\ Done(w)' = p
    BY <1>1, <1>2, <1>14, <1>t DEF Ends
  <2>2. outcomes'[w][p] = how
    BY <1>2, <1>14, <1>t, AppendedOn DEF Ends, Done
  <2>3. \A k \in 1 .. p : k \in 1 .. Done(w) \/ k = p
    BY <1>1, <1>2
  <2>4. \A k \in 1 .. p : outcomes'[w][k] = "returned" =>
          \A v \in Worlds : Complete(v, k)' /\ (script'[k] = "runJobs" => AllRan(v, k)')
    BY <1>3, <1>4, <1>6, <1>7, <1>14, <2>2, <2>3
  <2> QED BY <2>1, <2>4 DEF SuccessInv
<1>15. CASE Ends(w, "raised")
  BY <1>14, <1>15 DEF Outcomes
<1>16. CASE pc[w] = "checking" /\ Operation(w) = "addJobPerWorld" /\ Takes(w, 0) /\ Ends(w, "returned")
  <2>1. \A v \in Worlds : Complete(v, p)
    BY <1>3, <1>16, AllComplete, TakesResult
  <2> QED BY <1>14, <1>16, <2>1 DEF Outcomes
<1>17. CASE pc[w] = "comparing" /\ mres[w] = 0 /\ Ends(w, "returned")
  <2>1. \A v \in Worlds : Complete(v, p) /\ AllRan(v, p)
    BY <1>3, <1>17 DEF SuccessInv
  <2> QED BY <1>14, <1>17, <2>1 DEF Outcomes
<1>18. HowItLeaves(w)
  BY <1>1, InCallLeaves
<1> QED BY <1>9, <1>10, <1>11, <1>12, <1>13, <1>15, <1>16, <1>17, <1>18 DEF HowItLeaves

\* and so every step keeps it.
LEMMA SuccessStep ==
  ASSUME Types, ControlInv, NEW w \in Worlds, World(w), Moves(w), DataMoves(w),
         PendingInv(w), \A v \in Worlds : JobsInv(v), \A v \in Worlds : SuccessInv(v), Types'
  PROVE  \A u \in Worlds : SuccessInv(u)'
<1>1. SuccessInv(w)'
  BY SuccessSubmit, SuccessCreate, SuccessInCall DEF DataMoves
<1> QED BY <1>1, SuccessOthers

\* Unless the script mixes them, no addJobPerWorld comes while jobs are waiting.
LEMMA MixedStep ==
  ASSUME Types, ControlInv, NEW w \in Worlds, World(w), Moves(w), PendingInv(w),
         ~ MixesJobs, NeverMixed
  PROVE  NeverMixed'
<1>1. Place(w) = Done(w) + 1 /\ Done(w) \in Nat /\ Done(w) <= Len(script) /\ Len(script) \in Nat
  BY Positions
<1>2. CASE script' = script
  BY <1>2 DEF NeverMixed
<1>3. ASSUME NEW op \in Operations, Does(w, op), script' # script PROVE NeverMixed'
  <2>1. /\ Place(w) > Len(script) /\ script' = Append(script, op) /\ pc[w] = "script"
        /\ op = "addJobPerWorld" => create[w] = << >>
    BY <1>3 DEF Does
  <2>2. Done(w) = Len(script)
    BY <1>1, <2>1
  <2>3. /\ Len(script') = Len(script) + 1 /\ script'[Len(script) + 1] = op
        /\ \A p \in 1 .. Len(script) : script'[p] = script[p]
    BY <2>1, AppendFacts DEF Types
  <2>4. op = "addJobPerWorld" /\ Len(script) > 0 => script[Len(script)] # "addJob"
    <3> SUFFICES ASSUME op = "addJobPerWorld", Len(script) > 0 PROVE script[Len(script)] # "addJob"
      OBVIOUS
    <3>1. Len(create[w]) = 0
      BY <2>1
    <3>2. Submitted(Done(w), 0)
      BY <2>1, <3>1 DEF PendingInv, InCall
    <3> QED BY <1>1, <2>2, <3>2 DEF Submitted
  <2>5. ASSUME NEW p \in 2 .. Len(script) + 1, script'[p] = "addJobPerWorld"
        PROVE  script'[p - 1] # "addJob"
    <3>1. CASE p <= Len(script)
      <4>1. p \in 1 .. Len(script) /\ p - 1 \in 1 .. Len(script)
        BY <1>1, <3>1
      <4> QED BY <2>3, <2>5, <3>1, <4>1 DEF NeverMixed
    <3>2. CASE p = Len(script) + 1
      <4>1. p - 1 = Len(script) /\ Len(script) > 0 /\ p - 1 \in 1 .. Len(script)
        BY <1>1, <3>2
      <4> QED BY <2>3, <2>4, <2>5, <3>2, <4>1
    <3> QED BY <1>1, <3>1, <3>2
  <2> QED BY <2>3, <2>5 DEF NeverMixed
<1>4. script' = script \/ \E op \in Operations : Does(w, op)
  BY DEF World, AddJob, AddJobPerWorld, RunJobs, CheckAgain, CreationFailed, PerWorldAdded,
         Synchronise, SynchFailed, Work, Compare, EndRunJobs, JobRaised, Shipped, Operations
<1> QED BY <1>2, <1>3, <1>4

-----------------------------------------------------------------------------
(* The invariant                                                           *)

\* The invariant holds before the first operation.
LEMMA InitInv == Init => IInv
<1> SUFFICES ASSUME Init PROVE IInv
  OBVIOUS
<1>1. /\ script = << >> /\ Len(script) = 0
      /\ \A w \in Worlds :
           /\ create[w] = << >> /\ jobcounter[w] = 1 /\ jobvec[w] = << >> /\ pc[w] = "script"
           /\ mres[w] = 0 /\ brought[w] = << >> /\ took[w] = 0 /\ outcomes[w] = << >>
           /\ made[w] = << >> /\ ran[w] = << >>
  BY DEF Init
<1>2. \A w \in Worlds : /\ ~ InCall(w) /\ Done(w) = 0 /\ Brought(w) = 0 /\ Begun(w) = 0
                        /\ Kept(w) = 0 /\ Len(made[w]) = 0 /\ Len(jobvec[w]) = 0
                        /\ Len(ran[w]) = 0 /\ Len(create[w]) = 0 /\ Place(w) = 1
  BY <1>1 DEF InCall, Done, Brought, Begun, Kept, Place
<1>3. Types
  BY BoundAssumption DEF Init, Types
<1>4. ControlInv
  <2>1. \A w \in Worlds : WorldInv(w)
    BY <1>1, <1>2 DEF WorldInv
  <2>2. ASSUME NEW a \in Worlds, NEW b \in Worlds PROVE PairInv(a, b)
    BY <1>1, <1>2 DEF PairInv, Abreast, OnlyAddsJobs
  <2> QED BY <2>1, <2>2 DEF ControlInv
<1>5. ASSUME NEW w \in Worlds PROVE PendingInv(w) /\ JobsInv(w) /\ RanInv(w) /\ SuccessInv(w)
  <2>1. PendingInv(w)
    BY <1>1, <1>2 DEF PendingInv, Submitted, OnlyAddsJobs
  <2>2. JobsInv(w)
    BY <1>1, <1>2 DEF JobsInv
  <2>3. RanInv(w)
    BY <1>1, <1>2 DEF RanInv
  <2>4. SuccessInv(w)
    BY <1>1, <1>2 DEF SuccessInv
  <2> QED BY <2>1, <2>2, <2>3, <2>4
<1>6. ASSUME NEW a \in Worlds, NEW b \in Worlds PROVE IdsInv(a, b)
  BY <1>1, <1>2 DEF IdsInv, Ahead
<1>7. NeverMixed
  BY <1>1 DEF NeverMixed
<1> QED BY <1>3, <1>4, <1>5, <1>6, <1>7 DEF IInv

\* Every step of a world keeps the invariant.
LEMMA WorldStep ==
  ASSUME IInv, NEW w \in Worlds, World(w)
  PROVE  IInv'
<1>1. /\ Types /\ ControlInv /\ (~ MixesJobs => NeverMixed)
      /\ \A u \in Worlds : PendingInv(u) /\ JobsInv(u) /\ RanInv(u) /\ SuccessInv(u)
      /\ \A a, b \in Worlds : IdsInv(a, b)
  BY DEF IInv
<1>2. Moves(w) /\ DataMoves(w)
  BY <1>1, WorldDataMoves
<1>3. Types' /\ ControlInv'
  BY <1>1, <1>2, TypesStep, ControlStep
<1>4. \A u \in Worlds : PendingInv(u)' /\ JobsInv(u)' /\ RanInv(u)'
  <2> SUFFICES ASSUME NEW u \in Worlds PROVE PendingInv(u)' /\ JobsInv(u)' /\ RanInv(u)'
    OBVIOUS
  <2>1. CASE u = w
    BY <1>1, <1>2, <2>1, PendingStep, JobsStep, RanStep
  <2>2. CASE u # w
    BY <1>1, <1>2, <2>2, PendingOthers, JobsOthers, RanOthers
  <2> QED BY <2>1, <2>2
<1>5. \A u \in Worlds : SuccessInv(u)'
  BY <1>1, <1>2, <1>3, SuccessStep
<1>6. \A a, b \in Worlds : IdsInv(a, b)'
  BY <1>1, <1>2, <1>3, <1>4, IdsStep
<1>7. ~ MixesJobs => NeverMixed'
  BY <1>1, <1>2, MixedStep
<1> QED BY <1>3, <1>4, <1>5, <1>6, <1>7 DEF IInv

\* A step that changes nothing keeps the invariant.
LEMMA StutterInv ==
  ASSUME IInv, UNCHANGED vars
  PROVE  IInv'
<1>1. /\ script' = script /\ create' = create /\ jobcounter' = jobcounter /\ jobvec' = jobvec
      /\ pc' = pc /\ mres' = mres /\ brought' = brought /\ took' = took
      /\ outcomes' = outcomes /\ made' = made /\ ran' = ran
  BY DEF vars
<1>2. Types' /\ ControlInv' /\ (~ MixesJobs => NeverMixed')
  BY <1>1 DEF IInv, Types, ControlInv, WorldInv, PairInv, Begun, Done, InCall, Brought, Operation,
       Place, Result, Follows, Beyond, Within, Abreast, OnlyAddsJobs, NeverMixed
<1>3. \A u \in Worlds : PendingInv(u)' /\ JobsInv(u)' /\ RanInv(u)' /\ SuccessInv(u)'
  <2> SUFFICES ASSUME NEW u \in Worlds
               PROVE  PendingInv(u)' /\ JobsInv(u)' /\ RanInv(u)' /\ SuccessInv(u)'
    OBVIOUS
  <2>0. /\ Done(u)' = Done(u) /\ (InCall(u)' <=> InCall(u)) /\ Begun(u)' = Begun(u)
        /\ Kept(u)' = Kept(u) /\ (Keeps(u)' <=> Keeps(u))
        /\ \A p, n : Submitted(p, n)' <=> Submitted(p, n)
        /\ \A q : MadeRightly(u, q)' <=> MadeRightly(u, q)
    BY <1>1 DEF Begun, Done, InCall, Operation, Place, OnlyAddsJobs, Submitted, MadeRightly,
         InBlock, Kept, Keeps
  <2>1. PendingInv(u)' /\ RanInv(u)'
    <3>1. PendingInv(u) /\ RanInv(u)
      BY DEF IInv
    <3>2. PendingInv(u)'
      BY <1>1, <2>0, <3>1 DEF PendingInv
    <3>3. RanInv(u)'
      BY <1>1, <3>1 DEF RanInv
    <3> QED BY <3>2, <3>3
  <2>2. JobsInv(u)'
    <3>1. JobsInv(u)
      BY DEF IInv
    <3> QED BY <1>1, <2>0, <3>1 DEF JobsInv
  <2>3. SuccessInv(u)'
    <3>1. \A v, p : /\ Complete(v, p)' <=> Complete(v, p)
                    /\ AllRan(v, p)' <=> AllRan(v, p)
      BY <1>1 DEF Complete, AllRan, MadeFor, Submitted, OnlyAddsJobs, InBlock, RunBy, HasRun
    <3>2. SuccessInv(u)
      BY DEF IInv
    <3> QED BY <1>1, <3>1, <3>2 DEF SuccessInv, Done, Place, Brings0, Brought
  <2> QED BY <2>1, <2>2, <2>3
<1>4. \A a, b \in Worlds : IdsInv(a, b)'
  BY <1>1 DEF IInv, IdsInv, Ahead, IdsFrom, Begun, Done, InCall, Operation, Place, OnlyAddsJobs,
       Submitted, InBlock
<1> QED BY <1>2, <1>3, <1>4 DEF IInv

-----------------------------------------------------------------------------
(* The theorems                                                            *)

\* Where the worlds are, which jobs they hold and what they have run follows from the
\* script, in every reachable state.
THEOREM Invariance == Spec => []IInv
<1>1. IInv /\ [Next]_vars => IInv'
  BY WorldStep, StutterInv DEF Next, Finished
<1> QED BY <1>1, InitInv, PTL DEF Spec

\* The tables stay within their types: what waits or is kept on a world are operations
\* of the script and jobs made there.
THEOREM TypeOKHolds == Spec => []TypeOK
<1>1. ASSUME IInv PROVE TypeOK
  <2>1. Types /\ ControlInv
    BY <1>1 DEF IInv
  <2>2. script \in Seq({"addJob", "addJobPerWorld", "runJobs"}) /\ Len(script) <= MaxOps
    BY <2>1 DEF Types, Operations
  <2>3. ASSUME NEW w \in Worlds
        PROVE  /\ Len(outcomes[w]) <= Len(script)
               /\ ToSet(create[w]) \subseteq 1 .. Len(script)
               /\ jobcounter[w] \in Nat \ {0}
               /\ ToSet(jobvec[w]) \subseteq ToSet(made[w])
               /\ took[w] \in 0 .. Len(brought[w])
               /\ mres[w] \in 0 .. 4
    <3>1. /\ Done(w) \in Nat /\ Brought(w) \in Nat /\ took[w] \in Nat /\ Len(script) \in Nat
          /\ WorldInv(w) /\ Done(w) <= Len(script)
      BY <2>1, Positions
    <3>2. PendingInv(w) /\ JobsInv(w)
      BY <1>1 DEF IInv
    <3>3. \A i \in 1 .. Len(create[w]) : create[w][i] \in 1 .. Len(script)
      <4>1. CASE InCall(w)
        BY <3>2, <4>1 DEF PendingInv
      <4>2. CASE ~ InCall(w)
        <5>1. PICK d \in Nat, n \in Nat : d = Done(w) /\ n = Len(create[w])
          BY <2>1, <3>1 DEF Types
        <5>2. n <= d /\ \A i \in 1 .. n : create[w][i] = d - n + i
          BY <3>2, <4>2, <5>1 DEF PendingInv, Submitted
        <5>3. d <= Len(script)
          BY <3>1, <5>1
        <5> QED BY <3>1, <5>1, <5>2, <5>3
      <4> QED BY <4>1, <4>2
    <3>4. create[w] \in Seq(Nat) /\ jobvec[w] \in Seq(Jobs) /\ made[w] \in Seq(Jobs)
      BY <2>1 DEF Types
    <3>5. ToSet(create[w]) \subseteq 1 .. Len(script)
      BY <3>3, <3>4 DEF ToSet
    <3>6. ToSet(jobvec[w]) \subseteq ToSet(made[w])
      <4>1. PICK l \in Nat, v \in Nat, k \in Int :
              l = Len(made[w]) /\ v = Len(jobvec[w]) /\ k = Kept(w) /\ k = l - v
        BY <2>1, JobsTypes DEF Kept
      <4>2. k >= 0 /\ \A i \in 1 .. v : jobvec[w][i] = made[w][k + i]
        BY <3>2, <4>1 DEF JobsInv
      <4>3. ASSUME NEW i \in 1 .. v PROVE k + i \in 1 .. l
        <5>1. l \in Nat /\ v \in Nat /\ k \in Int /\ k = l - v /\ k >= 0
          BY <4>1, <4>2
        <5> QED BY <5>1
      <4>4. DOMAIN jobvec[w] = 1 .. v /\ DOMAIN made[w] = 1 .. l
        BY <3>4, <4>1
      <4>5. \A i \in 1 .. v : jobvec[w][i] \in {made[w][j] : j \in 1 .. l}
        BY <4>2, <4>3
      <4> QED BY <4>4, <4>5 DEF ToSet
    <3>7. took[w] \in 0 .. Len(brought[w])
      <4>1. InCall(w) => Brought(w) > 0
        BY <3>1 DEF WorldInv
      <4> QED BY <3>1, <4>1 DEF WorldInv, Brought
    <3>8. jobcounter[w] \in Nat \ {0} /\ mres[w] \in 0 .. 4
      BY <2>1 DEF Types
    <3> QED BY <3>1, <3>5, <3>6, <3>7, <3>8 DEF Done
  <2> QED BY <2>2, <2>3 DEF TypeOK
<1> QED BY <1>1, Invariance, PTL

\* However many worlds there are, and whatever fails on one of them, all make the same
\* collective calls in the same order.
THEOREM CallsMatchHolds == Spec => []CallsMatch
<1>1. IInv => CallsMatch
  BY DEF IInv, ControlInv, PairInv, CallsMatch, Brought
<1> QED BY <1>1, Invariance, PTL

\* However many worlds there are, every operation of a script returns on all of them or
\* raises on all of them.
THEOREM SameOutcomeHolds == Spec => []SameOutcome
<1>1. IInv => SameOutcome
  BY DEF IInv, ControlInv, PairInv, SameOutcome, Done
<1> QED BY <1>1, Invariance, PTL

\* No two jobs of a script have the same id, on the same world or on different ones.
THEOREM IdsUniqueHolds == Spec => []IdsUnique
<1>1. IInv => IdsUnique
  BY DEF IInv, IdsInv, IdsUnique
<1> QED BY <1>1, Invariance, PTL

\* No job runs a second time, and a world that has left runJobs holds no job, neither
\* submitted nor made.
THEOREM NothingLeftHolds == Spec => []NothingLeft
<1>1. ASSUME IInv PROVE NothingLeft
  <2> SUFFICES ASSUME NEW w \in Worlds
               PROVE  /\ IsInjective(ran[w])
                      /\ pc[w] = "script" /\ Place(w) > 1 /\ script[Place(w) - 1] = "runJobs"
                           => create[w] = << >> /\ jobvec[w] = << >>
    BY DEF NothingLeft
  <2>1. /\ Types /\ ControlInv /\ PendingInv(w) /\ JobsInv(w) /\ RanInv(w)
    BY <1>1 DEF IInv
  <2>2. IsInjective(ran[w])
    <3>1. ran[w] \in Seq(Nat) /\ DOMAIN ran[w] = 1 .. Len(ran[w]) /\ Len(ran[w]) \in Nat
      BY <2>1 DEF Types
    <3>2. \A i \in 1 .. Len(ran[w]) : ran[w][i] \in Nat
      BY <3>1
    <3>3. \A i, j \in 1 .. Len(ran[w]) : i < j => ran[w][i] < ran[w][j]
      BY <2>1 DEF RanInv
    <3>4. ASSUME NEW i \in 1 .. Len(ran[w]), NEW j \in 1 .. Len(ran[w]), ran[w][i] = ran[w][j]
          PROVE  i = j
      <4>1. ~ (i < j) /\ ~ (j < i)
        BY <3>2, <3>3, <3>4
      <4> QED BY <3>1, <4>1
    <3> QED BY <3>1, <3>4 DEF IsInjective
  <2>3. ASSUME pc[w] = "script", Place(w) > 1, script[Place(w) - 1] = "runJobs"
        PROVE  create[w] = << >> /\ jobvec[w] = << >>
    <3>1. ~ InCall(w) /\ Done(w) \in Nat /\ Place(w) = Done(w) + 1
      BY <2>1, <2>3, Positions DEF InCall
    <3>2. Done(w) > 0 /\ script[Done(w)] = "runJobs"
      BY <2>3, <3>1
    <3>3. jobvec[w] = << >>
      BY <2>1, <3>1, <3>2 DEF JobsInv
    <3>4. create[w] \in Seq(Nat) /\ Len(create[w]) \in Nat
      BY <2>1 DEF Types
    <3>5. PICK n \in Nat : n = Len(create[w])
      BY <3>4
    <3>6. n <= Done(w) /\ \A o \in Done(w) - n + 1 .. Done(w) : script[o] = "addJob"
      BY <2>1, <3>1, <3>5 DEF PendingInv, Submitted, OnlyAddsJobs
    <3>7. n > 0 => Done(w) \in Done(w) - n + 1 .. Done(w)
      BY <3>1, <3>5
    <3>8. n = 0
      BY <3>2, <3>5, <3>6, <3>7
    <3>9. create[w] = << >>
      BY <3>4, <3>5, <3>8, EmptySeq
    <3> QED BY <3>3, <3>9
  <2> QED BY <2>2, <2>3
<1> QED BY <1>1, Invariance, PTL

\* Jobs are made in the order of the script, one for each of its operations.
LEMMA OneJobEach ==
  ASSUME IInv, NEW u \in Worlds, NEW q, NEW i \in MadeFor(q, u)
  PROVE  i \in 1 .. Len(made[u]) /\ made[u][i].job = q /\ MadeFor(q, u) = {i}
<1>1. Types /\ JobsInv(u)
  BY DEF IInv
<1>2. Len(made[u]) \in Nat /\ \A j \in 1 .. Len(made[u]) : made[u][j].job \in Nat
  BY <1>1, JobsTypes
<1>3. i \in 1 .. Len(made[u]) /\ made[u][i].job = q
  BY DEF MadeFor
<1>4. \A j, k \in 1 .. Len(made[u]) : j < k => made[u][j].job < made[u][k].job
  BY <1>1 DEF JobsInv
<1>5. ASSUME NEW j \in 1 .. Len(made[u]), made[u][j].job = q PROVE j = i
  <2>1. ~ (j < i) /\ ~ (i < j)
    BY <1>2, <1>3, <1>4, <1>5
  <2> QED BY <1>2, <1>3, <2>1
<1> QED BY <1>3, <1>5 DEF MadeFor

\* The jobs on a world are no more than the operations of the script.
LEMMA FewJobs ==
  ASSUME IInv, NEW u \in Worlds, NEW i \in 1 .. Len(made[u])
  PROVE  i \in 1 .. Len(script)
<1>1. Types /\ ControlInv /\ JobsInv(u)
  BY DEF IInv
<1>2. Len(made[u]) \in Nat /\ \A j \in 1 .. Len(made[u]) : made[u][j].job \in Nat \ {0}
  BY <1>1, JobsTypes, JobPlaces
<1>3. \A j, k \in 1 .. Len(made[u]) : j < k => made[u][j].job < made[u][k].job
  BY <1>1 DEF JobsInv
<1> DEFINE Early == {j \in 1 .. Len(made[u]) : made[u][j].job < j}
<1>4. Early = {}
  <2> SUFFICES ASSUME Early # {} PROVE FALSE
    OBVIOUS
  <2>1. PICK j \in Early : \A k \in Early : ~ (k < j)
    <3>1. Early \subseteq Nat
      OBVIOUS
    <3>2. IsWellFoundedOn(OpToRel(<, Nat), Nat)
      BY NatLessThanWellFounded
    <3> HIDE DEF Early
    <3>3. PICK j \in Early : \A k \in Early : ~ (<<k, j>> \in OpToRel(<, Nat))
      BY <3>1, <3>2, WFMin
    <3> QED BY <3>1, <3>3 DEF OpToRel
  <2>2. j \in 1 .. Len(made[u]) /\ made[u][j].job < j
    BY <2>1
  <2>3. j - 1 \in 1 .. Len(made[u]) /\ j - 1 < j
    BY <1>2, <2>2
  <2>4. ~ (made[u][j - 1].job < j - 1)
    BY <2>1, <2>3
  <2>5. made[u][j - 1].job < made[u][j].job
    BY <1>3, <2>2, <2>3
  <2> QED BY <1>2, <2>2, <2>3, <2>4, <2>5
<1>5. ~ (made[u][i].job < i)
  BY <1>4
<1>6. made[u][i].job <= Begun(u) /\ made[u][i].job \in Nat
  BY <1>1, <1>2, JobPlaces
<1>7. Begun(u) <= Len(script) /\ Begun(u) \in Nat /\ Len(script) \in Nat
  BY <1>1, Positions DEF Begun, WorldInv
<1> QED BY <1>2, <1>5, <1>6, <1>7

\* What an operation that returned on some world has done on all
LEMMA WhatSucceeds ==
  ASSUME IInv, NEW p \in 1 .. Len(script), Succeeded(p), NEW u \in Worlds
  PROVE  /\ Complete(u, p)
         /\ script[p] = "runJobs" => AllRan(u, p)
<1>1. PICK w \in Worlds : p <= Len(outcomes[w]) /\ outcomes[w][p] = "returned"
  BY DEF Succeeded
<1>2. SuccessInv(w) /\ Types /\ ControlInv
  BY DEF IInv
<1>3. Done(w) \in Nat /\ Len(script) \in Nat
  BY <1>2, Positions
<1>4. p \in 1 .. Done(w)
  BY <1>1, <1>3 DEF Done
<1> QED BY <1>1, <1>2, <1>4 DEF SuccessInv

\* However many worlds there are, addJobPerWorld makes one job on each of them, and the
\* next runJobs that returns has run it there.
THEOREM PerWorldJobsRunHolds == Spec => []PerWorldJobsRun
<1>1. ASSUME IInv PROVE PerWorldJobsRun
  <2> SUFFICES ASSUME NEW q \in 1 .. Len(script), NEW p \in 1 .. Len(script),
                      script[q] = "addJobPerWorld", RunBy(q, p), Succeeded(q), Succeeded(p),
                      NEW u \in Worlds
               PROVE  \E i \in MadeFor(q, u) : MadeFor(q, u) = {i} /\ HasRun(u, i)
    BY DEF PerWorldJobsRun
  <2>1. Complete(u, q) /\ AllRan(u, p)
    BY <1>1, WhatSucceeds DEF RunBy
  <2>2. PICK i \in MadeFor(q, u) : TRUE
    BY <2>1 DEF Complete
  <2>3. i \in 1 .. Len(made[u]) /\ made[u][i].job = q /\ MadeFor(q, u) = {i}
    BY <1>1, OneJobEach
  <2>4. HasRun(u, i)
    BY <2>1, <2>3 DEF AllRan
  <2> QED BY <2>3, <2>4
<1> QED BY <1>1, Invariance, PTL

\* The jobs that wait for runJobs at place p are the n submitted in a row before it.
LEMMA WaitsInRow ==
  ASSUME IInv, ~ MixesJobs, NEW q \in 1 .. Len(script), NEW p \in 1 .. Len(script),
         script[q] = "addJob", RunBy(q, p), NEW n \in 0 .. p - 1, Submitted(p - 1, n)
  PROVE  p - n <= q
<1> SUFFICES ASSUME q < p - n PROVE FALSE
  OBVIOUS
<1>1. Len(script) \in Nat /\ script \in Seq(Operations) /\ NeverMixed
  BY DEF IInv, Types
<1>2. q < p /\ \A o \in q + 1 .. p - 1 : script[o] # "runJobs"
  BY DEF RunBy
<1> DEFINE r == p - 1 - n
           Others == {o \in q + 1 .. r : script[o] # "addJob"}
<1>3. r \in q .. p - 1 /\ n < p - 1 /\ script[r] # "addJob"
  <2>1. r \in q .. p - 1 /\ n < p - 1
    OBVIOUS
  <2>2. script[p - 1 - n] # "addJob"
    BY <2>1 DEF Submitted
  <2> QED BY <2>1, <2>2
<1>4. r \in Others
  <2>1. r # q
    BY <1>3
  <2> QED BY <1>3, <2>1
<1>5. PICK o \in Others : \A k \in Others : ~ (k < o)
  <2>1. Others \subseteq Nat
    OBVIOUS
  <2>2. IsWellFoundedOn(OpToRel(<, Nat), Nat)
    BY NatLessThanWellFounded
  <2> HIDE DEF Others
  <2>3. PICK o \in Others : \A k \in Others : ~ (<<k, o>> \in OpToRel(<, Nat))
    BY <1>4, <2>1, <2>2, WFMin
  <2> QED BY <2>1, <2>3 DEF OpToRel
<1>6. o \in q + 1 .. r /\ script[o] # "addJob"
  BY <1>5
<1>7. o \in 2 .. Len(script) /\ o \in q + 1 .. p - 1
  BY <1>1, <1>3, <1>6
<1>8. script[o] = "addJobPerWorld"
  BY <1>1, <1>2, <1>6, <1>7 DEF Operations
<1>9. script[o - 1] # "addJob"
  BY <1>1, <1>7, <1>8 DEF NeverMixed
<1>10. o - 1 # q
  BY <1>9
<1>11. o - 1 \in Others
  BY <1>6, <1>9, <1>10
<1> QED BY <1>5, <1>6, <1>11

\* Unless a script calls addJobPerWorld while jobs wait, a job that addJob has submitted
\* is made on exactly one world and run there, by the next runJobs that returns.
THEOREM JobsRunOnceHolds ==
  ASSUME ~ MixesJobs
  PROVE  Spec => []JobsRunOnce
<1>1. ASSUME IInv PROVE JobsRunOnce
  <2> SUFFICES ASSUME NEW q \in 1 .. Len(script), NEW p \in 1 .. Len(script),
                      script[q] = "addJob", RunBy(q, p), Succeeded(p)
               PROVE  \E u \in Worlds, i \in 1 .. Len(script) :
                        /\ MadeFor(q, u) = {i} /\ HasRun(u, i)
                        /\ \A v \in Worlds \ {u} : MadeFor(q, v) = {}
    BY DEF JobsRunOnce
  <2>1. script[p] = "runJobs" /\ q < p /\ \A o \in q + 1 .. p - 1 : script[o] # "runJobs"
    BY DEF RunBy
  <2>2. PICK n \in 0 .. p - 1 : Submitted(p - 1, n)
    <3>1. PICK w \in Worlds : p <= Len(outcomes[w])
      BY DEF Succeeded
    <3>2. Types /\ ControlInv /\ PendingInv(w)
      BY <1>1 DEF IInv
    <3>3. Begun(w) \in Nat /\ Done(w) \in Nat /\ Done(w) <= Begun(w)
      BY <3>2, Positions DEF Begun
    <3>4. p \in 1 .. Begun(w)
      BY <3>1, <3>3 DEF Done
    <3> QED BY <3>2, <3>4 DEF PendingInv
  <2>3. p - n <= q
    BY <1>1, <2>2, WaitsInRow
  <2> DEFINE j == q - (p - n) + 1
  <2>4. j \in 1 .. n /\ n \in Nat /\ p - n + j - 1 = q
    BY <2>1, <2>2, <2>3
  <2>5. PICK u \in Worlds : InBlock(u, n, j)
    <3> HIDE DEF j
    <3> QED BY <2>4, OneBlock
  <2>6. Complete(u, p) /\ AllRan(u, p)
    BY <1>1, <2>1, WhatSucceeds
  <2>7. MadeFor(p - n + j - 1, u) # {}
    <3> HIDE DEF j
    <3> QED BY <2>1, <2>2, <2>4, <2>5, <2>6 DEF Complete
  <2>8. PICK i \in MadeFor(q, u) : TRUE
    BY <2>4, <2>7
  <2>9. i \in 1 .. Len(made[u]) /\ made[u][i].job = q /\ MadeFor(q, u) = {i}
    BY <1>1, OneJobEach
  <2>10. i \in 1 .. Len(script)
    BY <1>1, <2>9, FewJobs
  <2>11. HasRun(u, i)
    BY <2>6, <2>9 DEF AllRan
  <2>12. ASSUME NEW v \in Worlds \ {u} PROVE MadeFor(q, v) = {}
    <3> SUFFICES ASSUME NEW k \in 1 .. Len(made[v]), made[v][k].job = q PROVE FALSE
      BY DEF MadeFor
    <3>1. Types /\ ControlInv /\ JobsInv(v)
      BY <1>1 DEF IInv
    <3>2. MadeRightly(v, q)
      BY <3>1 DEF JobsInv
    <3>3. PICK p2 \in q + 1 .. Begun(v) : \E n2 \in 0 .. p2 - 1 :
            /\ script[p2] = "runJobs" /\ Submitted(p2 - 1, n2)
            /\ p2 - n2 <= q /\ InBlock(v, n2, q - (p2 - n2) + 1)
      BY <3>2 DEF MadeRightly
    <3>n. PICK n2 \in 0 .. p2 - 1 :
            /\ script[p2] = "runJobs" /\ Submitted(p2 - 1, n2)
            /\ p2 - n2 <= q /\ InBlock(v, n2, q - (p2 - n2) + 1)
      BY <3>3
    <3>4. Begun(v) \in Nat
      BY <3>1, Positions DEF Begun
    <3>5. ~ (p2 < p)
      BY <2>1, <3>n, <3>4
    <3>6. ~ (p < p2)
      <4> SUFFICES ASSUME p < p2 PROVE FALSE
        OBVIOUS
      <4>1. p \in p2 - n2 .. p2 - 1
        BY <2>1, <3>n, <3>4
      <4>2. \A o \in (p2 - 1) - n2 + 1 .. p2 - 1 : script[o] = "addJob"
        BY <3>n DEF Submitted, OnlyAddsJobs
      <4>3. p \in (p2 - 1) - n2 + 1 .. p2 - 1
        BY <3>n, <3>4, <4>1
      <4> QED BY <2>1, <4>2, <4>3
    <3>7. p2 = p
      BY <3>3, <3>4, <3>5, <3>6
    <3>8. n2 = n
      <4>1. p - 1 \in Nat /\ n \in Nat /\ n2 \in Nat
        BY <2>1, <2>2, <3>n, <3>7
      <4> QED BY <2>2, <3>n, <3>7, <4>1, OneNumber
    <3>9. InBlock(v, n, j)
      BY <3>n, <3>7, <3>8
    <3>10. u = v
      <4> HIDE DEF j
      <4> QED BY <2>4, <2>5, <3>9, OneBlock
    <3> QED BY <3>10
  <2> QED BY <2>9, <2>10, <2>11, <2>12
<1> QED BY <1>1, Invariance, PTL
=============================================================================
