-------------------------- MODULE CheckResultProofs --------------------------
(***************************************************************************)
(* Proofs about CheckResult, for any number of processes, any results and  *)
(* any number of rounds, whether or not MPI buffers: the protocol          *)
(* implements Agreement, and never has two messages under way between the  *)
(* same two ranks.                                                         *)
(***************************************************************************)
EXTENDS CheckResult, TLAPS

-----------------------------------------------------------------------------
(* Sequences and rounds                                                    *)

\* Appending to a list keeps what is in it and adds one at the end.
LEMMA AppendFacts ==
  ASSUME NEW S, NEW s \in Seq(S), NEW x \in S
  PROVE  /\ Append(s, x) \in Seq(S)
         /\ Len(Append(s, x)) = Len(s) + 1
         /\ \A i \in 1 .. Len(s) : Append(s, x)[i] = s[i]
         /\ Append(s, x)[Len(s) + 1] = x
  OBVIOUS

\* The leader is a rank and not one of the others.
LEMMA LeaderIsRank == leader \in Ranks /\ Others \subseteq Ranks /\ leader \notin Others
  BY SizeAssumption DEF leader, Ranks, Others

\* What was the largest result of a round stays so while the ranks go on.
LEMMA LargestStable ==
  ASSUME brought \in [Ranks -> Seq(Results)], NEW r \in Ranks, NEW x \in Results,
         brought' = [brought EXCEPT ![r] = Append(@, x)]
  PROVE  \A m, k : k \in Nat \ {0} /\ Abstract!Largest(m, k) => Abstract!Largest(m, k)'
<1> SUFFICES ASSUME NEW m, NEW k \in Nat \ {0}, Abstract!Largest(m, k)
             PROVE  Abstract!Largest(m, k)'
  OBVIOUS
<1>1. ASSUME NEW s \in Ranks
      PROVE  Len(brought'[s]) >= k /\ brought'[s][k] = brought[s][k]
  <2>1. brought[s] \in Seq(Results) /\ Len(brought[s]) >= k
    BY DEF Abstract!Largest
  <2>2. CASE s = r
    <3>1. brought'[s] = Append(brought[s], x)
      BY <2>2
    <3>2. Len(brought[s]) \in Nat /\ k \in 1 .. Len(brought[s])
      BY <2>1
    <3> QED BY <2>1, <3>1, <3>2, AppendFacts
  <2>3. CASE s # r
    BY <2>1, <2>3
  <2> QED BY <2>2, <2>3
<1> QED BY <1>1 DEF Abstract!Largest

\* When the leader has a result from every other rank, the maximum it finds is the
\* largest result of the round.
LEMMA MaximumIsLargest ==
  ASSUME Inv, pc[leader] = "gathering", \A r \in Others : eres[r] # << >>,
         NEW m, IsMaximum(m)
  PROVE  /\ Abstract!Largest(m, answered + 1)
         /\ \A r \in Others : Asking(r) /\ up[r] = << >>
<1>1. answered = Len(took[leader]) /\ Len(brought[leader]) = answered + 1
  BY LeaderIsRank DEF Inv, TypeOK, LeaderInv, answered
<1>2. ASSUME NEW r \in Others
      PROVE  /\ Asking(r) /\ up[r] = << >>
             /\ eres[r][1] = brought[r][answered + 1] /\ Len(brought[r]) = answered + 1
  <2>1. Gathered(r) # << >>
    BY DEF Gathered
  <2>2. Asking(r)
    BY <2>1 DEF Inv, Outside, Answered
  <2>3. up[r] = << >> /\ eres[r] = <<brought[r][answered + 1]>> /\ Len(brought[r]) = answered + 1
    BY <2>1, <2>2 DEF Asking, Gathered
  <2> QED BY <2>2, <2>3
<1>4. \A r \in Ranks : r = leader \/ r \in Others
  BY DEF Others
<1>5. answered \in Nat
  BY <1>1, LeaderIsRank DEF Inv, TypeOK
<1>6. \A r \in Ranks : Len(brought[r]) >= answered + 1
  BY <1>1, <1>2, <1>4, <1>5
<1>7. \A r \in Ranks : brought[r][answered + 1] <= m
  BY <1>1, <1>2, <1>4 DEF IsMaximum
<1>8. \E r \in Ranks : brought[r][answered + 1] = m
  BY <1>1, <1>2, LeaderIsRank DEF IsMaximum
<1> QED BY <1>2, <1>6, <1>7, <1>8 DEF Abstract!Largest

-----------------------------------------------------------------------------
(* The invariant is inductive.                                             *)

Placed(r) == Outside(r) \/ Asking(r) \/ Answered(r)

RoundsStay == \A m, k : k \in Nat \ {0} /\ Abstract!Largest(m, k) => Abstract!Largest(m, k)'

\* A rank that a step doesn't touch stays where it is.
LEMMA PlacedStays ==
  ASSUME Inv, RoundsStay, NEW s \in Others,
         brought'[s] = brought[s], took'[s] = took[s], pc'[s] = pc[s],
         up'[s] = up[s], down'[s] = down[s], Gathered(s)' = Gathered(s), answered' = answered
  PROVE  Placed(s)'
<1>1. Outside(s) => Outside(s)'
  BY DEF Outside
<1>2. Asking(s) => Asking(s)'
  BY DEF Asking
<1>3. ASSUME Answered(s) PROVE Answered(s)'
  <2>1. answered \in Nat \ {0}
    <3>1. answered \in Nat
      BY LeaderIsRank DEF Inv, TypeOK, answered
    <3>2. took[s] \in Seq(Results) /\ Len(took[s]) \in Nat
      BY LeaderIsRank DEF Inv, TypeOK
    <3> QED BY <1>3, <3>1, <3>2 DEF Answered
  <2>2. PICK m \in Results : down[s] = <<m>> /\ Abstract!Largest(m, answered)
    BY <1>3 DEF Answered
  <2>3. Abstract!Largest(m, answered)'
    BY <2>1, <2>2 DEF RoundsStay, Abstract!Largest
  <2> QED BY <1>3, <2>2, <2>3 DEF Answered
<1> QED BY <1>1, <1>2, <1>3 DEF Inv, Placed

\* If no rank has called, what every rank brought to each round stays.
LEMMA UnchangedRounds == ASSUME UNCHANGED brought PROVE RoundsStay
  BY DEF RoundsStay, Abstract!Largest

\* Every step leaves a typed state.
LEMMA TypeStep == ASSUME Inv, Next PROVE TypeOK'
<1> USE DEF TypeOK, Inv
<1>e. Empty \in [Ranks -> Seq(Results)]
  BY DEF Empty
<1>m. Results \subseteq Int
  BY ResultsAssumption
<1>1. ASSUME NEW x \in Results, CallLeader(x) PROVE TypeOK'
  <2>1. brought[leader] \in Seq(Results) /\ Append(brought[leader], x) \in Seq(Results)
    BY LeaderIsRank, AppendFacts
  <2> QED BY <1>1, <2>1, <1>m, <1>e, LeaderIsRank DEF CallLeader
<1>2. ASSUME NEW r \in Others, NEW x \in Results, Call(r, x) PROVE TypeOK'
  BY <1>2, LeaderIsRank DEF Call
<1>3. ASSUME NEW r \in Others, SendEnds(r) PROVE TypeOK'
  BY <1>3, LeaderIsRank DEF SendEnds
<1>4. ASSUME NEW r \in Others, Gather(r) PROVE TypeOK'
  <2>1. up[r] \in Seq(Results) /\ up[r] # << >>
    BY <1>4, LeaderIsRank DEF Gather
  <2>2. Head(up[r]) \in Results /\ Tail(up[r]) \in Seq(Results)
    BY <2>1
  <2> QED BY <1>4, <2>2, LeaderIsRank DEF Gather
<1>5. ASSUME NEW r \in Others, Return(r) PROVE TypeOK'
  <2>1. down[r] \in Seq(Results) /\ down[r] # << >>
    BY <1>5, LeaderIsRank DEF Return
  <2>2. Head(down[r]) \in Results /\ Tail(down[r]) \in Seq(Results)
    BY <2>1
  <2> QED BY <1>5, <2>2, LeaderIsRank DEF Return
<1>6. ASSUME NEW m \in Results, Answer(m) PROVE TypeOK'
  BY <1>6, <1>m, LeaderIsRank DEF Answer
<1>7. ASSUME ReturnLeader PROVE TypeOK'
  BY <1>7, LeaderIsRank DEF ReturnLeader, LeaderInv
<1>8. ASSUME UNCHANGED vars PROVE TypeOK'
  BY <1>8 DEF vars
<1> QED BY <1>1, <1>2, <1>3, <1>4, <1>5, <1>6, <1>7, <1>8 DEF Next, Calls, Progress, Finished

\* The leader's call keeps the invariant,
LEMMA CallLeaderStep ==
  ASSUME Inv, NEW x \in Results, CallLeader(x), TypeOK'
  PROVE  Inv'
<1>1. /\ brought' = [brought EXCEPT ![leader] = Append(@, x)]
      /\ UNCHANGED <<took, up, down>>
      /\ pc[leader] = "idle"
      /\ pc' = [pc EXCEPT ![leader] = IF size = 1 THEN "answering" ELSE "gathering"]
      /\ size = 1 => mres' = x
      /\ size # 1 => eres' = Empty
  BY SizeAssumption DEF CallLeader
<1>2. brought[leader] \in Seq(Results) /\ took[leader] \in Seq(Results)
  BY LeaderIsRank DEF Inv, TypeOK
<1>3. brought'[leader] = Append(brought[leader], x)
  BY <1>1, LeaderIsRank DEF Inv, TypeOK
<1>4. /\ Len(brought'[leader]) = Len(took[leader]) + 1
      /\ brought'[leader][Len(took[leader]) + 1] = x
      /\ Len(took[leader]) \in Nat
  BY <1>1, <1>2, <1>3, AppendFacts DEF Inv, LeaderInv
<1>5. pc'[leader] = IF size = 1 THEN "answering" ELSE "gathering"
  BY <1>1, LeaderIsRank DEF Inv, TypeOK
<1>6. RoundsStay
  BY <1>1, LeaderIsRank, LargestStable DEF RoundsStay, Inv, TypeOK
<1>7. CASE size = 1
  <2>1. Others = {} /\ Ranks = {leader}
    BY <1>7 DEF Others, Ranks, leader
  <2>2. answered' = Len(took[leader]) + 1
    BY <1>1, <1>5, <1>7 DEF answered
  <2>3. x \in Int
    BY ResultsAssumption
  <2>4. Abstract!Largest(mres, answered)'
    BY <1>1, <1>4, <1>7, <2>1, <2>2, <2>3 DEF Abstract!Largest
  <2>5. LeaderInv'
    BY <1>1, <1>4, <1>5, <1>7, <2>4 DEF LeaderInv
  <2> QED BY <2>1, <2>5 DEF Inv
<1>8. CASE size # 1
  <2>1. answered' = answered
    <3>1. took' = took /\ pc'[leader] # "answering" /\ pc[leader] # "answering"
      BY <1>1, <1>5, <1>8
    <3> QED BY <3>1 DEF answered
  <2>2. LeaderInv'
    BY <1>1, <1>4, <1>5, <1>8, SizeAssumption DEF LeaderInv
  <2>3. ASSUME NEW s \in Others PROVE Placed(s)'
    <3>1. /\ s # leader /\ s \in Ranks
          /\ brought'[s] = brought[s] /\ pc'[s] = pc[s]
      BY <1>1, LeaderIsRank DEF Inv, TypeOK
    <3>2. Gathered(s)' = Gathered(s)
      BY <1>1, <1>5, <1>8, <3>1 DEF Gathered, Empty
    <3> QED BY <1>1, <1>6, <2>1, <3>1, <3>2, PlacedStays
  <2> QED BY <2>2, <2>3 DEF Inv, Placed
<1> QED BY <1>7, <1>8

\* the call of another rank does,
LEMMA CallStep ==
  ASSUME Inv, NEW r \in Others, NEW x \in Results, Call(r, x), TypeOK'
  PROVE  Inv'
<1>r. r \in Ranks /\ r # leader
  BY LeaderIsRank
<1>1. /\ brought' = [brought EXCEPT ![r] = Append(@, x)]
      /\ up' = [up EXCEPT ![r] = Append(@, x)]
      /\ pc' = [pc EXCEPT ![r] = "sending"]
      /\ pc[r] = "idle" /\ UNCHANGED <<took, down, eres, mres>>
  BY DEF Call
<1>2. RoundsStay
  BY <1>1, <1>r, LargestStable DEF RoundsStay, Inv, TypeOK
<1>3. /\ brought'[leader] = brought[leader] /\ pc'[leader] = pc[leader]
      /\ answered' = answered /\ answered \in Nat
  BY <1>1, <1>r, LeaderIsRank DEF Inv, TypeOK, answered
<1>4. LeaderInv'
  <2>1. ASSUME pc'[leader] = "answering" PROVE Abstract!Largest(mres, answered)'
    <3>1. Abstract!Largest(mres, answered) /\ answered \in Nat \ {0}
      BY <1>3, <2>1, LeaderIsRank DEF Inv, TypeOK, LeaderInv, answered
    <3> QED BY <1>1, <1>2, <1>3, <3>1 DEF RoundsStay, Abstract!Largest
  <2> QED BY <1>1, <1>3, <2>1 DEF Inv, LeaderInv
<1>5. ASSUME NEW s \in Others, s # r PROVE Placed(s)'
  <2>1. /\ s \in Ranks /\ brought'[s] = brought[s] /\ pc'[s] = pc[s] /\ up'[s] = up[s]
    BY <1>1, <1>5, LeaderIsRank DEF Inv, TypeOK
  <2>2. Gathered(s)' = Gathered(s)
    BY <1>1, <1>3 DEF Gathered
  <2> QED BY <1>1, <1>2, <1>3, <2>1, <2>2, PlacedStays
<1>6. Asking(r)'
  <2>1. Outside(r)
    BY <1>1 DEF Inv, Asking, Answered
  <2>2. /\ brought'[r] = Append(brought[r], x) /\ up'[r] = Append(up[r], x)
        /\ pc'[r] = "sending"
    BY <1>1, <1>r DEF Inv, TypeOK
  <2>3. brought[r] \in Seq(Results) /\ Len(brought[r]) = answered
    BY <1>r, <2>1 DEF Inv, TypeOK, Outside
  <2>4. Len(brought'[r]) = answered + 1 /\ brought'[r][answered + 1] = x
    BY <2>2, <2>3, AppendFacts
  <2>5. up'[r] = <<x>>
    BY <2>1, <2>2 DEF Outside
  <2>6. Gathered(r)' = << >>
    BY <1>1, <1>3, <2>1 DEF Outside, Gathered
  <2> QED BY <1>1, <1>3, <2>1, <2>2, <2>4, <2>5, <2>6 DEF Asking, Outside
<1> QED BY <1>4, <1>5, <1>6 DEF Inv, Placed

\* the end of its send does,
LEMMA SendEndsStep ==
  ASSUME Inv, NEW r \in Others, SendEnds(r), TypeOK'
  PROVE  Inv'
<1>1. /\ pc[r] = "sending" /\ pc' = [pc EXCEPT ![r] = "receiving"]
      /\ UNCHANGED <<brought, took, up, down, eres, mres>>
  BY DEF SendEnds
<1>2. \A s \in Ranks : pc'[s] = IF s = r THEN "receiving" ELSE pc[s]
  BY <1>1 DEF Inv, TypeOK
<1>3. pc'[leader] = pc[leader] /\ answered' = answered
  BY <1>1, <1>2, LeaderIsRank DEF answered
<1>4. LeaderInv'
  BY <1>1, <1>3 DEF Inv, LeaderInv, Abstract!Largest
<1>5. ASSUME NEW s \in Others, s # r PROVE Placed(s)'
  <2>1. pc'[s] = pc[s] /\ Gathered(s)' = Gathered(s)
    BY <1>1, <1>2, <1>3, <1>5, LeaderIsRank DEF Gathered
  <2> QED BY <1>1, <1>3, <2>1, UnchangedRounds, PlacedStays
<1>6. Placed(r)'
  <2>1. pc'[r] = "receiving" /\ Gathered(r)' = Gathered(r)
    BY <1>1, <1>2, <1>3, LeaderIsRank DEF Gathered
  <2>2. Asking(r) => Asking(r)'
    BY <1>1, <1>3, <2>1 DEF Asking
  <2>3. Answered(r) => Answered(r)'
    BY <1>1, <1>3, <2>1 DEF Answered, Abstract!Largest
  <2> QED BY <1>1, <2>2, <2>3 DEF Inv, Placed, Outside
<1> QED BY <1>4, <1>5, <1>6 DEF Inv, Placed

\* the leader's receive does,
LEMMA GatherStep ==
  ASSUME Inv, NEW r \in Others, Gather(r), TypeOK'
  PROVE  Inv'
<1>1. /\ pc[leader] = "gathering" /\ eres[r] = << >> /\ up[r] # << >>
      /\ eres' = [eres EXCEPT ![r] = <<Head(up[r])>>]
      /\ up' = [up EXCEPT ![r] = Tail(@)]
      /\ UNCHANGED <<brought, took, pc, down, mres>>
  BY DEF Gather
<1>2. answered' = answered
  BY <1>1 DEF answered
<1>3. LeaderInv'
  BY <1>1 DEF Inv, LeaderInv
<1>4. ASSUME NEW s \in Others, s # r PROVE Placed(s)'
  <2>1. up'[s] = up[s] /\ Gathered(s)' = Gathered(s)
    BY <1>1, <1>4, LeaderIsRank DEF Gathered, Inv, TypeOK
  <2> QED BY <1>1, <1>2, <2>1, UnchangedRounds, PlacedStays
<1>5. Asking(r)'
  <2>1. Asking(r) /\ up[r] = <<brought[r][answered + 1]>>
    BY <1>1 DEF Inv, Outside, Asking, Answered
  <2>2. up'[r] = Tail(up[r]) /\ eres'[r] = <<Head(up[r])>>
    BY <1>1, LeaderIsRank DEF Inv, TypeOK
  <2>3. up'[r] = << >> /\ Gathered(r)' = <<brought[r][answered + 1]>>
    BY <1>1, <2>1, <2>2 DEF Gathered
  <2> QED BY <1>1, <1>2, <2>1, <2>3 DEF Asking
<1> QED BY <1>3, <1>4, <1>5 DEF Inv, Placed

\* the return of another rank does, and what it returns is the largest result
\* of its round;
LEMMA ReturnStep ==
  ASSUME Inv, NEW r \in Others, Return(r), TypeOK'
  PROVE  /\ Inv'
         /\ Len(took[r]) < Len(brought[r])
         /\ Head(down[r]) \in Results
         /\ Abstract!Largest(Head(down[r]), Len(took[r]) + 1)
<1>r. r \in Ranks /\ r # leader
  BY LeaderIsRank
<1>1. /\ pc[r] = "receiving" /\ down[r] # << >>
      /\ took' = [took EXCEPT ![r] = Append(@, Head(down[r]))]
      /\ down' = [down EXCEPT ![r] = Tail(@)]
      /\ pc' = [pc EXCEPT ![r] = "idle"]
      /\ UNCHANGED <<brought, up, eres, mres>>
  BY DEF Return
<1>2. Answered(r)
  BY <1>1 DEF Inv, Outside, Asking
<1>3. PICK m \in Results : down[r] = <<m>> /\ Abstract!Largest(m, answered)
  BY <1>2 DEF Answered
<1>4. /\ took[r] \in Seq(Results) /\ Len(took[r]) \in Nat
      /\ Len(took[leader]) \in Nat /\ answered \in Nat
  BY <1>r, LeaderIsRank DEF Inv, TypeOK, answered
<1>5. Len(took[r]) + 1 = answered /\ Len(brought[r]) = answered
  BY <1>2, <1>4 DEF Answered
<1>6. pc'[leader] = pc[leader] /\ answered' = answered /\ took'[leader] = took[leader]
  BY <1>1, <1>r, LeaderIsRank DEF Inv, TypeOK, answered
<1>7. LeaderInv'
  BY <1>1, <1>6 DEF Inv, LeaderInv, Abstract!Largest
<1>8. ASSUME NEW s \in Others, s # r PROVE Placed(s)'
  <2>1. /\ took'[s] = took[s] /\ down'[s] = down[s] /\ pc'[s] = pc[s]
        /\ Gathered(s)' = Gathered(s)
    BY <1>1, <1>6, <1>8, LeaderIsRank DEF Gathered, Inv, TypeOK
  <2> QED BY <1>1, <1>6, <2>1, UnchangedRounds, PlacedStays
<1>9. Outside(r)'
  <2>1. /\ took'[r] = Append(took[r], m) /\ down'[r] = << >> /\ pc'[r] = "idle"
    BY <1>1, <1>3, <1>r DEF Inv, TypeOK
  <2>2. Len(took'[r]) = answered
    BY <1>4, <1>5, <2>1, AppendFacts
  <2>3. Gathered(r)' = << >>
    BY <1>1, <1>2, <1>6 DEF Gathered, Answered
  <2> QED BY <1>1, <1>2, <1>5, <1>6, <2>1, <2>2, <2>3 DEF Outside, Answered
<1>10. Inv'
  BY <1>7, <1>8, <1>9 DEF Inv, Placed
<1> QED BY <1>3, <1>4, <1>5, <1>10

\* the leader's broadcast does,
LEMMA AnswerStep ==
  ASSUME Inv, NEW m \in Results, Answer(m), TypeOK'
  PROVE  Inv'
<1>1. /\ pc[leader] = "gathering" /\ \A r \in Others : eres[r] # << >>
      /\ IsMaximum(m) /\ mres' = m
      /\ down' = [r \in Ranks |-> IF r = leader THEN << >> ELSE Append(down[r], m)]
      /\ pc' = [pc EXCEPT ![leader] = "answering"]
      /\ UNCHANGED <<brought, took, up, eres>>
  BY DEF Answer
<1>2. Abstract!Largest(m, answered + 1) /\ \A r \in Others : Asking(r) /\ up[r] = << >>
  BY <1>1, MaximumIsLargest
<1>3. pc'[leader] = "answering" /\ \A r \in Others : pc'[r] = pc[r]
  BY <1>1, LeaderIsRank DEF Inv, TypeOK
<1>4. answered \in Nat /\ answered' = answered + 1 /\ answered = Len(took[leader])
  BY <1>1, <1>3, LeaderIsRank DEF Inv, TypeOK, answered
<1>5. LeaderInv'
  BY <1>1, <1>2, <1>3, <1>4, LeaderIsRank DEF Inv, LeaderInv, Abstract!Largest
<1>6. ASSUME NEW s \in Others PROVE Answered(s)'
  <2>1. Asking(s) /\ up'[s] = << >>
    BY <1>1, <1>2
  <2>2. down'[s] = <<m>>
    <3>1. down'[s] = Append(down[s], m)
      BY <1>1, LeaderIsRank
    <3>2. down[s] = << >>
      BY <2>1 DEF Asking
    <3> QED BY <3>1, <3>2
  <2>3. Gathered(s)' = << >>
    BY <1>3 DEF Gathered
  <2>4. /\ pc'[s] \in {"sending", "receiving"}
        /\ Len(brought'[s]) = answered' /\ Len(took'[s]) = answered' - 1
    BY <1>1, <1>3, <1>4, <2>1 DEF Asking
  <2>5. \E n \in Results : down'[s] = <<n>> /\ Abstract!Largest(n, answered)'
    BY <1>1, <1>2, <1>4, <2>2 DEF Abstract!Largest
  <2> QED BY <2>1, <2>3, <2>4, <2>5 DEF Answered
<1> QED BY <1>5, <1>6 DEF Inv

\* and the leader's return does, with the largest result of its round.
LEMMA ReturnLeaderStep ==
  ASSUME Inv, ReturnLeader, TypeOK'
  PROVE  /\ Inv'
         /\ Len(took[leader]) < Len(brought[leader])
         /\ mres \in Results
         /\ Abstract!Largest(mres, Len(took[leader]) + 1)
<1>1. /\ pc[leader] = "answering"
      /\ took' = [took EXCEPT ![leader] = Append(@, mres)]
      /\ pc' = [pc EXCEPT ![leader] = "idle"]
      /\ UNCHANGED <<brought, up, down, eres, mres>>
  BY DEF ReturnLeader
<1>2. /\ took[leader] \in Seq(Results) /\ Len(took[leader]) \in Nat
      /\ mres \in Results /\ Len(brought[leader]) = Len(took[leader]) + 1
      /\ answered = Len(took[leader]) + 1
      /\ Abstract!Largest(mres, answered)
  BY <1>1, LeaderIsRank DEF Inv, TypeOK, LeaderInv, answered
<1>3. pc'[leader] = "idle" /\ took'[leader] = Append(took[leader], mres)
  BY <1>1, LeaderIsRank DEF Inv, TypeOK
<1>4. Len(took'[leader]) = Len(took[leader]) + 1
  BY <1>2, <1>3, AppendFacts
<1>5. answered' = answered
  <2>1. answered' = Len(took'[leader])
    BY <1>2, <1>3, <1>4 DEF answered
  <2> QED BY <1>2, <1>4, <2>1
<1>6. LeaderInv'
  BY <1>1, <1>2, <1>3, <1>4 DEF LeaderInv
<1>7. ASSUME NEW s \in Others PROVE Placed(s)'
  <2>1. took'[s] = took[s] /\ pc'[s] = pc[s]
    BY <1>1, LeaderIsRank DEF Inv, TypeOK
  <2>2. Gathered(s)' = Gathered(s)
    BY <1>1, <1>3 DEF Gathered
  <2> QED BY <1>1, <1>5, <2>1, <2>2, UnchangedRounds, PlacedStays
<1>8. Inv'
  BY <1>6, <1>7 DEF Inv, Placed
<1> QED BY <1>2, <1>8

\* A step that changes nothing keeps the invariant.
LEMMA StutterStep == ASSUME Inv, UNCHANGED vars PROVE Inv'
<1>1. /\ UNCHANGED <<brought, took, pc, up, down, eres, mres>>
      /\ answered' = answered /\ \A s \in Others : Gathered(s)' = Gathered(s)
  BY DEF vars, answered, Gathered
<1>2. TypeOK' /\ LeaderInv'
  BY <1>1 DEF Inv, TypeOK, LeaderInv, Abstract!Largest
<1>3. ASSUME NEW s \in Others PROVE Placed(s)'
  BY <1>1, UnchangedRounds, PlacedStays
<1> QED BY <1>2, <1>3 DEF Inv, Placed

\* Before the first call the invariant holds.
LEMMA InitInv == Init => Inv
<1> SUFFICES ASSUME Init PROVE Inv
  OBVIOUS
<1> USE DEF Init, Empty
<1>1. TypeOK
  BY ResultsAssumption DEF TypeOK
<1>2. pc[leader] = "idle" /\ answered = 0
  BY LeaderIsRank DEF answered
<1>3. LeaderInv
  BY <1>2, LeaderIsRank DEF LeaderInv
<1>4. ASSUME NEW s \in Others PROVE Outside(s)
  <2>1. Gathered(s) = << >>
    BY LeaderIsRank DEF Gathered
  <2> QED BY <1>2, <2>1, LeaderIsRank DEF Outside
<1> QED BY <1>1, <1>3, <1>4 DEF Inv

\* Every step keeps the invariant.
LEMMA StepInv == Inv /\ [Next]_vars => Inv'
<1> SUFFICES ASSUME Inv, [Next]_vars PROVE Inv'
  OBVIOUS
<1>1. ASSUME Next PROVE Inv'
  <2>1. TypeOK'
    BY <1>1, TypeStep
  <2> QED BY <1>1, <2>1, CallLeaderStep, CallStep, SendEndsStep, GatherStep, ReturnStep,
             AnswerStep, ReturnLeaderStep, StutterStep
          DEF Next, Calls, Progress, Finished
<1> QED BY <1>1, StutterStep

-----------------------------------------------------------------------------
(* The theorems                                                            *)

\* The protocol's state is well formed in every reachable state, whatever the
\* number of processes.
THEOREM InvHolds == Spec => []Inv
  BY InitInv, StepInv, PTL DEF Spec

\* However many processes there are and however often they call, at most one
\* message is under way between any of them and the leader.
THEOREM OneInFlightHolds == Spec => []OneInFlight
<1>1. Inv => OneInFlight
  <2> SUFFICES ASSUME Inv, NEW r \in Others PROVE Len(up[r]) + Len(down[r]) <= 1
    BY DEF OneInFlight
  <2>1. Outside(r) \/ Asking(r) \/ Answered(r)
    BY DEF Inv
  <2>2. Outside(r) => Len(up[r]) = 0 /\ Len(down[r]) = 0
    BY DEF Outside
  <2>3. Asking(r) => (Len(up[r]) = 0 \/ Len(up[r]) = 1) /\ Len(down[r]) = 0
    BY DEF Asking
  <2>4. Answered(r) => Len(up[r]) = 0 /\ Len(down[r]) = 1
    <3>1. ASSUME NEW m \in Results, down[r] = <<m>> PROVE Len(down[r]) = 1
      BY <3>1
    <3> QED BY <3>1 DEF Answered
  <2>5. \/ (Len(up[r]) = 0 \/ Len(up[r]) = 1) /\ Len(down[r]) = 0
        \/ Len(up[r]) = 0 /\ Len(down[r]) = 1
    BY <2>1, <2>2, <2>3, <2>4
  <2>6. PICK i \in 0 .. 1, j \in 0 .. 1 : Len(up[r]) = i /\ Len(down[r]) = j /\ i + j <= 1
    BY <2>5
  <2> QED BY <2>6
<1> QED BY <1>1, InvHolds, PTL

\* checkResult implements Agreement: every call of every rank returns the largest
\* result that any rank brought to that call.
THEOREM AgreesHolds == Spec => AgreesOnMaximum
<1>1. Init => Abstract!Init
  BY DEF Init, Empty, Abstract!Init
<1>2. Inv /\ [Next]_vars => [Abstract!Next]_(Abstract!vars)
  <2> SUFFICES ASSUME Inv, [Next]_vars
               PROVE  Abstract!Next \/ UNCHANGED <<brought, took>>
    BY DEF Abstract!vars
  <2>t. ASSUME Next PROVE TypeOK'
    BY <2>t, TypeStep
  <2>1. ASSUME NEW x \in Results, CallLeader(x) PROVE Abstract!Next
    <3>1. Len(brought[leader]) = Len(took[leader])
      BY <2>1 DEF CallLeader, Inv, LeaderInv
    <3>2. Abstract!Bring(leader, x)
      BY <2>1, <3>1 DEF CallLeader, Abstract!Bring
    <3> QED BY <3>2, LeaderIsRank DEF Abstract!Next
  <2>2. ASSUME NEW r \in Others, NEW x \in Results, Call(r, x) PROVE Abstract!Next
    <3>1. Outside(r)
      BY <2>2 DEF Call, Inv, Asking, Answered
    <3>2. Abstract!Bring(r, x)
      BY <2>2, <3>1 DEF Call, Outside, Abstract!Bring
    <3> QED BY <3>2, LeaderIsRank DEF Abstract!Next
  <2>3. ASSUME NEW r \in Others, Return(r) PROVE Abstract!Next
    <3>1. Next
      BY <2>3 DEF Next, Progress
    <3>2. Abstract!Take(r, Head(down[r])) /\ Head(down[r]) \in Results
      BY <2>3, <2>t, <3>1, ReturnStep DEF Return, Abstract!Take
    <3> QED BY <3>2, LeaderIsRank DEF Abstract!Next
  <2>4. ASSUME ReturnLeader PROVE Abstract!Next
    <3>1. Next
      BY <2>4 DEF Next, Progress
    <3>2. Abstract!Take(leader, mres) /\ mres \in Results
      BY <2>4, <2>t, <3>1, ReturnLeaderStep DEF ReturnLeader, Abstract!Take
    <3> QED BY <3>2, LeaderIsRank DEF Abstract!Next
  <2>5. ASSUME NEW r \in Others, SendEnds(r) \/ Gather(r) PROVE UNCHANGED <<brought, took>>
    BY <2>5 DEF SendEnds, Gather
  <2>6. ASSUME NEW m \in Results, Answer(m) PROVE UNCHANGED <<brought, took>>
    BY <2>6 DEF Answer
  <2>7. ASSUME UNCHANGED vars PROVE UNCHANGED <<brought, took>>
    BY <2>7 DEF vars
  <2> QED BY <2>1, <2>2, <2>3, <2>4, <2>5, <2>6, <2>7 DEF Next, Calls, Progress, Finished
<1> QED BY <1>1, <1>2, InvHolds, PTL DEF Spec, AgreesOnMaximum, Abstract!Spec
=============================================================================
