----------------------------- MODULE CheckResult -----------------------------
(***************************************************************************)
(* checkResult of EsysMPI, message by message.  It replaces MPI_Allreduce  *)
(* for the communicator that all subworlds share: every rank sends its     *)
(* result to the leader, which sends the largest one back.                 *)
(* The callers call it again and again, with one tag.                      *)
(***************************************************************************)
EXTENDS Integers, Sequences

CONSTANTS
  size,       \* number of processes in the communicator
  Results,    \* results a caller may bring
  MaxRounds   \* bound: calls of checkResult

ASSUME SizeAssumption == size \in Nat \ {0}
ASSUME ResultsAssumption == Results \subseteq Int

Ranks == 0 .. size - 1
leader == 0
Others == Ranks \ {leader}

VARIABLES
  brought,  \* brought[r]: res of each call of rank r so far
  took,     \* took[r]: mres of each call of rank r that has returned
  pc,       \* where each rank is in checkResult
  up,       \* up[r]: messages on their way from rank r to the leader
  down,     \* down[r]: messages on their way from the leader to rank r
  eres,     \* eres[r]: what the leader's receive from r has got, as a sequence
  mres      \* the largest result the leader has found

vars == <<brought, took, pc, up, down, eres, mres>>

Empty == [r \in Ranks |-> << >>]

Init ==
  /\ brought = Empty
  /\ took = Empty
  /\ pc = [r \in Ranks |-> "idle"]
  /\ up = Empty
  /\ down = Empty
  /\ eres = Empty
  /\ mres = 0

\* Fault: the receive buffers of the last call are used again.
CallLeaderStale(x) ==
  /\ pc[leader] = "idle" /\ Len(brought[leader]) < MaxRounds
  /\ brought' = [brought EXCEPT ![leader] = Append(@, x)]
  /\ pc' = [pc EXCEPT ![leader] = IF size = 1 THEN "answering" ELSE "gathering"]
  /\ mres' = IF size = 1 THEN x ELSE mres
  /\ UNCHANGED <<took, up, down, eres>>

\* The leader posts its receives; a single process keeps its own result.
CallLeader(x) ==
  /\ pc[leader] = "idle" /\ Len(brought[leader]) < MaxRounds
  /\ brought' = [brought EXCEPT ![leader] = Append(@, x)]
  /\ pc' = [pc EXCEPT ![leader] = IF size = 1 THEN "answering" ELSE "gathering"]
  /\ mres' = IF size = 1 THEN x ELSE mres
  /\ eres' = Empty
  /\ UNCHANGED <<took, up, down>>

\* Any other rank calls MPI_Send.
Call(r, x) ==
  /\ pc[r] = "idle" /\ Len(brought[r]) < MaxRounds
  /\ brought' = [brought EXCEPT ![r] = Append(@, x)]
  /\ up' = [up EXCEPT ![r] = Append(@, x)]
  /\ pc' = [pc EXCEPT ![r] = "sending"]
  /\ UNCHANGED <<took, down, eres, mres>>

\* Fault: the rank doesn't wait for the answer.
SendReturns(r) ==
  /\ pc[r] = "sending"
  /\ pc' = [pc EXCEPT ![r] = "idle"]
  /\ UNCHANGED <<brought, took, up, down, eres, mres>>

\* MPI_Send returns, received or only buffered, and the rank goes on to MPI_Recv.
SendEnds(r) ==
  /\ pc[r] = "sending"
  /\ pc' = [pc EXCEPT ![r] = "receiving"]
  /\ UNCHANGED <<brought, took, up, down, eres, mres>>

\* A message meets the leader's receive for its sender.
Gather(r) ==
  /\ pc[leader] = "gathering" /\ eres[r] = << >> /\ up[r] # << >>
  /\ eres' = [eres EXCEPT ![r] = <<Head(up[r])>>]
  /\ up' = [up EXCEPT ![r] = Tail(@)]
  /\ UNCHANGED <<brought, took, pc, down, mres>>

\* Fault: the loop starts from the first result received.
MaximumOfOthers(m) ==
  (\A r \in Others : eres[r][1] <= m) /\ \E r \in Others : eres[r][1] = m

\* m is the maximum that the leader's loop over eres finds.
IsMaximum(m) ==
  LET own == brought[leader][Len(brought[leader])]
  IN  /\ own <= m /\ \A r \in Others : eres[r][1] <= m
      /\ m = own \/ \E r \in Others : eres[r][1] = m

\* Fault: the loop over the other ranks ends one too early.
AnswerAllButLast(m) ==
  /\ pc[leader] = "gathering" /\ \A r \in Others : eres[r] # << >>
  /\ IsMaximum(m)
  /\ mres' = m
  /\ down' = [r \in Ranks |-> IF r \in {leader, size - 1} THEN << >> ELSE Append(down[r], m)]
  /\ pc' = [pc EXCEPT ![leader] = "answering"]
  /\ UNCHANGED <<brought, took, up, eres>>

\* The first MPI_Waitall returns; the leader takes the maximum and sends it out.
Answer(m) ==
  /\ pc[leader] = "gathering" /\ \A r \in Others : eres[r] # << >>
  /\ IsMaximum(m)
  /\ mres' = m
  /\ down' = [r \in Ranks |-> IF r = leader THEN << >> ELSE Append(down[r], m)]
  /\ pc' = [pc EXCEPT ![leader] = "answering"]
  /\ UNCHANGED <<brought, took, up, eres>>

\* The second MPI_Waitall returns (its messages received or only buffered), and so
\* does the leader's call; a single process has nothing to wait for.
ReturnLeader ==
  /\ pc[leader] = "answering"
  /\ took' = [took EXCEPT ![leader] = Append(@, mres)]
  /\ pc' = [pc EXCEPT ![leader] = "idle"]
  /\ UNCHANGED <<brought, up, down, eres, mres>>

\* MPI_Recv gets the leader's message, and the call returns.
Return(r) ==
  /\ pc[r] = "receiving" /\ down[r] # << >>
  /\ took' = [took EXCEPT ![r] = Append(@, Head(down[r]))]
  /\ down' = [down EXCEPT ![r] = Tail(@)]
  /\ pc' = [pc EXCEPT ![r] = "idle"]
  /\ UNCHANGED <<brought, up, eres, mres>>

Calls ==
  \/ \E x \in Results : CallLeader(x)
  \/ \E r \in Others, x \in Results : Call(r, x)

\* A step of MPI or of a rank inside checkResult.
Progress ==
  \/ \E r \in Others : SendEnds(r) \/ Gather(r) \/ Return(r)
  \/ \E m \in Results : Answer(m)
  \/ ReturnLeader

\* Every rank has made its last call.
Finished ==
  /\ \A r \in Ranks : Len(took[r]) = MaxRounds
  /\ UNCHANGED vars

Next == Calls \/ Progress \/ Finished

Spec == Init /\ [][Next]_vars

\* The steps that come about even if MPI buffers nothing: a send ends when its
\* message is received.
Synchronous ==
  \/ \E r \in Others : (up[r] = << >> /\ SendEnds(r)) \/ Gather(r) \/ Return(r)
  \/ \E m \in Results : Answer(m)
  \/ down = Empty /\ ReturnLeader

\* A rank inside checkResult runs on, and MPI delivers what was sent, but nothing
\* relies on a buffer.
FairSpec == Spec /\ WF_vars(Synchronous)

-----------------------------------------------------------------------------
(* Properties                                                              *)

TypeOK ==
  /\ brought \in [Ranks -> Seq(Results)]
  /\ took \in [Ranks -> Seq(Results)]
  /\ pc \in [Ranks -> {"idle", "sending", "receiving", "gathering", "answering"}]
  /\ up \in [Ranks -> Seq(Results)]
  /\ down \in [Ranks -> Seq(Results)]
  /\ eres \in [Ranks -> Seq(Results)]
  /\ mres \in Int

\* One tag is enough: although a fast rank may start its next call while a slow
\* one is still in the last, no two messages are ever on their way between the
\* same two ranks.
OneInFlight == \A r \in Others : Len(up[r]) + Len(down[r]) <= 1

Abstract == INSTANCE Agreement

\* Every call returns the largest result brought to the same call by any rank.
AgreesOnMaximum == Abstract!Spec

\* If every rank makes its k-th call, every rank's k-th call returns.
CallsReturn ==
  \A k \in 1 .. MaxRounds :
    (\A r \in Ranks : Len(brought[r]) >= k) ~> (\A r \in Ranks : Len(took[r]) >= k)

-----------------------------------------------------------------------------
(* The inductive invariant behind AgreesOnMaximum                          *)

\* The number of rounds the leader has answered.
answered == Len(took[leader]) + (IF pc[leader] = "answering" THEN 1 ELSE 0)

\* What the leader's receive from r holds in the round being gathered.
Gathered(r) == IF pc[leader] = "gathering" THEN eres[r] ELSE << >>

\* r is outside checkResult, and has left every answered round.
Outside(r) ==
  /\ pc[r] = "idle"
  /\ Len(brought[r]) = answered /\ Len(took[r]) = answered
  /\ up[r] = << >> /\ down[r] = << >> /\ Gathered(r) = << >>

\* r has come to the next round: its result is on its way, or the leader has it.
Asking(r) ==
  /\ pc[r] \in {"sending", "receiving"}
  /\ Len(brought[r]) = answered + 1 /\ Len(took[r]) = answered
  /\ down[r] = << >>
  /\ \/ up[r] = <<brought[r][answered + 1]>> /\ Gathered(r) = << >>
     \/ up[r] = << >> /\ Gathered(r) = <<brought[r][answered + 1]>>

\* The answer of the last round is on its way to r.
Answered(r) ==
  /\ pc[r] \in {"sending", "receiving"}
  /\ Len(brought[r]) = answered /\ Len(took[r]) = answered - 1
  /\ up[r] = << >> /\ Gathered(r) = << >>
  /\ \E m \in Results : down[r] = <<m>> /\ Abstract!Largest(m, answered)

LeaderInv ==
  /\ pc[leader] \in {"idle", "gathering", "answering"}
  /\ pc[leader] = "idle" => Len(brought[leader]) = Len(took[leader])
  /\ pc[leader] # "idle" => Len(brought[leader]) = Len(took[leader]) + 1
  /\ pc[leader] = "gathering" => size > 1
  /\ pc[leader] = "answering" => mres \in Results /\ Abstract!Largest(mres, answered)

\* The invariant: it is checked on small instances and proved in CheckResultProofs.
Inv ==
  /\ TypeOK
  /\ LeaderInv
  /\ \A r \in Others : Outside(r) \/ Asking(r) \/ Answered(r)
=============================================================================
