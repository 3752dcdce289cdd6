-------------------------- MODULE DataManagerProofs --------------------------
(***************************************************************************)
(* Proofs about DataManager, for any number of ranks, any frequencies and  *)
(* a program killed and started again at any moment, any number of times.  *)
(***************************************************************************)
EXTENDS DataManagerInvariant, FiniteSetTheorems, FunctionTheorems, SequenceTheorems,
        WellFoundedInduction, TLAPS

-----------------------------------------------------------------------------
(* The directories in the order of their names                             *)

Before == {p \in Nat \X Nat : p[1] < p[2]}

\* A set of numbers has a least one.
LEMMA LeastCycle ==
  ASSUME NEW B \in SUBSET Nat, B # {}
  PROVE  \E n \in B : \A k \in B : n <= k
<1>1. OpToRel(<, Nat) = Before
  BY DEF OpToRel, Before
<1>2. IsWellFoundedOn(Before, Nat)
  BY <1>1, NatLessThanWellFounded
<1>3. PICK n \in B : \A k \in B : ~ (<<k, n>> \in Before)
  BY <1>2, WFMin
<1>4. \A k \in B : k \in Nat /\ n \in Nat /\ ~ (k < n)
  BY <1>3 DEF Before
<1> QED BY <1>4

Increasing(s) == \A i, j \in DOMAIN s : i < j => s[i] < s[j]

Ordered(S, s) == s \in [1 .. Cardinality(S) -> S] /\ Increasing(s)

\* A greater number is put at the end.
LEMMA OrderedWithGreatest ==
  ASSUME NEW S \in SUBSET Nat, IsFiniteSet(S), NEW s, Ordered(S, s),
         NEW m \in Nat, \A n \in S : n < m
  PROVE  \E t : Ordered(S \cup {m}, t)
<1> DEFINE c == Cardinality(S)
           t == [i \in 1 .. c + 1 |-> IF i = c + 1 THEN m ELSE s[i]]
<1>1. c \in Nat /\ Cardinality(S \cup {m}) = c + 1
  BY FS_CardinalityType, FS_AddElement
<1>2. \A i \in 1 .. c : s[i] \in S /\ t[i] = s[i]
  BY <1>1 DEF Ordered
<1>3. t[c + 1] = m
  BY <1>1
<1>4. t \in [1 .. c + 1 -> S \cup {m}]
  BY <1>1 DEF Ordered
<1>5. \A i, j \in 1 .. c + 1 : i < j => t[i] < t[j]
  <2> SUFFICES ASSUME NEW i \in 1 .. c + 1, NEW j \in 1 .. c + 1, i < j PROVE t[i] < t[j]
    OBVIOUS
  <2> HIDE DEF t
  <2>1. i \in 1 .. c
    BY <1>1
  <2>2. CASE j = c + 1
    BY <1>2, <1>3, <2>1, <2>2
  <2>3. CASE j # c + 1
    BY <1>1, <1>2, <2>1, <2>3 DEF Ordered, Increasing
  <2> QED BY <2>2, <2>3
<1> HIDE DEF t
<1>6. Increasing(t)
  BY <1>4, <1>5 DEF Increasing
<1> QED BY <1>1, <1>4, <1>6 DEF Ordered

\* Any set of cycles can be put in order.
LEMMA OrderExists ==
  ASSUME NEW S \in SUBSET Cycles
  PROVE  \E s : Ordered(S, s)
<1> DEFINE Upto(m) == {n \in S : n < m}
           Bad == {m \in Nat : ~ \E s : Ordered(Upto(m), s)}
<1>0. \A n \in S : n \in Nat /\ n < MaxN + 1
  BY BoundsAssumption DEF Cycles
<1>1. \A m : Upto(m) \in SUBSET Nat /\ IsFiniteSet(Upto(m))
  <2>1. IsFiniteSet(Cycles)
    BY BoundsAssumption, FS_Interval DEF Cycles
  <2>2. \A m : Upto(m) \in SUBSET Cycles
    OBVIOUS
  <2>3. \A m : IsFiniteSet(Upto(m))
    <3> HIDE DEF Upto
    <3> QED BY <2>1, <2>2, FS_Subset
  <2> QED BY <1>0, <2>3
<1>2. Bad = {}
  <2> SUFFICES ASSUME Bad # {} PROVE FALSE
    OBVIOUS
  <2>1. PICK m \in Bad : \A k \in Bad : m <= k
    <3>1. Bad \in SUBSET Nat
      OBVIOUS
    <3> HIDE DEF Bad
    <3> QED BY <3>1, LeastCycle
  <2>2. m # 0
    <3>1. Upto(0) = {}
      BY <1>0
    <3>2. Ordered({}, [i \in 1 .. 0 |-> 0])
      BY FS_EmptySet DEF Ordered, Increasing
    <3> QED BY <2>1, <3>1, <3>2
  <2>3. m - 1 \in Nat /\ m - 1 \notin Bad
    BY <2>1, <2>2
  <2>4. PICK s : Ordered(Upto(m - 1), s)
    BY <2>3
  <2>5. CASE m - 1 \in S
    <3>1. Upto(m) = Upto(m - 1) \cup {m - 1}
      <4>1. \A n \in S : n < m <=> n < m - 1 \/ n = m - 1
        BY <1>0, <2>3
      <4> QED BY <2>5, <4>1
    <3>2. \A n \in Upto(m - 1) : n < m - 1
      OBVIOUS
    <3>3. \E t : Ordered(Upto(m), t)
      <4> HIDE DEF Upto
      <4> QED BY <1>1, <2>3, <2>4, <3>1, <3>2, OrderedWithGreatest
    <3> QED BY <2>1, <3>3
  <2>6. CASE m - 1 \notin S
    <3>1. Upto(m) = Upto(m - 1)
      <4>1. \A n \in S : n < m <=> n < m - 1
        BY <1>0, <2>3, <2>6
      <4> QED BY <4>1
    <3> QED BY <2>1, <2>4, <3>1
  <2> QED BY <2>5, <2>6
<1>3. Upto(MaxN + 1) = S /\ MaxN + 1 \in Nat
  BY <1>0, BoundsAssumption
<1>4. \A m \in Nat : \E s : Ordered(Upto(m), s)
  BY <1>2
<1> HIDE DEF Upto, Bad
<1> QED BY <1>3, <1>4

\* All numbers of a set are in its order, each before the greater ones.
LEMMA SortedFacts ==
  ASSUME NEW S \in SUBSET Cycles
  PROVE  /\ Sorted(S) \in Seq(Cycles) /\ Len(Sorted(S)) \in Nat
         /\ DOMAIN Sorted(S) = 1 .. Len(Sorted(S))
         /\ \A i \in 1 .. Len(Sorted(S)) : Sorted(S)[i] \in S
         /\ \A n \in S : \E i \in 1 .. Len(Sorted(S)) : n = Sorted(S)[i]
         /\ \A i, j \in 1 .. Len(Sorted(S)) : i < j => Sorted(S)[i] < Sorted(S)[j]
<1> DEFINE c == Cardinality(S)
           s == Sorted(S)
<1>1. IsFiniteSet(S) /\ c \in Nat
  <2>1. IsFiniteSet(Cycles)
    BY BoundsAssumption, FS_Interval DEF Cycles
  <2> QED BY <2>1, FS_Subset, FS_CardinalityType
<1>2. s \in [1 .. c -> S] /\ \A i, j \in DOMAIN s : i < j => s[i] < s[j]
  <2>1. \E t \in [1 .. c -> S] : \A i, j \in DOMAIN t : i < j => t[i] < t[j]
    BY OrderExists DEF Ordered, Increasing
  <2> QED BY <2>1 DEF Sorted
<1> HIDE DEF s
<1>3. s \in Seq(Cycles) /\ Len(s) = c /\ DOMAIN s = 1 .. c
  BY <1>1, <1>2
<1>4. \A i, j \in 1 .. c : s[i] = s[j] => i = j
  <2> SUFFICES ASSUME NEW i \in 1 .. c, NEW j \in 1 .. c, i # j PROVE s[i] # s[j]
    OBVIOUS
  <2>1. s[i] \in S /\ s[j] \in S /\ \A n \in S : n \in Nat
    BY <1>2 DEF Cycles
  <2>2. i < j \/ j < i
    BY <1>1
  <2>3. s[i] < s[j] \/ s[j] < s[i]
    BY <1>2, <1>3, <2>2
  <2> QED BY <2>1, <2>3
<1>5. \A n \in S : \E i \in 1 .. c : s[i] = n
  <2>1. s \in Injection(1 .. c, S)
    BY <1>2, <1>4, Fun_IsInj
  <2>2. Cardinality(1 .. c) = c
    BY <1>1, FS_Interval
  <2>3. s \in Surjection(1 .. c, S)
    BY <1>1, <2>1, <2>2, FS_Injection
  <2>4. \A n \in S : \E i \in 1 .. c : s[i] = n
    <3> HIDE DEF c
    <3> QED BY <2>3 DEF Surjection
  <2> QED BY <2>4
<1>6. \A i \in 1 .. c : s[i] \in S
  BY <1>2
<1>7. \A i, j \in 1 .. c : i < j => s[i] < s[j]
  BY <1>2, <1>3
<1> QED BY <1>1, <1>3, <1>5, <1>6, <1>7 DEF s

\* The last one is the newest, and those before it are the others.
LEMMA NewestIsLast ==
  ASSUME NEW S \in SUBSET Cycles, Sorted(S) # << >>
  PROVE  /\ Last(Sorted(S)) \in S /\ \A n \in S : n <= Last(Sorted(S))
         /\ Front(Sorted(S)) \in Seq(Cycles)
         /\ \A n \in ToSet(Front(Sorted(S))) : n < Last(Sorted(S))
         /\ S \subseteq ToSet(Front(Sorted(S))) \cup {Last(Sorted(S))}
         /\ ToSet(Front(Sorted(S))) \subseteq S
         /\ \A i, j \in 1 .. Len(Front(Sorted(S))) : i < j => Front(Sorted(S))[i] < Front(Sorted(S))[j]
<1> DEFINE s == Sorted(S)
           c == Len(s)
<1>1. /\ s \in Seq(Cycles) /\ c \in Nat
      /\ \A i \in 1 .. c : s[i] \in S
      /\ \A n \in S : \E i \in 1 .. c : n = s[i]
      /\ \A i, j \in 1 .. c : i < j => s[i] < s[j]
  BY SortedFacts
<1> HIDE DEF s
<1>2. c > 0
  BY <1>1 DEF s
<1>3. Last(s) = s[c] /\ Front(s) = SubSeq(s, 1, c - 1)
  BY DEF Last, Front
<1>4. /\ Front(s) \in Seq(Cycles) /\ DOMAIN Front(s) = 1 .. c - 1 /\ Len(Front(s)) = c - 1
      /\ \A i \in 1 .. c - 1 : Front(s)[i] = s[i]
  <2>1. SubSeq(s, 1, c - 1) \in Seq(Cycles)
    BY <1>1, <1>2
  <2>2. Len(SubSeq(s, 1, c - 1)) = c - 1
    <3>1. \A i \in 1 .. c - 1 : s[i] \in Cycles
      BY <1>1
    <3>2. Len(SubSeq(s, 1, c - 1)) = IF 1 <= c - 1 THEN c - 1 - 1 + 1 ELSE 0
      <4> HIDE DEF c
      <4> QED BY <1>1, <3>1, SubSeqProperties
    <3> DEFINE l == Len(SubSeq(s, 1, c - 1))
    <3> HIDE DEF l, c
    <3>3. l = c - 1
      BY <1>1, <1>2, <3>2 DEF l
    <3> QED BY <3>3 DEF l, c
  <2>3. \A i \in 1 .. c - 1 : SubSeq(s, 1, c - 1)[i] = s[i]
    BY <1>1, <1>2
  <2> QED BY <1>3, <2>1, <2>2, <2>3
<1>5. ToSet(Front(s)) = {s[i] : i \in 1 .. c - 1}
  BY <1>4 DEF ToSet
<1>6. \A n \in S : n \in Nat
  BY DEF Cycles
<1>7. \A n \in S : n <= s[c]
  <2> SUFFICES ASSUME NEW n \in S PROVE n <= s[c]
    OBVIOUS
  <2>1. PICK i \in 1 .. c : n = s[i]
    BY <1>1
  <2>2. i = c \/ i < c
    BY <1>1
  <2>3. s[i] \in Nat /\ s[c] \in Nat
    BY <1>1, <1>2, <1>6
  <2>4. c \in 1 .. c
    BY <1>1, <1>2
  <2> QED BY <1>1, <2>1, <2>2, <2>3, <2>4
<1>8. \A n \in {s[i] : i \in 1 .. c - 1} : n < s[c]
  BY <1>1, <1>2
<1>9. S \subseteq {s[i] : i \in 1 .. c - 1} \cup {s[c]}
  <2> SUFFICES ASSUME NEW n \in S PROVE n = s[c] \/ \E i \in 1 .. c - 1 : n = s[i]
    OBVIOUS
  <2>1. PICK i \in 1 .. c : n = s[i]
    BY <1>1
  <2>2. i = c \/ i \in 1 .. c - 1
    BY <1>1
  <2> QED BY <2>1, <2>2
<1>10. \A i, j \in 1 .. Len(Front(s)) : i < j => Front(s)[i] < Front(s)[j]
  BY <1>1, <1>4
<1>11. {s[i] : i \in 1 .. c - 1} \subseteq S
  BY <1>1
<1> QED BY <1>1, <1>2, <1>3, <1>4, <1>5, <1>7, <1>8, <1>9, <1>10, <1>11 DEF s

\* A sorted list is empty only if there is nothing to sort.
LEMMA NothingSorted ==
  ASSUME NEW S \in SUBSET Cycles
  PROVE  Sorted(S) = << >> <=> S = {}
<1>1. /\ Sorted(S) \in Seq(Cycles)
      /\ \A i \in 1 .. Len(Sorted(S)) : Sorted(S)[i] \in S
      /\ \A n \in S : \E i \in 1 .. Len(Sorted(S)) : n = Sorted(S)[i]
  BY SortedFacts
<1> QED BY <1>1

-----------------------------------------------------------------------------
(* What a step of one rank leaves alone                                    *)

\* The tables with an entry for every rank
Tables ==
  /\ pc \in [Ranks -> Places]
  /\ N \in [Ranks -> Cycles \cup {NoCycle}]
  /\ restartdir \in [Ranks -> Cycles \cup {NoCycle}]
  /\ todo \in [Ranks -> Seq(Cycles)]
  /\ sim \in [Ranks -> 0 .. MaxStarts]
  /\ calls \in [Ranks -> Seq(Kinds)]
  /\ left \in [Ranks -> Nat]

SameFor(b) ==
  /\ pc'[b] = pc[b] /\ N'[b] = N[b] /\ restartdir'[b] = restartdir[b]
  /\ todo'[b] = todo[b] /\ sim'[b] = sim[b]
  /\ calls'[b] = calls[b] /\ left'[b] = left[b]

Moves(r) ==
  /\ \A b \in Ranks : b # r => SameFor(b)
  /\ UNCHANGED <<freq, do_restart, starts, torn>>

\* A step in the middle of a removal changes files only.
Removing(r) == RemovingUnneeded(r) \/ RemovingOld(r)

\* It leaves every rank where it is.
LEMMA RemovingFacts ==
  ASSUME NEW r \in Ranks, Removing(r)
  PROVE  /\ \A b \in Ranks : SameFor(b)
         /\ UNCHANGED <<dirs, pc, N, freq, do_restart, restartdir, todo, sim, calls, left>>
         /\ UNCHANGED <<starts, torn, saved>>
  BY DEF Removing, RemovingUnneeded, RemovingOld, SameFor, history

\* Rank 0 is a rank, and ranks and cycles are numbers.
LEMMA RankFacts ==
  /\ 0 \in Ranks /\ size \in Nat /\ \A r \in Ranks : r \in Nat
  /\ \A n \in Cycles : n \in Nat
  /\ MaxN \in Nat /\ MaxStarts \in Nat
  BY SizeAssumption, BoundsAssumption DEF Ranks, Cycles

\* A call of a rank leaves a typed list of calls.
LEMMA CallsType ==
  ASSUME Types, NEW r \in Ranks, NEW kind \in Kinds, Calls(r, kind)
  PROVE  calls' \in [Ranks -> Seq(Kinds)]
<1>1. Append(calls[r], kind) \in Seq(Kinds)
  BY DEF Types
<1> QED BY <1>1 DEF Calls, Types

\* Listing the directories leaves a rank typed and the others alone,
LEMMA ListTypes ==
  ASSUME Types, NEW r \in Ranks, List(r)
  PROVE  Tables' /\ Moves(r)
<1> DEFINE folders == Sorted(dirs)
<1>1. dirs \in SUBSET Cycles /\ folders \in Seq(Cycles)
  BY SortedFacts DEF Types
<1>2. folders # << >> => Last(folders) \in Cycles /\ Front(folders) \in Seq(Cycles)
  BY <1>1, NewestIsLast
<1> HIDE DEF folders
<1>3. IF do_restart /\ folders # << >>
      THEN /\ restartdir' = [restartdir EXCEPT ![r] = Last(folders)]
           /\ todo' = [todo EXCEPT ![r] = Front(folders)]
      ELSE todo' = [todo EXCEPT ![r] = folders] /\ UNCHANGED restartdir
  BY DEF List, folders
<1>4. /\ restartdir' \in [Ranks -> Cycles \cup {NoCycle}]
      /\ todo' \in [Ranks -> Seq(Cycles)]
      /\ \A b \in Ranks : b # r => restartdir'[b] = restartdir[b] /\ todo'[b] = todo[b]
  BY <1>1, <1>2, <1>3 DEF Types
<1>5. /\ left' = [left EXCEPT ![r] = @ + 1] /\ pc' = [pc EXCEPT ![r] = "clearing"]
      /\ UNCHANGED <<N, sim, calls, freq, do_restart, starts, torn>>
  BY DEF List, Returns, Goes, history
<1> QED BY <1>4, <1>5 DEF Tables, Moves, SameFor, Types, Places

\* loading does too,
LEMMA LoadTypes ==
  ASSUME Types, NEW r \in Ranks, LoadState(r)
  PROVE  Tables' /\ Moves(r)
<1>1. restartdir[r] \in Cycles /\ files[restartdir[r]][r].stamp \in 0 .. MaxStarts
  BY DEF Types, LoadState
<1>2. /\ UNCHANGED <<restartdir, todo, left, freq, do_restart, starts, torn>>
      /\ \/ /\ N' = [N EXCEPT ![r] = restartdir[r]]
            /\ sim' = [sim EXCEPT ![r] = files[restartdir[r]][r].stamp]
            /\ Goes(r, "reading")
         \/ Goes(r, "failed") /\ UNCHANGED <<N, sim>>
      /\ UNCHANGED calls
  BY DEF LoadState, history
<1>3. CASE Goes(r, "failed") /\ UNCHANGED <<N, sim>>
  BY <1>2, <1>3 DEF Goes, Tables, Moves, SameFor, Types, Places
<1>4. CASE /\ N' = [N EXCEPT ![r] = restartdir[r]]
           /\ sim' = [sim EXCEPT ![r] = files[restartdir[r]][r].stamp]
           /\ Goes(r, "reading")
  BY <1>1, <1>2, <1>4 DEF Goes, Tables, Moves, SameFor, Types, Places
<1> QED BY <1>2, <1>3, <1>4

\* and so does every step of a rank.
LEMMA StepTypes ==
  ASSUME Types, NEW r \in Ranks, Rank(r)
  PROVE  Tables' /\ Moves(r)
<1>c. ASSUME NEW kind \in Kinds, Calls(r, kind) PROVE calls' \in [Ranks -> Seq(Kinds)]
  BY <1>c, CallsType
<1>1. CASE List(r)
  BY <1>1, ListTypes
<1>2. CASE RemoveUnneeded(r)
  <2>1. Tail(todo[r]) \in Seq(Cycles)
    BY <1>2 DEF RemoveUnneeded, Types
  <2>2. calls' \in [Ranks -> Seq(Kinds)]
    BY <1>2, <1>c DEF RemoveUnneeded, Kinds
  <2>3. /\ todo' = [todo EXCEPT ![r] = Tail(@)]
        /\ calls' = [calls EXCEPT ![r] = Append(@, "barrier")]
        /\ pc' = [pc EXCEPT ![r] = "cleared"]
        /\ UNCHANGED <<N, restartdir, sim, left, freq, do_restart, starts, torn>>
    BY <1>2 DEF RemoveUnneeded, Calls, Goes, history
  <2> QED BY <2>1, <2>2, <2>3 DEF Tables, Moves, SameFor, Types, Places
<1>3. CASE NextUnneeded(r)
  BY <1>3 DEF NextUnneeded, Returns, Goes, history, Tables, Moves, SameFor, Types, Places
<1>4. CASE LoadState(r)
  BY <1>4, LoadTypes
<1>5. CASE NothingToLoad(r)
  <2>1. calls' \in [Ranks -> Seq(Kinds)]
    BY <1>5, <1>c DEF NothingToLoad, Kinds
  <2> QED BY <1>5, <2>1 DEF NothingToLoad, Calls, Goes, history, Tables, Moves, SameFor, Types,
                            Places
<1>6. CASE Compute(r)
  BY <1>6 DEF Compute, Returns, Goes, history, Tables, Moves, SameFor, Types, Places
<1>n. N[r] < MaxN => N[r] + 1 \in Cycles
  <2>1. N[r] \in Cycles \cup {NoCycle}
    BY DEF Types
  <2> QED BY <2>1, BoundsAssumption DEF Cycles, NoCycle
<1>7. CASE Export(r)
  BY <1>n, <1>7 DEF Export, history, Tables, Moves, SameFor, Types
<1>8. CASE SaveState(r)
  <2>1. calls' \in [Ranks -> Seq(Kinds)]
    BY <1>8, <1>c DEF SaveState, Kinds
  <2> QED BY <1>n, <1>8, <2>1 DEF SaveState, Calls, Goes, history, Tables, Moves, SameFor, Types,
                                  Places
<1>9. CASE WriteStamp(r)
  BY <1>9 DEF WriteStamp, Returns, Goes, history, Tables, Moves, SameFor, Types, Places
<1>10. CASE DumpDomain(r) \/ DumpData(r)
  BY <1>10 DEF DumpDomain, DumpData, Goes, history, Tables, Moves, SameFor, Types, Places
<1>11. CASE RemoveOld(r)
  <2>1. calls' \in [Ranks -> Seq(Kinds)]
    BY <1>11, <1>c DEF RemoveOld, Kinds
  <2> QED BY <1>11, <2>1 DEF RemoveOld, Calls, Goes, history, Tables, Moves, SameFor, Types, Places
<1>12. CASE SaveEnds(r)
  BY <1>12 DEF SaveEnds, Returns, Goes, Tables, Moves, SameFor, Types, Places
<1>13. CASE Removing(r)
  BY <1>13 DEF Removing, RemovingUnneeded, RemovingOld, history, Tables, Moves, SameFor, Types
<1>14. CASE GetValue(r)
  <2>1. calls' \in [Ranks -> Seq(Kinds)]
    BY <1>14, <1>c DEF GetValue, Kinds, Types
  <2> QED BY <1>14, <2>1 DEF GetValue, Calls, Goes, history, Tables, Moves, SameFor, Types, Places
<1> QED
  BY <1>1, <1>2, <1>3, <1>4, <1>5, <1>6, <1>7, <1>8, <1>9, <1>10, <1>11, <1>12, <1>13, <1>14
     DEF Rank, Removing

-----------------------------------------------------------------------------
(* Collective calls                                                        *)

CallsInv ==
  /\ \A r \in Ranks : CallInv(r)
  /\ \A a, b \in Ranks : CallsAgree(a, b)

\* A rank that does nothing keeps to its calls.
LEMMA CallInvStays ==
  ASSUME NEW b, SameFor(b), CallInv(b)
  PROVE  CallInv(b)'
<1>1. pc'[b] = pc[b] /\ calls'[b] = calls[b] /\ left'[b] = left[b]
  BY DEF SameFor
<1>2. Called(b)' = Called(b) /\ (Past(b)' <=> Past(b))
  BY <1>1 DEF Called, Past
<1>3. \A k : Computes(b, k)' = Computes(b, k)
  BY <1>1 DEF Computes
<1>4. Computes(b, Called(b))' = Computes(b, Called(b)) /\ Computes(b, left[b])' = Computes(b, left[b])
  BY <1>1, <1>2 DEF Computes
<1> QED BY <1>1, <1>2, <1>4 DEF CallInv

\* Two ranks that call nothing agree as before.
LEMMA CallsAgreeStays ==
  ASSUME NEW a, NEW b, CallsAgree(a, b),
         calls'[a] = calls[a], calls'[b] = calls[b], left'[a] = left[a]
  PROVE  CallsAgree(a, b)'
  BY DEF CallsAgree, Called

\* A rank comes out of a call that all ranks have come to.
LEMMA Returning ==
  ASSUME Tables, Tables', CallsInv, NEW r \in Ranks, \A b \in Ranks : b # r => SameFor(b),
         Returns(r), calls'[r] = calls[r],
         \/ pc[r] \in {"listing", "cleared"} /\ pc'[r] = "clearing"
         \/ pc[r] \in {"computing", "saving"} /\ pc'[r] = "running"
         \/ pc[r] = "making" /\ pc'[r] = "dumping"
  PROVE  CallsInv'
<1>1. CallInv(r) /\ Called(r) \in Nat /\ left[r] \in Nat
  BY DEF CallsInv, Tables, Called
<1>2. Called(r) = left[r] + 1 /\ calls[r][Called(r)] = KindAt[pc[r]]
  BY <1>1 DEF CallInv, KindAt
<1>3. left'[r] = Called(r) /\ Called(r)' = Called(r)
  BY <1>2 DEF Returns, Tables, Called
<1>4. Computes(r, Called(r))' = Computes(r, Called(r)) /\ Computes(r, left[r])' = Computes(r, Called(r))
  BY <1>3 DEF Computes
<1>5. Past(r)' <=> Past(r)
  BY DEF Past, Active, InSave
<1>6. Past(r)' <=> pc'[r] \in Active
  BY DEF Past, Active, InSave
<1>7. pc'[r] \notin DOMAIN KindAt
  BY DEF KindAt
<1>8. Computes(r, Called(r)) # {} <=> Past(r)
  BY <1>1 DEF CallInv
<1>9. /\ pc'[r] \in {"running", "making"} => calls[r][Called(r)] \in {"compute", "barrier"} \/ ~ Past(r)
      /\ pc'[r] \in {"dumping", "filling", "dumped", "saving"} => calls[r][Called(r)] = "mkDir"
  BY <1>2 DEF KindAt
<1>10. \A j, k \in Computes(r, Called(r)) : j = k
  BY <1>1 DEF CallInv
<1>11. pc'[r] = "running" => Past(r)
  BY DEF Past, Active, InSave
<1>12. pc'[r] # "making"
  OBVIOUS
<1>13. CallInv(r)'
  BY <1>3, <1>4, <1>5, <1>6, <1>7, <1>8, <1>9, <1>10, <1>11, <1>12 DEF CallInv
<1>14. \A b \in Ranks : CallInv(b)'
  BY <1>13, CallInvStays DEF CallsInv
<1>15. \A b \in Ranks : calls'[b] = calls[b]
  BY DEF SameFor
<1>16. ASSUME NEW b \in Ranks PROVE CallsAgree(r, b)'
  <2>1. /\ Called(b) > left[r] /\ calls[b][left[r] + 1] = calls[r][left[r] + 1]
        /\ \A k \in 1 .. left[r] : calls[b][k] = calls[r][k]
        /\ Called(b) \in Nat
    BY DEF Returns, Called, CallsInv, CallsAgree, Tables
  <2>2. Called(b)' = Called(b)
    BY <1>15 DEF Called
  <2>3. left'[r] <= Called(b)
    BY <1>1, <1>2, <1>3, <2>1
  <2>4. \A k \in 1 .. left'[r] : calls[b][k] = calls[r][k]
    BY <1>1, <1>2, <1>3, <2>1
  <2> QED BY <1>15, <2>2, <2>3, <2>4 DEF CallsAgree
<1>17. ASSUME NEW a \in Ranks, NEW b \in Ranks, a # r PROVE CallsAgree(a, b)'
  <2>1. left'[a] = left[a]
    BY <1>17 DEF SameFor
  <2> QED BY <1>15, <2>1, CallsAgreeStays DEF CallsInv
<1> QED BY <1>14, <1>16, <1>17 DEF CallsInv

\* A rank makes a call.
LEMMA Calling ==
  ASSUME Tables, Tables', CallsInv, NEW r \in Ranks, \A b \in Ranks : b # r => SameFor(b),
         NEW kind \in Kinds, Calls(r, kind), left'[r] = left[r],
         \/ pc[r] = "clearing" /\ pc'[r] = "cleared" /\ kind = "barrier"
         \/ pc[r] \in {"clearing", "reading"} /\ pc'[r] = "computing" /\ kind = "compute"
         \/ pc[r] = "running" /\ pc'[r] = "making" /\ kind = "mkDir"
         \/ pc[r] = "dumped" /\ pc'[r] = "saving" /\ kind = "barrier"
  PROVE  CallsInv'
<1>1. CallInv(r) /\ Called(r) \in Nat /\ left[r] \in Nat /\ calls[r] \in Seq(Kinds)
  BY DEF CallsInv, Tables, Called
<1>2. Called(r) = left[r]
  BY <1>1 DEF CallInv, KindAt
<1>3. calls'[r] = Append(calls[r], kind)
  BY DEF Calls, Tables
<1>4. /\ Called(r)' = Called(r) + 1 /\ calls'[r][Called(r) + 1] = kind
      /\ \A k \in 1 .. Called(r) : calls'[r][k] = calls[r][k]
  BY <1>1, <1>3 DEF Called
<1>5. pc'[r] \in DOMAIN KindAt /\ kind = KindAt[pc'[r]]
  BY DEF KindAt
<1>6. Computes(r, left[r])' = Computes(r, Called(r))
  BY <1>1, <1>2, <1>4 DEF Computes
<1>7. Computes(r, Called(r))' =
        Computes(r, Called(r)) \cup (IF kind = "compute" THEN {Called(r) + 1} ELSE {})
  BY <1>1, <1>2, <1>4 DEF Computes
<1>8. /\ Computes(r, Called(r)) # {} <=> Past(r)
      /\ Computes(r, Called(r)) # {} <=> pc[r] \in Active
      /\ \A j, k \in Computes(r, Called(r)) : j = k
  BY <1>1, <1>2 DEF CallInv
<1>9. Computes(r, Called(r))' # {} <=> Past(r)'
  BY <1>7, <1>8 DEF Past, Active, InSave
<1>10. Computes(r, left[r])' # {} <=> pc'[r] \in Active
  BY <1>6, <1>8 DEF Active, InSave
<1>11. \A j, k \in Computes(r, Called(r))' : j = k
  BY <1>7, <1>8 DEF Active, InSave
<1>12. Past(r) => Called(r) \in 1 .. Called(r)
  BY <1>1, <1>8 DEF Computes
<1>13. /\ pc'[r] \in {"running", "making"} => calls'[r][left'[r]] \in {"compute", "barrier"}
       /\ pc'[r] \in {"dumping", "filling", "dumped", "saving"} => calls'[r][left'[r]] = "mkDir"
  <2>1. Past(r) => calls'[r][left'[r]] = calls[r][left[r]]
    BY <1>2, <1>4, <1>12
  <2>2. pc'[r] \in Active => Past(r)
    BY DEF Past, Active, InSave
  <2> QED BY <1>1, <2>1, <2>2 DEF CallInv, Active, InSave
<1>14. CallInv(r)'
  BY <1>2, <1>4, <1>5, <1>9, <1>10, <1>11, <1>13 DEF CallInv
<1>15. \A b \in Ranks : CallInv(b)'
  BY <1>14, CallInvStays DEF CallsInv
<1>16. ASSUME NEW a \in Ranks, NEW b \in Ranks PROVE CallsAgree(a, b)'
  <2>1. left'[a] = left[a] /\ left[a] \in Nat
    BY DEF SameFor, Tables
  <2>2. \A k \in 1 .. left[a] : calls'[a][k] = calls[a][k]
    BY <1>2, <1>4 DEF SameFor
  <2>3. left[a] <= Called(b) /\ \A k \in 1 .. left[a] : calls[b][k] = calls[a][k]
    BY DEF CallsInv, CallsAgree
  <2>4. Called(b)' >= Called(b) /\ Called(b) \in Nat /\ Called(b)' \in Nat
    <3>1. CASE b = r
      BY <1>1, <1>4, <3>1
    <3>2. CASE b # r
      <4>1. Called(b)' = Called(b) /\ Called(b) \in Nat
        BY <3>2 DEF SameFor, Called, Tables
      <4> QED BY <4>1
    <3> QED BY <3>1, <3>2
  <2>5. \A k \in 1 .. left[a] : calls'[b][k] = calls[b][k]
    <3>1. CASE b = r
      <4>1. \A k \in 1 .. left[a] : k \in 1 .. Called(r)
        BY <1>1, <2>1, <2>3, <3>1
      <4> QED BY <1>4, <3>1, <4>1
    <3>2. CASE b # r
      BY <3>2 DEF SameFor
    <3> QED BY <3>1, <3>2
  <2>6. left'[a] <= Called(b)'
    BY <2>1, <2>3, <2>4
  <2> QED BY <2>1, <2>2, <2>3, <2>5, <2>6 DEF CallsAgree
<1> QED BY <1>15, <1>16 DEF CallsInv

\* A rank works on without a call.
LEMMA Quiet ==
  ASSUME Tables, Tables', CallsInv, NEW r \in Ranks, \A b \in Ranks : b # r => SameFor(b),
         calls'[r] = calls[r], left'[r] = left[r],
         \/ pc[r] = "clearing" /\ pc'[r] \in {"reading", "failed"}
         \/ pc[r] = "reading" /\ pc'[r] = "failed"
         \/ pc[r] = "running" /\ pc'[r] = "running"
         \/ pc[r] = "dumping" /\ pc'[r] = "filling"
         \/ pc[r] = "filling" /\ pc'[r] = "dumped"
  PROVE  CallsInv'
<1>1. CallInv(r)
  BY DEF CallsInv
<1>2. /\ Called(r)' = Called(r) /\ Computes(r, Called(r))' = Computes(r, Called(r))
      /\ Computes(r, left[r])' = Computes(r, left[r])
  BY DEF Called, Computes
<1>3. (Past(r)' <=> Past(r)) /\ (pc'[r] \in Active <=> pc[r] \in Active)
  BY DEF Past, Active, InSave
<1>4. pc[r] \notin DOMAIN KindAt /\ pc'[r] \notin DOMAIN KindAt
  BY DEF KindAt
<1>5. CallInv(r)'
  BY <1>1, <1>2, <1>3, <1>4 DEF CallInv
<1>6. \A b \in Ranks : CallInv(b)'
  BY <1>5, CallInvStays DEF CallsInv
<1>7. \A b \in Ranks : calls'[b] = calls[b] /\ left'[b] = left[b]
  BY DEF SameFor
<1>8. \A a, b \in Ranks : CallsAgree(a, b)'
  BY <1>7, CallsAgreeStays DEF CallsInv
<1> QED BY <1>6, <1>8 DEF CallsInv

\* Every step keeps the invariant of the collective calls.
LEMMA CallsStep ==
  ASSUME Types, CallsInv, NEW r \in Ranks, Rank(r)
  PROVE  CallsInv'
<1>t. Tables /\ Tables' /\ \A b \in Ranks : b # r => SameFor(b)
  BY StepTypes DEF Tables, Types, Moves
<1>1. CASE List(r) \/ NextUnneeded(r) \/ Compute(r) \/ WriteStamp(r) \/ SaveEnds(r)
  <2>1. Returns(r) /\ calls'[r] = calls[r]
    BY <1>1 DEF List, NextUnneeded, Compute, WriteStamp, SaveEnds
  <2>2. \/ pc[r] \in {"listing", "cleared"} /\ pc'[r] = "clearing"
        \/ pc[r] \in {"computing", "saving"} /\ pc'[r] = "running"
        \/ pc[r] = "making" /\ pc'[r] = "dumping"
    BY <1>1, <1>t DEF List, NextUnneeded, Compute, WriteStamp, SaveEnds, Goes, Tables
  <2> QED BY <1>t, <2>1, <2>2, Returning
<1>2. CASE Export(r) \/ LoadState(r) \/ DumpDomain(r) \/ DumpData(r)
  <2>1. calls'[r] = calls[r] /\ left'[r] = left[r]
    BY <1>2 DEF Export, LoadState, DumpDomain, DumpData
  <2>2. \/ pc[r] = "running" /\ pc'[r] = "running"
        \/ pc[r] = "clearing" /\ pc'[r] \in {"reading", "failed"}
        \/ pc[r] = "dumping" /\ pc'[r] = "filling"
        \/ pc[r] = "filling" /\ pc'[r] = "dumped"
    BY <1>2, <1>t DEF Export, LoadState, DumpDomain, DumpData, Goes, Tables
  <2> QED BY <1>t, <2>1, <2>2, Quiet
<1>3. CASE RemoveUnneeded(r) \/ NothingToLoad(r) \/ SaveState(r) \/ RemoveOld(r)
  <2>1. left'[r] = left[r]
    BY <1>3 DEF RemoveUnneeded, NothingToLoad, SaveState, RemoveOld
  <2>2. PICK kind \in Kinds : /\ Calls(r, kind)
        /\ \/ pc[r] = "clearing" /\ pc'[r] = "cleared" /\ kind = "barrier"
           \/ pc[r] \in {"clearing", "reading"} /\ pc'[r] = "computing" /\ kind = "compute"
           \/ pc[r] = "running" /\ pc'[r] = "making" /\ kind = "mkDir"
           \/ pc[r] = "dumped" /\ pc'[r] = "saving" /\ kind = "barrier"
    BY <1>3, <1>t DEF RemoveUnneeded, NothingToLoad, SaveState, RemoveOld, Goes, Tables, Kinds
  <2> QED BY <1>t, <2>1, <2>2, Calling
<1>4. CASE GetValue(r)
  <2>1. left'[r] = left[r] /\ pc[r] = "reading"
    BY <1>4 DEF GetValue
  <2>2. CASE Goes(r, "failed") /\ UNCHANGED calls
    <3>1. pc'[r] = "failed" /\ calls'[r] = calls[r]
      BY <1>t, <2>2 DEF Goes, Tables
    <3> QED BY <1>t, <2>1, <3>1, Quiet
  <2>3. CASE Calls(r, "compute") /\ Goes(r, "computing")
    <3>1. pc'[r] = "computing" /\ "compute" \in Kinds
      BY <1>t, <2>3 DEF Goes, Tables, Kinds
    <3> QED BY <1>t, <2>1, <2>3, <3>1, Calling
  <2> QED BY <1>4, <2>2, <2>3 DEF GetValue
<1>5. CASE Removing(r)
  <2>1. \A b \in Ranks : SameFor(b)
    BY <1>5, RemovingFacts
  <2>2. \A b \in Ranks : CallInv(b)'
    BY <2>1, CallInvStays DEF CallsInv
  <2>3. \A a, b \in Ranks : CallsAgree(a, b)'
    BY <2>1, CallsAgreeStays DEF CallsInv, SameFor
  <2> QED BY <2>2, <2>3 DEF CallsInv
<1> QED BY <1>1, <1>2, <1>3, <1>4, <1>5 DEF Rank, Removing

\* How far a rank has come
LEMMA Counted ==
  ASSUME Tables, CallsInv, NEW r \in Ranks
  PROVE  /\ Called(r) \in Nat /\ left[r] \in Nat
         /\ pc[r] \in {"listing", "cleared", "computing", "making", "saving"} =>
              Called(r) = left[r] + 1 /\ calls[r][Called(r)] = KindAt[pc[r]]
         /\ pc[r] \notin {"listing", "cleared", "computing", "making", "saving"} =>
              Called(r) = left[r]
         /\ pc[r] \in Active =>
              /\ \E k \in 1 .. left[r] : calls[r][k] = "compute"
              /\ 1 <= left[r]
<1>1. CallInv(r) /\ Called(r) \in Nat /\ left[r] \in Nat
  BY DEF CallsInv, Tables, Called
<1>2. pc[r] \in Active => \E k \in 1 .. left[r] : calls[r][k] = "compute"
  BY <1>1 DEF CallInv, Computes
<1>3. pc[r] \in {"listing", "cleared", "computing", "making", "saving"} <=> pc[r] \in DOMAIN KindAt
  BY DEF KindAt
<1> QED BY <1>1, <1>2, <1>3 DEF CallInv

\* Once a rank runs, every rank has ended its constructor.
LEMMA AllPast ==
  ASSUME Tables, CallsInv, NEW a \in Ranks, pc[a] \in Active, NEW b \in Ranks
  PROVE  Past(b)
<1>1. PICK k \in 1 .. left[a] : calls[a][k] = "compute"
  BY Counted
<1>2. k \in 1 .. Called(b) /\ calls[b][k] = "compute"
  BY <1>1, Counted DEF CallsInv, CallsAgree
<1>3. Computes(b, Called(b)) # {}
  BY <1>2 DEF Computes
<1> QED BY <1>3 DEF CallsInv, CallInv

\* Nor is a rank still in the computation when it has made a later call.
LEMMA BeyondComputation ==
  ASSUME Tables, CallsInv, NEW a \in Ranks, pc[a] \in Active, NEW b \in Ranks,
         Called(b) >= Called(a), calls[b][Called(a)] # "compute"
  PROVE  pc[b] \in Active
<1>1. PICK k \in 1 .. left[a] : calls[a][k] = "compute"
  BY Counted
<1>2. k \in 1 .. Called(b) /\ calls[b][k] = "compute" /\ k <= Called(a)
  BY <1>1, Counted DEF CallsInv, CallsAgree
<1>3. k # Called(a)
  BY <1>2
<1>4. k < Called(b) /\ Called(b) <= left[b] + 1
  BY <1>1, <1>2, <1>3, Counted
<1>5. k \in 1 .. left[b]
  BY <1>1, <1>4, Counted
<1>6. Computes(b, left[b]) # {}
  BY <1>2, <1>5 DEF Computes
<1> QED BY <1>6 DEF CallsInv, CallInv

\* Beyond its call of mkDir a rank is not alone in its save.
LEMMA SaveTogether ==
  ASSUME Tables, CallsInv, NEW r \in Ranks, pc[r] \in Active,
         NEW b \in Ranks, Called(b) >= Called(r), calls[b][Called(r)] = "mkDir"
  PROVE  \/ Called(b) = Called(r) /\ pc[b] \in {"making", "dumping", "filling", "dumped"}
         \/ Called(b) = Called(r) + 1 /\ pc[b] = "saving"
<1>1. pc[b] \in Active
  BY BeyondComputation
<1>2. left[b] <= Called(r)
  BY DEF CallsInv, CallsAgree
<1>3. CallInv(b)
  BY DEF CallsInv
<1>4. Called(r) \in Nat /\ Called(b) \in Nat /\ left[b] \in Nat
  BY Counted
<1>5. CASE pc[b] \in {"making", "saving"}
  <2>1. Called(b) = left[b] + 1 /\ calls[b][Called(b)] = KindAt[pc[b]]
    BY <1>5, Counted
  <2>2. Called(b) = Called(r) \/ Called(b) = Called(r) + 1
    BY <1>2, <1>4, <2>1
  <2>3. CASE Called(b) = Called(r)
    BY <1>5, <2>1, <2>3 DEF KindAt
  <2>4. CASE Called(b) = Called(r) + 1
    <3>1. calls[b][left[b]] = "mkDir"
      BY <1>4, <2>1, <2>4
    <3> QED BY <1>3, <1>5, <2>4, <3>1 DEF CallInv
  <2> QED BY <2>2, <2>3, <2>4
<1>6. CASE pc[b] \in {"running", "dumping", "filling", "dumped"}
  <2>1. Called(b) = left[b]
    BY <1>6, Counted
  <2>2. Called(b) = Called(r)
    BY <1>2, <1>4, <2>1
  <2>3. calls[b][left[b]] = "mkDir"
    BY <2>1, <2>2
  <2> QED BY <1>3, <1>6, <2>2, <2>3 DEF CallInv
<1> QED BY <1>1, <1>5, <1>6 DEF Active, InSave

\* While a rank writes its checkpoint every other rank is in the same save.
LEMMA MadeTogether ==
  ASSUME Tables, CallsInv, NEW r \in Ranks, NEW b \in Ranks,
         pc[r] \in {"dumping", "filling", "dumped"} \/ (pc[r] = "making" /\ Returns(r))
  PROVE  \/ Called(b) = Called(r) /\ pc[b] \in {"making", "dumping", "filling", "dumped"}
         \/ Called(b) = Called(r) + 1 /\ pc[b] = "saving"
<1>1. pc[r] \in Active
  BY DEF Active, InSave
<1>2. CallInv(r) /\ Called(r) \in Nat /\ Called(b) \in Nat /\ left[r] \in Nat
  BY Counted DEF CallsInv
<1>3. CASE pc[r] \in {"dumping", "filling", "dumped"}
  <2>1. Called(r) = left[r] /\ 1 <= left[r] /\ calls[r][left[r]] = "mkDir"
    BY <1>1, <1>2, <1>3, Counted DEF CallInv
  <2>2. left[r] <= Called(b) /\ calls[b][left[r]] = "mkDir"
    BY <1>2, <2>1 DEF CallsInv, CallsAgree
  <2> QED BY <1>1, <2>1, <2>2, SaveTogether
<1>4. CASE pc[r] = "making" /\ Returns(r)
  <2>1. Called(r) = left[r] + 1 /\ calls[r][Called(r)] = "mkDir"
    BY <1>4, Counted DEF KindAt
  <2>2. Called(b) > left[r] /\ calls[b][left[r] + 1] = calls[r][left[r] + 1]
    BY <1>4 DEF Returns, Called
  <2>3. Called(b) >= Called(r) /\ calls[b][Called(r)] = "mkDir"
    BY <1>2, <2>1, <2>2
  <2> QED BY <1>1, <2>3, SaveTogether
<1> QED BY <1>3, <1>4

\* When a rank comes out of a save, the others are at its end, or beyond.
LEMMA SavedTogether ==
  ASSUME Tables, CallsInv, NEW r \in Ranks, NEW b \in Ranks, pc[r] = "saving", Returns(r)
  PROVE  \/ Called(b) = Called(r) /\ pc[b] = "saving"
         \/ Called(b) = Called(r) /\ pc[b] = "running" /\ calls[b][left[b]] = "barrier"
         \/ Called(b) = Called(r) + 1 /\ pc[b] = "making"
<1>1. pc[r] \in Active
  BY DEF Active, InSave
<1>2. Called(r) \in Nat /\ Called(b) \in Nat /\ left[r] \in Nat /\ left[b] \in Nat
  BY Counted
<1>3. Called(r) = left[r] + 1 /\ calls[r][Called(r)] = "barrier"
  BY Counted DEF KindAt
<1>4. Called(b) > left[r] /\ calls[b][left[r] + 1] = calls[r][left[r] + 1]
  BY DEF Returns, Called
<1>5. Called(b) >= Called(r) /\ calls[b][Called(r)] = "barrier"
  BY <1>2, <1>3, <1>4
<1>6. pc[b] \in Active
  BY <1>1, <1>5, BeyondComputation
<1>7. left[b] <= Called(r)
  BY DEF CallsInv, CallsAgree
<1>8. CallInv(b)
  BY DEF CallsInv
<1>9. CASE pc[b] \in {"making", "saving"}
  <2>1. Called(b) = left[b] + 1 /\ calls[b][Called(b)] = KindAt[pc[b]]
    BY <1>9, Counted
  <2>2. Called(b) = Called(r) \/ Called(b) = Called(r) + 1
    BY <1>2, <1>5, <1>7, <2>1
  <2>3. CASE Called(b) = Called(r)
    BY <1>5, <1>9, <2>1, <2>3 DEF KindAt
  <2>4. CASE Called(b) = Called(r) + 1
    <3>1. calls[b][left[b]] = "barrier"
      BY <1>2, <1>5, <2>1, <2>4
    <3> QED BY <1>8, <1>9, <2>4, <3>1 DEF CallInv
  <2> QED BY <2>2, <2>3, <2>4
<1>10. CASE pc[b] \in {"running", "dumping", "filling", "dumped"}
  <2>1. Called(b) = left[b]
    BY <1>10, Counted
  <2>2. Called(b) = Called(r)
    BY <1>2, <1>5, <1>7, <2>1
  <2>3. calls[b][left[b]] = "barrier"
    BY <1>5, <2>1, <2>2
  <2> QED BY <1>8, <1>10, <2>2, <2>3 DEF CallInv
<1> QED BY <1>6, <1>9, <1>10 DEF Active, InSave

\* Between two saves the others are as far, or in the next mkDir.
LEMMA RunTogether ==
  ASSUME Tables, CallsInv, NEW r \in Ranks, NEW b \in Ranks, pc[r] = "running"
  PROVE  \/ Called(b) = Called(r) /\ pc[b] \in {"computing", "running", "making", "saving"}
         \/ Called(b) = Called(r) + 1 /\ pc[b] = "making"
<1>1. pc[r] \in Active
  BY DEF Active, InSave
<1>2. Called(r) \in Nat /\ Called(b) \in Nat /\ left[b] \in Nat
  BY Counted
<1>3. Called(r) = left[r] /\ 1 <= left[r] /\ CallInv(r) /\ CallInv(b)
  BY <1>1, Counted DEF CallsInv
<1>4. calls[r][left[r]] \in {"compute", "barrier"}
  BY <1>3 DEF CallInv
<1>5. left[r] <= Called(b) /\ calls[b][left[r]] = calls[r][left[r]] /\ left[b] <= Called(r)
  BY <1>2, <1>3 DEF CallsInv, CallsAgree
<1>6. Past(b)
  BY <1>1, AllPast
<1>7. CASE pc[b] \in {"computing", "making", "saving"}
  <2>1. Called(b) = left[b] + 1
    BY <1>7, Counted
  <2>2. Called(b) = Called(r) \/ Called(b) = Called(r) + 1
    BY <1>2, <1>3, <1>5, <2>1
  <2>3. CASE Called(b) = Called(r) + 1
    <3>1. calls[b][left[b]] \in {"compute", "barrier"}
      BY <1>2, <1>3, <1>4, <1>5, <2>1, <2>3
    <3>2. pc[b] # "saving"
      BY <1>3, <3>1 DEF CallInv
    <3>3. PICK k \in 1 .. left[r] : calls[r][k] = "compute"
      BY <1>1, Counted
    <3>4. k \in 1 .. left[b] /\ calls[b][k] = "compute"
      BY <1>2, <1>3, <2>1, <2>3, <3>3 DEF CallsInv, CallsAgree
    <3>5. pc[b] \in Active
      BY <1>3, <3>4 DEF CallInv, Computes
    <3> QED BY <1>7, <2>3, <3>2, <3>5 DEF Active, InSave
  <2> QED BY <1>7, <2>2, <2>3
<1>8. CASE pc[b] \in {"running", "dumping", "filling", "dumped"}
  <2>1. Called(b) = left[b]
    BY <1>8, Counted
  <2>2. Called(b) = Called(r)
    BY <1>2, <1>3, <1>5, <2>1
  <2>3. calls[b][left[b]] \in {"compute", "barrier"}
    BY <1>3, <1>4, <1>5, <2>1, <2>2
  <2> QED BY <1>3, <1>8, <2>2, <2>3 DEF CallInv
<1> QED BY <1>6, <1>7, <1>8 DEF Past, Active, InSave

-----------------------------------------------------------------------------
(* Cycles                                                                  *)

CyclesInv == \A a, b \in Ranks : Past(a) /\ Past(b) => CyclesAgree(a, b)

OwnInv(r) ==
  /\ pc[r] \in InSave => Saves(N[r]) /\ N[r] \in Cycles
  /\ pc[r] \in {"dumping", "filling", "dumped", "saving"} => N[r] \in dirs
  /\ pc[r] # "down" => torn < starts
  /\ Past(r) => sim[r] # 0
  /\ pc[r] \in Active /\ restartdir[r] # NoCycle =>
       pc[r] = "running" /\ calls[r][left[r]] = "compute"

\* The control invariant in the parts that are shown one by one.
LEMMA ControlParts ==
  ControlInv <=> /\ CallsInv /\ CyclesInv
                 /\ \A r \in Ranks : OwnInv(r)
                 /\ \A a, b \in Ranks : pc[a] = "down" => pc[b] = "down"
                 /\ pc[0] = "making" => N[0] \in dirs
  BY DEF ControlInv, RankInv, CallsInv, CyclesInv, OwnInv

\* Between two cycles with a checkpoint due there is none only if they are one.
LEMMA SameCycle ==
  ASSUME NEW m \in Cycles, NEW n \in Cycles, Saves(m), Saves(n),
         NoneDue(m, n), NoneDue(n, m)
  PROVE  m = n
  BY RankFacts DEF NoneDue

\* While a rank writes its checkpoint all ranks are in the same cycle, and none
\* has returned from the save.
LEMMA OneCycle ==
  ASSUME Tables, CallsInv, CyclesInv, \A x \in Ranks : OwnInv(x),
         NEW r \in Ranks, NEW b \in Ranks,
         pc[r] \in {"dumping", "filling", "dumped"} \/ (pc[r] = "making" /\ Returns(r))
  PROVE  /\ pc[b] \in InSave /\ N[b] = N[r]
         /\ \/ Called(b) = Called(r) /\ pc[b] # "saving"
            \/ Called(b) = Called(r) + 1 /\ pc[b] = "saving"
<1>1. \/ Called(b) = Called(r) /\ pc[b] \in {"making", "dumping", "filling", "dumped"}
      \/ Called(b) = Called(r) + 1 /\ pc[b] = "saving"
  BY MadeTogether
<1>2. pc[r] \in InSave /\ pc[b] \in InSave /\ Past(r) /\ Past(b)
  BY <1>1 DEF InSave, Active, Past
<1>3. CyclesAgree(r, b) /\ CyclesAgree(b, r)
  BY <1>2 DEF CyclesInv
<1>4. N[r] \in Cycles /\ Saves(N[r]) /\ N[b] \in Cycles /\ Saves(N[b])
  BY <1>2 DEF OwnInv
<1>5. N[b] = N[r]
  BY <1>1, <1>3, <1>4, SameCycle DEF CyclesAgree
<1> QED BY <1>1, <1>2, <1>5

\* Steps that bring no rank to another cycle
LEMMA CyclesStay ==
  ASSUME CyclesInv, freq' = freq, NEW r \in Ranks, \A b \in Ranks : b # r => SameFor(b),
         Past(r)' => Past(r) /\ N'[r] = N[r] /\ calls'[r] = calls[r],
         pc'[r] \notin {"making", "saving"}
  PROVE  CyclesInv'
<1> SUFFICES ASSUME NEW a \in Ranks, NEW b \in Ranks, Past(a)', Past(b)'
             PROVE  CyclesAgree(a, b)'
  BY DEF CyclesInv
<1>1. ASSUME NEW x \in Ranks, Past(x)' PROVE Past(x) /\ N'[x] = N[x] /\ calls'[x] = calls[x]
  BY <1>1 DEF SameFor, Past
<1>2. /\ N'[a] = N[a] /\ N'[b] = N[b]
      /\ Called(a)' = Called(a) /\ Called(b)' = Called(b)
      /\ CyclesAgree(a, b)
  BY <1>1 DEF CyclesInv, Called
<1>3. \A m, n : NoneDue(m, n)' <=> NoneDue(m, n)
  BY DEF NoneDue, Saves
<1>4. pc'[a] \in {"making", "saving"} => pc'[a] = pc[a]
  BY DEF SameFor
<1> QED BY <1>2, <1>3, <1>4 DEF CyclesAgree

\* A step that does, for the ranks that go on: what has to be shown of the rank that moves
LEMMA CyclesOf ==
  ASSUME CyclesInv, freq' = freq, NEW r \in Ranks, \A b \in Ranks : b # r => SameFor(b),
         \A b \in Ranks : b # r /\ Past(b) => CyclesAgree(r, b)' /\ CyclesAgree(b, r)',
         Called(r)' \in Nat, N'[r] \in Int
  PROVE  CyclesInv'
<1> SUFFICES ASSUME NEW a \in Ranks, NEW b \in Ranks, Past(a)', Past(b)'
             PROVE  CyclesAgree(a, b)'
  BY DEF CyclesInv
<1>1. CASE a # r /\ b # r
  <2>1. /\ N'[a] = N[a] /\ N'[b] = N[b] /\ pc'[a] = pc[a]
        /\ Called(a)' = Called(a) /\ Called(b)' = Called(b)
        /\ Past(a) /\ Past(b)
    BY <1>1 DEF Called, SameFor, Past
  <2>2. CyclesAgree(a, b)
    BY <2>1 DEF CyclesInv
  <2>3. \A m, n : NoneDue(m, n)' <=> NoneDue(m, n)
    BY DEF NoneDue, Saves
  <2> QED BY <2>1, <2>2, <2>3 DEF CyclesAgree
<1>2. CASE a = r /\ b = r
  <2>1. NoneDue(N[r], N[r])'
    <3>1. \A i \in Cycles : ~ (N'[r] < i /\ i <= N'[r])
      BY RankFacts
    <3> QED BY <3>1 DEF NoneDue
  <2>2. Called(r)' # Called(r)' + 1
    OBVIOUS
  <2> QED BY <1>2, <2>1, <2>2 DEF CyclesAgree
<1>3. CASE a = r /\ b # r
  <2>1. Past(b)
    BY <1>3 DEF SameFor, Past
  <2> QED BY <1>3, <2>1
<1>4. CASE a # r /\ b = r
  <2>1. Past(a)
    BY <1>4 DEF SameFor, Past
  <2> QED BY <1>4, <2>1
<1> QED BY <1>1, <1>2, <1>3, <1>4

\* A cycle is a number, and the next one is a cycle until the last.
LEMMA CyclesType ==
  ASSUME Tables, NEW r \in Ranks
  PROVE  /\ N[r] \in Int /\ N[r] >= -1
         /\ N[r] # NoCycle => N[r] \in Cycles
         /\ N[r] < MaxN => N[r] + 1 \in Cycles
<1>1. N[r] \in Cycles \cup {NoCycle}
  BY DEF Tables
<1>2. MaxN \in Nat
  BY RankFacts
<1> QED BY <1>1, <1>2 DEF Cycles, NoCycle

\* No checkpoint is due between a cycle and itself.
LEMMA NoneBetween ==
  ASSUME NEW n \in Int
  PROVE  NoneDue(n, n)
<1>1. \A i \in Cycles : ~ (n < i /\ i <= n)
  BY RankFacts
<1> QED BY <1>1 DEF NoneDue

\* While a rank has not ended its constructor, none has come further.
LEMMA AllConstructing ==
  ASSUME Tables, ControlInv, NEW r \in Ranks, pc[r] \in Constructor, ~ Past(r) \/ pc[r] = "listing"
  PROVE  \A b \in Ranks : pc[b] \in Constructor
<1> SUFFICES ASSUME NEW b \in Ranks PROVE pc[b] \in Constructor
  OBVIOUS
<1>1. CallsInv
  BY ControlParts
<1>2. ~ Past(r)
  BY DEF Past, Active, InSave
<1>3. pc[b] \notin Active
  BY <1>1, <1>2, AllPast
<1>4. pc[b] # "down"
  BY ControlParts DEF Constructor, Listed
<1>5. pc[b] \in Places
  BY DEF Tables
<1> QED BY <1>3, <1>4, <1>5 DEF Places, Active, InSave, Constructor, Listed

\* The ranks that have listed the directories have found the same.
LEMMA FoundTogether ==
  ASSUME Types, NEW a \in Ranks, NEW b \in Ranks, Found(a), Found(b),
         pc[a] \in Listed, pc[b] \in Listed
  PROVE  restartdir[a] = restartdir[b]
<1>1. CASE do_restart /\ restartdir[a] # NoCycle /\ restartdir[b] # NoCycle
  <2>1. /\ restartdir[a] \in dirs /\ restartdir[b] \in dirs
        /\ restartdir[a] <= restartdir[b] /\ restartdir[b] <= restartdir[a]
    BY <1>1 DEF Found
  <2>2. restartdir[a] \in Nat /\ restartdir[b] \in Nat
    BY <2>1, RankFacts DEF Types
  <2> QED BY <2>1, <2>2
<1>2. CASE do_restart /\ (restartdir[a] = NoCycle \/ restartdir[b] = NoCycle)
  BY <1>2 DEF Found
<1>3. CASE ~ do_restart
  BY <1>3 DEF Found
<1> QED BY <1>1, <1>2, <1>3

\* The constructor ends in the cycle loaded, the same on every rank.
LEMMA CyclesLoaded ==
  ASSUME Types, Tables', CallsInv', ControlInv, ConstructorInv, NEW r \in Ranks, freq' = freq,
         \A b \in Ranks : b # r => SameFor(b),
         pc[r] \in {"clearing", "reading"}, pc'[r] = "computing", N'[r] = restartdir[r]
  PROVE  CyclesInv'
<1>1. \A b \in Ranks : pc[b] \in Constructor
  <2>1. Tables
    BY DEF Tables, Types
  <2> QED BY <2>1, AllConstructing DEF Past, Active, InSave, Constructor, Listed
<1>2. \A b \in Ranks : Found(b)
  BY <1>1 DEF ConstructorInv
<1>3. Called(r)' \in Nat /\ N'[r] \in Int
  <2>1. calls'[r] \in Seq(Kinds) /\ N'[r] \in Cycles \cup {NoCycle}
    BY DEF Tables
  <2> QED BY <2>1, RankFacts DEF Called, NoCycle
<1>4. ASSUME NEW b \in Ranks, b # r, Past(b) PROVE CyclesAgree(r, b)' /\ CyclesAgree(b, r)'
  <2>1. pc[b] = "computing" /\ pc[b] \in Listed /\ pc[r] \in Listed
    BY <1>1, <1>4 DEF Past, Active, InSave, Constructor, Listed
  <2>2. N[b] = restartdir[b] /\ restartdir[b] = restartdir[r]
    BY <1>2, <2>1, FoundTogether DEF Found
  <2>3. N'[b] = N'[r] /\ pc'[b] = "computing"
    BY <1>4, <2>1, <2>2 DEF SameFor
  <2>4. NoneDue(N[r], N[r])'
    <3>1. NoneDue(N'[r], N'[r])
      BY <1>3, NoneBetween
    <3> QED BY <3>1 DEF NoneDue, Saves
  <2> QED BY <2>3, <2>4 DEF CyclesAgree
<1>5. CyclesInv
  BY ControlParts
<1> QED BY <1>3, <1>4, <1>5, CyclesOf

\* An export that saves nothing keeps the ranks' cycles together,
LEMMA CyclesExported ==
  ASSUME Tables, ControlInv, NEW r \in Ranks, Export(r),
         \A b \in Ranks : b # r => SameFor(b)
  PROVE  CyclesInv'
<1>1. /\ CallsInv /\ CyclesInv /\ (\A x \in Ranks : OwnInv(x))
  BY ControlParts
<1>2. /\ pc[r] = "running" /\ ~ Saves(N[r] + 1) /\ N[r] < MaxN
      /\ N'[r] = N[r] + 1 /\ pc'[r] = "running" /\ Called(r)' = Called(r) /\ freq' = freq
  BY DEF Export, Tables, Called
<1>3. N[r] \in Int /\ N[r] + 1 \in Cycles /\ Called(r) \in Nat
  BY <1>1, <1>2, CyclesType, Counted
<1>4. ASSUME NEW b \in Ranks, b # r, Past(b) PROVE CyclesAgree(r, b)' /\ CyclesAgree(b, r)'
  <2>1. Past(r)
    BY <1>2 DEF Past, Active
  <2>2. CyclesAgree(r, b) /\ CyclesAgree(b, r)
    BY <1>1, <1>4, <2>1 DEF CyclesInv
  <2>3. N'[b] = N[b] /\ pc'[b] = pc[b] /\ Called(b)' = Called(b) /\ N[b] \in Int /\ Called(b) \in Nat
    BY <1>1, <1>4, CyclesType, Counted DEF SameFor, Called
  <2>4. \A m, n : NoneDue(m, n)' <=> \A i \in Cycles : m' < i /\ i <= n' => ~ Saves(i)
    BY <1>2 DEF NoneDue, Saves
  <2>5. CASE Called(b) = Called(r)
    <3>1. NoneDue(N[r], N[b]) /\ NoneDue(N[b], N[r])
      BY <2>2, <2>5 DEF CyclesAgree
    <3>2. \A i \in Cycles : N[r] + 1 < i /\ i <= N[b] => ~ Saves(i)
      BY <1>3, <3>1, RankFacts DEF NoneDue
    <3>3. \A i \in Cycles : N[b] < i /\ i <= N[r] + 1 => ~ Saves(i)
      <4> SUFFICES ASSUME NEW i \in Cycles, N[b] < i, i <= N[r] + 1 PROVE ~ Saves(i)
        OBVIOUS
      <4>1. i <= N[r] \/ i = N[r] + 1
        BY <1>3, RankFacts
      <4> QED BY <1>2, <3>1, <4>1 DEF NoneDue
    <3>4. NoneDue(N[r], N[b])' /\ NoneDue(N[b], N[r])'
      BY <1>2, <2>3, <3>2, <3>3 DEF NoneDue, Saves
    <3> QED BY <1>2, <1>3, <2>3, <2>5, <3>4 DEF CyclesAgree
  <2>6. CASE Called(b) = Called(r) + 1 /\ pc[b] = "making"
    <3>1. N[r] < N[b] /\ NoneDue(N[r], N[b] - 1)
      BY <2>2, <2>6 DEF CyclesAgree
    <3>2. Saves(N[b])
      BY <1>1, <2>6 DEF OwnInv, InSave
    <3>3. N[r] + 1 < N[b]
      BY <1>2, <1>3, <2>3, <3>1, <3>2
    <3>4. \A i \in Cycles : N[r] + 1 < i /\ i <= N[b] - 1 => ~ Saves(i)
      BY <1>3, <2>3, <3>1, RankFacts DEF NoneDue
    <3>5. NoneDue(N[r], N[b] - 1)'
      BY <1>2, <2>3, <3>4 DEF NoneDue, Saves
    <3> QED BY <1>2, <1>3, <2>3, <2>6, <3>3, <3>5 DEF CyclesAgree
  <2> QED BY <1>1, <1>2, <2>5, <2>6, RunTogether
<1> QED BY <1>1, <1>2, <1>3, <1>4, CyclesOf

\* the beginning of a save does,
LEMMA CyclesSaved ==
  ASSUME Tables, ControlInv, NEW r \in Ranks, SaveState(r),
         \A b \in Ranks : b # r => SameFor(b)
  PROVE  CyclesInv'
<1>1. /\ CallsInv /\ CyclesInv /\ (\A x \in Ranks : OwnInv(x))
  BY ControlParts
<1>2. /\ pc[r] = "running" /\ Saves(N[r] + 1) /\ N[r] < MaxN
      /\ N'[r] = N[r] + 1 /\ pc'[r] = "making" /\ freq' = freq
  BY DEF SaveState, Goes, Tables
<1>3. N[r] \in Int /\ N[r] + 1 \in Cycles /\ Called(r) \in Nat
  BY <1>1, <1>2, CyclesType, Counted
<1>c. Called(r)' = Called(r) + 1
  BY DEF SaveState, Calls, Tables, Called
<1>4. ASSUME NEW b \in Ranks, b # r, Past(b) PROVE CyclesAgree(r, b)' /\ CyclesAgree(b, r)'
  <2>1. Past(r)
    BY <1>2 DEF Past, Active
  <2>2. CyclesAgree(r, b) /\ CyclesAgree(b, r)
    BY <1>1, <1>4, <2>1 DEF CyclesInv
  <2>3. N'[b] = N[b] /\ pc'[b] = pc[b] /\ Called(b)' = Called(b) /\ N[b] \in Int /\ Called(b) \in Nat
    BY <1>1, <1>4, CyclesType, Counted DEF SameFor, Called
  <2>5. CASE Called(b) = Called(r)
    <3>1. NoneDue(N[r], N[b]) /\ NoneDue(N[b], N[r])
      BY <2>2, <2>5 DEF CyclesAgree
    <3>2. N[b] < N[r] + 1
      <4> SUFFICES ASSUME N[r] + 1 <= N[b] PROVE FALSE
        BY <1>3, <2>3, RankFacts
      <4>1. N[r] < N[r] + 1
        BY <1>3
      <4> QED BY <1>2, <1>3, <3>1, <4>1 DEF NoneDue
    <3>3. N'[r] - 1 = N[r]
      BY <1>2, <1>3
    <3>4. NoneDue(N[b], N[r] - 1)' /\ N'[b] < N'[r]
      <4>1. NoneDue(N'[b], N'[r] - 1)
        BY <2>3, <3>1, <3>3, Zenon
      <4>2. NoneDue(N[b], N[r] - 1)'
        BY <1>2, <4>1 DEF NoneDue, Saves
      <4> QED BY <1>2, <2>3, <3>2, <4>2
    <3>5. /\ Called(r)' # Called(b)' /\ Called(b)' # Called(r)' + 1
      BY <1>3, <1>c, <2>3, <2>5
    <3>6. CyclesAgree(b, r)'
      BY <3>5 DEF CyclesAgree
    <3>7. CyclesAgree(r, b)'
      BY <1>2, <3>4, <3>5 DEF CyclesAgree
    <3> QED BY <3>6, <3>7
  <2>6. CASE Called(b) = Called(r) + 1 /\ pc[b] = "making"
    <3>1. N[r] < N[b] /\ NoneDue(N[r], N[b] - 1)
      BY <2>2, <2>6 DEF CyclesAgree
    <3>2. ~ (N[r] + 1 <= N[b] - 1)
      <4>1. N[r] < N[r] + 1
        BY <1>3
      <4> QED BY <1>2, <1>3, <3>1, <4>1 DEF NoneDue
    <3>3. N[r] + 1 = N[b]
      BY <1>3, <2>3, <3>1, <3>2
    <3>4. NoneDue(N[b], N[b])
      BY <2>3, NoneBetween
    <3>5. NoneDue(N[r], N[b])' /\ NoneDue(N[b], N[r])'
      BY <1>2, <2>3, <3>3, <3>4 DEF NoneDue, Saves
    <3>6. Called(r)' = Called(b)' /\ Called(r)' # Called(b)' + 1 /\ Called(b)' # Called(r)' + 1
      BY <1>3, <1>c, <2>3, <2>6
    <3> QED BY <3>5, <3>6 DEF CyclesAgree
  <2> QED BY <1>1, <1>2, <2>5, <2>6, RunTogether
<1> QED BY <1>1, <1>2, <1>3, <1>c, <1>4, CyclesOf

\* and so does its end on rank 0.
LEMMA CyclesRemoved ==
  ASSUME Tables, ControlInv, NEW r \in Ranks, RemoveOld(r),
         \A b \in Ranks : b # r => SameFor(b)
  PROVE  CyclesInv'
<1>1. /\ CallsInv /\ CyclesInv /\ (\A x \in Ranks : OwnInv(x))
  BY ControlParts
<1>2. pc[r] = "dumped" /\ N'[r] = N[r] /\ pc'[r] = "saving" /\ freq' = freq
  BY DEF RemoveOld, Goes, Tables
<1>3. N[r] \in Int /\ Called(r) \in Nat
  BY <1>1, CyclesType, Counted
<1>c. Called(r)' = Called(r) + 1
  BY DEF RemoveOld, Calls, Tables, Called
<1>4. ASSUME NEW b \in Ranks, b # r, Past(b) PROVE CyclesAgree(r, b)' /\ CyclesAgree(b, r)'
  <2>1. /\ N[b] = N[r]
        /\ \/ Called(b) = Called(r) /\ pc[b] # "saving"
           \/ Called(b) = Called(r) + 1 /\ pc[b] = "saving"
    BY <1>1, <1>2, OneCycle
  <2>2. N'[b] = N'[r] /\ pc'[b] = pc[b] /\ Called(b)' = Called(b) /\ Called(b) \in Nat
    BY <1>1, <1>2, <1>4, <2>1, Counted DEF SameFor, Called
  <2>3. NoneDue(N[r], N[r])'
    <3>1. NoneDue(N[r], N[r])
      BY <1>3, NoneBetween
    <3> QED BY <1>2, <3>1 DEF NoneDue, Saves
  <2>4. NoneDue(N[r], N[b])' /\ NoneDue(N[b], N[r])'
    BY <2>2, <2>3 DEF NoneDue
  <2>5. CyclesAgree(r, b)'
    BY <1>2, <1>c, <2>2, <2>4 DEF CyclesAgree
  <2>6. Called(b)' # Called(r)' + 1
    BY <1>3, <1>c, <2>1, <2>2
  <2>7. CyclesAgree(b, r)'
    BY <2>4, <2>6 DEF CyclesAgree
  <2> QED BY <2>5, <2>7
<1> QED BY <1>1, <1>2, <1>3, <1>c, <1>4, CyclesOf

\* Every step keeps the ranks' cycles together.
LEMMA CyclesStep ==
  ASSUME Types, ControlInv, ConstructorInv, NEW r \in Ranks, Rank(r)
  PROVE  CyclesInv'
<1>t. Tables /\ Tables' /\ freq' = freq /\ \A b \in Ranks : b # r => SameFor(b)
  BY StepTypes DEF Tables, Types, Moves
<1>c. CallsInv /\ CallsInv' /\ CyclesInv
  BY CallsStep, ControlParts
<1>1. CASE List(r) \/ RemoveUnneeded(r) \/ NextUnneeded(r) \/ LoadState(r)
  <2>1. ~ Past(r)' /\ pc'[r] \notin {"making", "saving"}
    BY <1>1, <1>t DEF List, RemoveUnneeded, NextUnneeded, LoadState, Goes, Past, Active, InSave,
                      Tables
  <2> QED BY <1>t, <1>c, <2>1, CyclesStay
<1>2. CASE Compute(r) \/ WriteStamp(r) \/ DumpDomain(r) \/ DumpData(r) \/ SaveEnds(r)
  <2>1. /\ Past(r) /\ N'[r] = N[r] /\ calls'[r] = calls[r]
        /\ pc'[r] \notin {"making", "saving"}
    BY <1>2, <1>t DEF Compute, WriteStamp, DumpDomain, DumpData, SaveEnds, Goes, Past, Active,
                      InSave, Tables
  <2> QED BY <1>t, <1>c, <2>1, CyclesStay
<1>3. CASE GetValue(r)
  <2>1. CASE Goes(r, "failed")
    <3>1. ~ Past(r)' /\ pc'[r] \notin {"making", "saving"}
      BY <1>t, <2>1 DEF Goes, Past, Active, InSave, Tables
    <3> QED BY <1>t, <1>c, <3>1, CyclesStay
  <2>2. CASE Goes(r, "computing")
    <3>1. pc[r] = "reading" /\ pc'[r] = "computing" /\ N'[r] = N[r]
      BY <1>3, <1>t, <2>2 DEF GetValue, Goes, Tables
    <3>2. Found(r)
      BY <1>t, <3>1, AllConstructing DEF ConstructorInv, Past, Active, InSave, Constructor, Listed
    <3>3. N'[r] = restartdir[r]
      BY <3>1, <3>2 DEF Found
    <3> QED BY <1>t, <1>c, <3>1, <3>3, CyclesLoaded
  <2> QED BY <1>3, <2>1, <2>2 DEF GetValue
<1>4. CASE NothingToLoad(r)
  <2>1. pc[r] = "clearing" /\ pc'[r] = "computing" /\ N'[r] = N[r] /\ restartdir[r] = NoCycle
    BY <1>4, <1>t DEF NothingToLoad, Goes, Tables
  <2>2. Found(r)
    BY <1>t, <2>1, AllConstructing DEF ConstructorInv, Past, Active, InSave, Constructor, Listed
  <2>3. N'[r] = restartdir[r]
    BY <2>1, <2>2 DEF Found
  <2> QED BY <1>t, <1>c, <2>1, <2>3, CyclesLoaded
<1>5. CASE Export(r)
  BY <1>5, <1>t, CyclesExported
<1>6. CASE SaveState(r)
  BY <1>6, <1>t, CyclesSaved
<1>7. CASE RemoveOld(r)
  BY <1>7, <1>t, CyclesRemoved
<1>8. CASE Removing(r)
  <2>1. N'[r] = N[r] /\ calls'[r] = calls[r] /\ pc' = pc
    BY <1>8, RemovingFacts
  <2>2. pc[r] \notin {"making", "saving"}
    BY <1>8 DEF Removing, RemovingUnneeded, RemovingOld
  <2> QED BY <1>t, <1>c, <2>1, <2>2, CyclesStay DEF Past
<1> QED BY <1>1, <1>2, <1>3, <1>4, <1>5, <1>6, <1>7, <1>8 DEF Rank, Removing

-----------------------------------------------------------------------------
(* Directories and files                                                   *)

Contents == [stamp : 0 .. MaxStarts, dump : 0 .. MaxStarts, data : 0 .. MaxStarts]
FilesType == files \in [Cycles -> [Ranks -> Contents]]
Empty == Everyone(NoFiles)

DiskType ==
  /\ dirs \subseteq Cycles
  /\ FilesType
  /\ \A n \in Cycles \ dirs : files[n] = Empty

\* Directories without files are typed.
LEMMA EmptyType ==
  Empty \in [Ranks -> Contents]
  BY RankFacts DEF Empty, Everyone, NoFiles, Contents

\* Only rank 0 removes a directory; the others keep their files.
LEMMA RemovedType ==
  ASSUME DiskType, NEW r, NEW n, RemoveDirectory(r, n)
  PROVE  /\ DiskType'
         /\ dirs' = IF r = 0 THEN dirs \ {n} ELSE dirs
         /\ \A m \in dirs' : files'[m] = files[m]
<1>1. CASE r = 0 /\ n \in dirs
  <2>1. dirs' = dirs \ {n} /\ files' = [files EXCEPT ![n] = Empty]
    BY <1>1 DEF RemoveDirectory, Empty
  <2>2. FilesType'
    BY <2>1, EmptyType DEF DiskType, FilesType
  <2>3. \A m \in Cycles : files'[m] = IF m = n THEN Empty ELSE files[m]
    BY <2>1 DEF DiskType, FilesType
  <2>4. dirs' \subseteq Cycles
    BY <2>1 DEF DiskType
  <2>5. \A m \in Cycles \ dirs' : files'[m] = Empty
    BY <2>1, <2>3 DEF DiskType
  <2>6. \A m \in dirs' : files'[m] = files[m]
    BY <2>1, <2>3, <2>4
  <2>7. Empty' = Empty
    BY DEF Empty, Everyone, NoFiles
  <2> QED BY <1>1, <2>1, <2>2, <2>4, <2>5, <2>6, <2>7 DEF DiskType
<1>2. CASE ~ (r = 0 /\ n \in dirs)
  BY <1>2 DEF RemoveDirectory, DiskType, FilesType, Contents, Empty, disk
<1> QED BY <1>1, <1>2

\* Files of one rank in one directory are written, or removed.
LEMMA Written ==
  ASSUME FilesType, NEW n \in Cycles, NEW r \in Ranks, NEW s \in 0 .. MaxStarts,
         \/ files' = [files EXCEPT ![n][r].stamp = s]
         \/ files' = [files EXCEPT ![n][r].dump = s]
         \/ files' = [files EXCEPT ![n][r].data = s]
  PROVE  /\ FilesType'
         /\ \A m \in Cycles, b \in Ranks : m # n \/ b # r => files'[m][b] = files[m][b]
         /\ \A m \in Cycles : m # n => files'[m] = files[m]
         /\ \/ files'[n][r] = [files[n][r] EXCEPT !.stamp = s]
            \/ files'[n][r] = [files[n][r] EXCEPT !.dump = s]
            \/ files'[n][r] = [files[n][r] EXCEPT !.data = s]
<1>1. files[n][r] \in Contents
  BY DEF FilesType
<1>2. PICK c \in Contents :
        /\ files' = [files EXCEPT ![n] = [files[n] EXCEPT ![r] = c]]
        /\ \/ c = [files[n][r] EXCEPT !.stamp = s]
           \/ c = [files[n][r] EXCEPT !.dump = s]
           \/ c = [files[n][r] EXCEPT !.data = s]
  <2>1. /\ [files[n][r] EXCEPT !.stamp = s] \in Contents
        /\ [files[n][r] EXCEPT !.dump = s] \in Contents
        /\ [files[n][r] EXCEPT !.data = s] \in Contents
    BY <1>1 DEF Contents
  <2> QED BY <2>1
<1>3. files[n] \in [Ranks -> Contents]
  BY DEF FilesType
<1> QED BY <1>2, <1>3 DEF FilesType

\* A removal in progress touches one directory: some file in it goes.
LEMMA RemovingFiles ==
  ASSUME DiskType, NEW r \in Ranks, Removing(r)
  PROVE  /\ r = 0 /\ DiskType'
         /\ \E n \in dirs :
              /\ \/ pc[0] = "clearing" /\ todo[0] # << >> /\ InPlace /\ n = Head(todo[0])
                 \/ pc[0] = "dumped" /\ n = N[0] - freq[N[0]]
              /\ \A m \in Cycles : m # n => files'[m] = files[m]
              /\ \A b \in Ranks : /\ files'[n][b].stamp \in {0, files[n][b].stamp}
                                  /\ files'[n][b].dump \in {0, files[n][b].dump}
                                  /\ files'[n][b].data \in {0, files[n][b].data}
<1>1. PICK n : /\ RemoveFile(r, n)
               /\ \/ pc[r] = "clearing" /\ todo[r] # << >> /\ InPlace /\ n = Head(todo[r])
                  \/ pc[r] = "dumped" /\ n = N[r] - freq[N[r]]
  BY DEF Removing, RemovingUnneeded, RemovingOld
<1>2. r = 0 /\ n \in dirs /\ n \in Cycles /\ 0 \in 0 .. MaxStarts
  BY <1>1, RankFacts DEF RemoveFile, DiskType
<1>3. PICK b \in Ranks : \/ files' = [files EXCEPT ![n][b].stamp = 0]
                         \/ files' = [files EXCEPT ![n][b].dump = 0]
                         \/ files' = [files EXCEPT ![n][b].data = 0]
  BY <1>1 DEF RemoveFile
<1>4. /\ FilesType'
      /\ \A m \in Cycles, x \in Ranks : m # n \/ x # b => files'[m][x] = files[m][x]
      /\ \A m \in Cycles : m # n => files'[m] = files[m]
      /\ \/ files'[n][b] = [files[n][b] EXCEPT !.stamp = 0]
         \/ files'[n][b] = [files[n][b] EXCEPT !.dump = 0]
         \/ files'[n][b] = [files[n][b] EXCEPT !.data = 0]
  BY <1>2, <1>3, Written DEF DiskType
<1>5. files[n][b] \in Contents
  BY <1>2 DEF DiskType, FilesType
<1>6. /\ files'[n][b].stamp \in {0, files[n][b].stamp}
      /\ files'[n][b].dump \in {0, files[n][b].dump}
      /\ files'[n][b].data \in {0, files[n][b].data}
  BY <1>4, <1>5 DEF Contents
<1>7. \A x \in Ranks : /\ files'[n][x].stamp \in {0, files[n][x].stamp}
                       /\ files'[n][x].dump \in {0, files[n][x].dump}
                       /\ files'[n][x].data \in {0, files[n][x].data}
  BY <1>2, <1>4, <1>6
<1>8. DiskType'
  <2>1. dirs' = dirs /\ Empty' = Empty
    BY RemovingFacts DEF Empty, Everyone, NoFiles
  <2> QED BY <1>2, <1>4, <2>1 DEF DiskType
<1> QED BY <1>1, <1>2, <1>4, <1>7, <1>8

\* The directory of a save is there when a rank comes out of mkDir.
LEMMA MadeFirst ==
  ASSUME Tables, ControlInv, NEW r \in Ranks, pc[r] = "making", Returns(r)
  PROVE  N[r] \in dirs /\ N[r] = N[0]
<1>1. /\ CallsInv /\ CyclesInv /\ (\A x \in Ranks : OwnInv(x))
      /\ pc[0] = "making" => N[0] \in dirs
  BY ControlParts
<1>2. 0 \in Ranks
  BY RankFacts
<1>3. pc[0] \in InSave /\ N[0] = N[r]
  BY <1>1, <1>2, OneCycle
<1>4. pc[0] # "making" => N[0] \in dirs
  BY <1>1, <1>2, <1>3 DEF OwnInv, InSave
<1> QED BY <1>1, <1>3, <1>4

\* Every step leaves a typed disk,
LEMMA DiskStep ==
  ASSUME Types, ControlInv, NEW r \in Ranks, Rank(r)
  PROVE  DiskType'
<1>t. Tables /\ DiskType
  BY DEF Types, Tables, DiskType, FilesType, Contents, Empty
<1>u. Empty' = Empty
  BY DEF Empty, Everyone, NoFiles
<1>1. CASE UNCHANGED disk
  BY <1>1, <1>t, <1>u DEF DiskType, FilesType, disk
<1>2. ASSUME NEW n, RemoveDirectory(r, n) PROVE DiskType'
  BY <1>2, <1>t, RemovedType
<1>3. CASE SaveState(r)
  <2>1. N[r] + 1 \in Cycles
    BY <1>3, <1>t, CyclesType DEF SaveState
  <2>2. dirs' \in {dirs, dirs \cup {N[r] + 1}} /\ files' = files
    BY <1>3 DEF SaveState, MakeDirectory
  <2> QED BY <1>t, <1>u, <2>1, <2>2 DEF DiskType, FilesType
<1>4. CASE WriteStamp(r) \/ DumpDomain(r) \/ DumpData(r)
  <2>1. N[r] \in dirs /\ dirs' = dirs
    <3>1. CASE WriteStamp(r)
      BY <1>t, <3>1, MadeFirst DEF WriteStamp
    <3>2. CASE DumpDomain(r) \/ DumpData(r)
      BY <3>2, ControlParts DEF DumpDomain, DumpData, OwnInv
    <3> QED BY <1>4, <3>1, <3>2
  <2>2. sim[r] \in 0 .. MaxStarts /\ N[r] \in Cycles
    BY <1>t, <2>1 DEF Tables, DiskType
  <2>3. \/ files' = [files EXCEPT ![N[r]][r].stamp = sim[r]]
        \/ files' = [files EXCEPT ![N[r]][r].dump = sim[r]]
        \/ files' = [files EXCEPT ![N[r]][r].data = sim[r]]
    BY <1>4 DEF WriteStamp, DumpDomain, DumpData
  <2>4. FilesType' /\ \A m \in Cycles : m # N[r] => files'[m] = files[m]
    BY <1>t, <2>2, <2>3, Written DEF DiskType
  <2> QED BY <1>t, <1>u, <2>1, <2>4 DEF DiskType
<1>5. CASE RemoveUnneeded(r)
  BY <1>1, <1>2, <1>5 DEF RemoveUnneeded
<1>6. CASE RemoveOld(r)
  BY <1>2, <1>6 DEF RemoveOld
<1>7. CASE \/ List(r) \/ NextUnneeded(r) \/ LoadState(r) \/ GetValue(r) \/ NothingToLoad(r)
           \/ Compute(r) \/ Export(r) \/ SaveEnds(r)
  BY <1>1, <1>7 DEF List, NextUnneeded, LoadState, GetValue, NothingToLoad, Compute, Export,
                    SaveEnds
<1>8. CASE Removing(r)
  BY <1>8, <1>t, RemovingFiles
<1> QED BY <1>3, <1>4, <1>5, <1>6, <1>7, <1>8 DEF Rank, Removing

\* and a typed state.
LEMMA TypesStep ==
  ASSUME Types, ControlInv, NEW r \in Ranks, Rank(r)
  PROVE  Types'
<1>1. Tables' /\ DiskType' /\ UNCHANGED <<freq, do_restart, starts, torn>>
  BY StepTypes, DiskStep DEF Moves
<1>2. saved' \in Cycles \cup {NoCycle}
  <2>1. CASE SaveEnds(r)
    <3>1. N[r] \in Cycles \cup {NoCycle}
      BY DEF Types
    <3> QED BY <2>1, <3>1 DEF SaveEnds
  <2>2. CASE ~ SaveEnds(r)
    <3>1. saved' = saved
      BY <2>2 DEF Rank, List, RemovingUnneeded, RemovingOld, RemoveUnneeded, NextUnneeded,
                  LoadState, GetValue, NothingToLoad, Compute, Export, SaveState, WriteStamp,
                  DumpDomain, DumpData, RemoveOld, history
    <3> QED BY <3>1 DEF Types
  <2> QED BY <2>1, <2>2
<1> QED BY <1>1, <1>2 DEF Types, Tables, DiskType, FilesType, Contents, Empty

\* What a step leaves on disk of the directories of the ranks that are in a save
LEMMA DirsStay ==
  ASSUME Types, ControlInv, NEW r \in Ranks, Rank(r), NEW b \in Ranks,
         pc[b] \in InSave, N[b] \in dirs
  PROVE  N[b] \in dirs'
<1>t. Tables /\ DiskType /\ CallsInv /\ CyclesInv /\ (\A x \in Ranks : OwnInv(x))
  BY ControlParts DEF Types, Tables, DiskType, FilesType, Contents, Empty
<1>1. CASE RemoveUnneeded(r)
  <2>1. Past(r)
    BY <1>t, AllPast DEF Active
  <2>2. pc[r] = "clearing"
    BY <1>1 DEF RemoveUnneeded
  <2> QED BY <2>1, <2>2 DEF Past, Active, InSave
<1>2. CASE RemoveOld(r)
  <2>1. pc[r] = "dumped" /\ RemoveDirectory(r, N[r] - freq[N[r]])
    BY <1>2 DEF RemoveOld
  <2>2. N[b] = N[r]
    BY <1>t, <2>1, OneCycle
  <2>3. N[b] # N[r] - freq[N[r]]
    <3>1. N[b] \in Int /\ freq[N[r]] \in Nat \ {0}
      BY <1>t, <2>2, CyclesType DEF Types, DiskType
    <3> QED BY <2>2, <3>1
  <2>4. dirs' = IF r = 0 THEN dirs \ {N[r] - freq[N[r]]} ELSE dirs
    BY <1>t, <2>1, RemovedType
  <2> QED BY <2>3, <2>4
<1>3. CASE SaveState(r)
  BY <1>3 DEF SaveState, MakeDirectory
<1>4. CASE \/ List(r) \/ NextUnneeded(r) \/ LoadState(r) \/ GetValue(r)
             \/ NothingToLoad(r) \/ Compute(r)
           \/ Export(r) \/ WriteStamp(r) \/ DumpDomain(r) \/ DumpData(r) \/ SaveEnds(r)
  BY <1>4 DEF List, NextUnneeded, LoadState, GetValue, NothingToLoad, Compute, Export,
              WriteStamp, DumpDomain, DumpData, SaveEnds, disk
<1>5. CASE Removing(r)
  BY <1>5, RemovingFacts
<1> QED BY <1>1, <1>2, <1>3, <1>4, <1>5 DEF Rank, Removing

\* The parts of OwnInv
SavesOwn(r) == pc[r] \in InSave => Saves(N[r]) /\ N[r] \in Cycles
KeepsOwn(r) == pc[r] \in {"dumping", "filling", "dumped", "saving"} => N[r] \in dirs
HoldsOwn(r) == (pc[r] # "down" => torn < starts) /\ (Past(r) => sim[r] # 0)
LoadedOwn(r) == pc[r] \in Active /\ restartdir[r] # NoCycle =>
                  pc[r] = "running" /\ calls[r][left[r]] = "compute"

\* What a rank knows of itself, in the parts that are shown one by one.
LEMMA OwnParts == \A r : OwnInv(r) <=> SavesOwn(r) /\ KeepsOwn(r) /\ HoldsOwn(r) /\ LoadedOwn(r)
  BY DEF OwnInv, SavesOwn, KeepsOwn, HoldsOwn, LoadedOwn

\* A step of one rank takes nothing from what another knows of itself.
LEMMA OwnOthers ==
  ASSUME Types, ControlInv, NEW r \in Ranks, Rank(r), NEW b \in Ranks, b # r
  PROVE  OwnInv(b)'
<1>1. OwnInv(b) /\ SameFor(b) /\ UNCHANGED <<freq, starts, torn>>
  BY ControlParts, StepTypes DEF Moves
<1>2. pc[b] \in {"dumping", "filling", "dumped", "saving"} => N[b] \in dirs'
  BY <1>1, DirsStay DEF OwnInv, InSave
<1>3. (Past(b)' <=> Past(b)) /\ pc'[b] = pc[b] /\ N'[b] = N[b] /\ sim'[b] = sim[b]
      /\ restartdir'[b] = restartdir[b] /\ calls'[b] = calls[b] /\ left'[b] = left[b]
  BY <1>1 DEF SameFor, Past
<1>4. Saves(N[b])' <=> Saves(N[b])
  BY <1>1, <1>3 DEF Saves
<1> QED BY <1>1, <1>2, <1>3, <1>4 DEF OwnInv

\* A rank's own step keeps what it knows of itself.
LEMMA OwnMover ==
  ASSUME Types, ControlInv, ConstructorInv, NEW r \in Ranks, Rank(r)
  PROVE  OwnInv(r)'
<1>t. /\ Tables /\ Tables' /\ UNCHANGED <<freq, starts, torn>>
      /\ CallsInv /\ OwnInv(r)
  BY StepTypes, ControlParts DEF Types, Tables, Moves
<1>r. Removing(r) => SavesOwn(r)' /\ KeepsOwn(r)' /\ HoldsOwn(r)' /\ LoadedOwn(r)'
  <2> SUFFICES ASSUME Removing(r) PROVE OwnInv(r)'
    BY OwnParts DEF SavesOwn, KeepsOwn, HoldsOwn, LoadedOwn, OwnInv
  <2>1. UNCHANGED <<dirs, pc, N, restartdir, sim, calls, left>>
    BY RemovingFacts
  <2>2. (Past(r)' <=> Past(r)) /\ (Saves(N[r])' <=> Saves(N[r]))
    BY <1>t, <2>1 DEF Past, Saves
  <2> QED BY <1>t, <2>1, <2>2 DEF OwnInv
<1>1. SavesOwn(r)'
  <2>1. CASE SaveState(r)
    <3>1. N'[r] = N[r] + 1 /\ Saves(N[r] + 1) /\ N[r] + 1 \in Cycles
      BY <1>t, <2>1, CyclesType DEF SaveState, Tables
    <3>2. Saves(N[r])'
      BY <1>t, <3>1 DEF Saves
    <3> QED BY <3>1, <3>2 DEF SavesOwn
  <2>2. CASE WriteStamp(r) \/ DumpDomain(r) \/ DumpData(r) \/ RemoveOld(r)
    <3>1. N'[r] = N[r] /\ pc[r] \in InSave
      BY <2>2 DEF WriteStamp, DumpDomain, DumpData, RemoveOld, InSave
    <3>2. Saves(N[r]) /\ N[r] \in Cycles
      BY <1>t, <3>1 DEF OwnInv
    <3>3. Saves(N[r])'
      BY <1>t, <3>1, <3>2 DEF Saves
    <3> QED BY <3>1, <3>2, <3>3 DEF SavesOwn
  <2>3. CASE \/ List(r) \/ RemoveUnneeded(r) \/ NextUnneeded(r) \/ LoadState(r)
             \/ GetValue(r) \/ NothingToLoad(r) \/ Compute(r) \/ Export(r) \/ SaveEnds(r)
    <3>1. pc'[r] \notin InSave
      BY <1>t, <2>3 DEF List, RemoveUnneeded, NextUnneeded, LoadState, GetValue, NothingToLoad,
                        Compute, Export, SaveEnds, Goes, InSave, Tables
    <3> QED BY <3>1 DEF SavesOwn
  <2> QED BY <1>r, <2>1, <2>2, <2>3 DEF Rank, Removing
<1>2. KeepsOwn(r)'
  <2>1. CASE WriteStamp(r)
    <3>1. N[r] \in dirs /\ N'[r] = N[r] /\ dirs' = dirs
      BY <1>t, <2>1, MadeFirst DEF WriteStamp
    <3> QED BY <3>1 DEF KeepsOwn
  <2>2. CASE DumpDomain(r) \/ DumpData(r) \/ RemoveOld(r)
    <3>1. N'[r] = N[r] /\ pc[r] \in {"dumping", "filling", "dumped"}
      BY <2>2 DEF DumpDomain, DumpData, RemoveOld
    <3>2. N[r] \in dirs /\ pc[r] \in InSave
      BY <1>t, <3>1 DEF OwnInv, InSave
    <3>3. N[r] \in dirs'
      BY <3>2, DirsStay
    <3> QED BY <3>1, <3>3 DEF KeepsOwn
  <2>3. CASE \/ List(r) \/ RemoveUnneeded(r) \/ NextUnneeded(r) \/ LoadState(r)
             \/ GetValue(r) \/ NothingToLoad(r) \/ Compute(r) \/ Export(r) \/ SaveEnds(r) \/ SaveState(r)
    <3>1. pc'[r] \notin {"dumping", "filling", "dumped", "saving"}
      BY <1>t, <2>3 DEF List, RemoveUnneeded, NextUnneeded, LoadState, GetValue, NothingToLoad,
                        Compute, Export, SaveEnds, SaveState, Goes, Tables
    <3> QED BY <3>1 DEF KeepsOwn
  <2> QED BY <1>r, <2>1, <2>2, <2>3 DEF Rank, Removing
<1>3. HoldsOwn(r)'
  <2>1. pc[r] # "down"
    BY DEF Rank, List, RemovingUnneeded, RemovingOld, RemoveUnneeded, NextUnneeded, LoadState,
           GetValue, NothingToLoad, Compute, Export, SaveState, WriteStamp, DumpDomain, DumpData,
           RemoveOld, SaveEnds
  <2>2. torn' < starts'
    BY <1>t, <2>1 DEF OwnInv
  <2>3. CASE List(r) \/ RemoveUnneeded(r) \/ NextUnneeded(r)
    BY <1>t, <2>2, <2>3 DEF List, RemoveUnneeded, NextUnneeded, Goes, Tables, HoldsOwn, Past,
                            Active, InSave
  <2>4. CASE LoadState(r)
    <3>1. ~ Past(r)'
      BY <1>t, <2>4 DEF LoadState, Goes, Tables, Past, Active, InSave
    <3> QED BY <2>2, <3>1 DEF HoldsOwn
  <2>7. CASE GetValue(r)
    <3>1. pc[r] = "reading" /\ sim'[r] = sim[r]
      BY <2>7 DEF GetValue
    <3>2. Found(r)
      BY <1>t, <3>1, AllConstructing DEF ConstructorInv, Past, Active, InSave, Constructor, Listed
    <3>3. sim'[r] # 0
      BY <3>1, <3>2 DEF Found, LoadableFor
    <3> QED BY <2>2, <3>3 DEF HoldsOwn
  <2>5. CASE NothingToLoad(r)
    <3>1. Found(r)
      <4>1. pc[r] = "clearing"
        BY <2>5 DEF NothingToLoad
      <4> QED BY <1>t, <4>1, AllConstructing DEF ConstructorInv, Past, Active, InSave,
                                                 Constructor, Listed
    <3>2. pc[r] = "clearing" /\ sim'[r] = sim[r]
      BY <2>5 DEF NothingToLoad
    <3>3. sim[r] = starts
      BY <3>1, <3>2 DEF Found
    <3>4. sim'[r] # 0
      BY <1>t, <2>1, <3>2, <3>3 DEF OwnInv, Types
    <3> QED BY <2>2, <3>4 DEF HoldsOwn
  <2>6. CASE \/ Compute(r) \/ Export(r) \/ SaveState(r) \/ WriteStamp(r) \/ DumpDomain(r) \/ DumpData(r)
             \/ RemoveOld(r) \/ SaveEnds(r)
    <3>1. Past(r) /\ sim'[r] = sim[r]
      BY <2>6 DEF Compute, Export, SaveState, WriteStamp, DumpDomain, DumpData, RemoveOld,
                  SaveEnds, Past, Active, InSave
    <3> QED BY <1>t, <2>2, <3>1 DEF OwnInv, HoldsOwn
  <2> QED BY <1>r, <2>3, <2>4, <2>5, <2>6, <2>7 DEF Rank, Removing
<1>4. LoadedOwn(r)'
  <2>1. CASE Compute(r)
    <3>1. pc[r] = "computing" /\ pc'[r] = "running" /\ left'[r] = left[r] + 1 /\ calls'[r] = calls[r]
      BY <1>t, <2>1 DEF Compute, Returns, Goes, Tables
    <3>2. calls[r][left[r] + 1] = "compute"
      BY <1>t, <3>1, Counted DEF KindAt
    <3> QED BY <3>1, <3>2 DEF LoadedOwn
  <2>2. CASE Export(r) \/ SaveState(r)
    BY <1>t, <2>2 DEF Export, SaveState, LoadedOwn, Tables
  <2>3. CASE WriteStamp(r) \/ DumpDomain(r) \/ DumpData(r) \/ RemoveOld(r) \/ SaveEnds(r)
    <3>1. pc[r] \in InSave /\ restartdir'[r] = restartdir[r]
      BY <2>3 DEF WriteStamp, DumpDomain, DumpData, RemoveOld, SaveEnds, InSave
    <3> QED BY <1>t, <3>1 DEF OwnInv, LoadedOwn, InSave, Active
  <2>4. CASE \/ List(r) \/ RemoveUnneeded(r) \/ NextUnneeded(r) \/ LoadState(r) \/ GetValue(r)
             \/ NothingToLoad(r)
    <3>1. pc'[r] \notin Active
      BY <1>t, <2>4 DEF List, RemoveUnneeded, NextUnneeded, LoadState, GetValue, NothingToLoad,
                        Goes, Active, InSave, Tables
    <3> QED BY <3>1 DEF LoadedOwn
  <2> QED BY <1>r, <2>1, <2>2, <2>3, <2>4 DEF Rank, Removing
<1> QED BY <1>1, <1>2, <1>3, <1>4, OwnParts DEF SavesOwn, KeepsOwn, HoldsOwn, LoadedOwn, OwnInv

\* Every step keeps the control invariant.
LEMMA ControlStep ==
  ASSUME Types, ControlInv, ConstructorInv, NEW r \in Ranks, Rank(r)
  PROVE  ControlInv'
<1>t. /\ Tables /\ Tables' /\ \A b \in Ranks : b # r => SameFor(b)
  BY StepTypes DEF Types, Tables, Moves
<1>1. CallsInv' /\ CyclesInv' /\ \A x \in Ranks : OwnInv(x)'
  BY CallsStep, CyclesStep, OwnOthers, OwnMover, ControlParts
<1>2. pc[r] # "down" /\ pc'[r] # "down"
  BY <1>t DEF Rank, List, RemovingUnneeded, RemovingOld, RemoveUnneeded, NextUnneeded, LoadState,
              GetValue, NothingToLoad, Compute, Export, SaveState, WriteStamp, DumpDomain,
              DumpData, RemoveOld, SaveEnds, Goes, Tables
<1>3. \A a, b \in Ranks : pc'[a] = "down" => pc'[b] = "down"
  <2>1. \A a \in Ranks : pc[a] # "down"
    BY <1>2, ControlParts
  <2>2. \A a \in Ranks : pc'[a] # "down"
    BY <1>t, <1>2, <2>1 DEF SameFor
  <2> QED BY <2>2
<1>4. pc'[0] = "making" => N'[0] \in dirs'
  <2> SUFFICES ASSUME pc'[0] = "making" PROVE N'[0] \in dirs'
    OBVIOUS
  <2>1. CASE r = 0
    <3>1. SaveState(0)
      BY <1>t, <2>1, RankFacts DEF Rank, List, RemovingUnneeded, RemovingOld, RemoveUnneeded,
                                   NextUnneeded, LoadState, GetValue, NothingToLoad, Compute,
                                   Export, WriteStamp, DumpDomain, DumpData, RemoveOld, SaveEnds,
                                   Goes, Tables
    <3> QED BY <1>t, <2>1, <3>1 DEF SaveState, MakeDirectory, Tables
  <2>2. CASE r # 0
    <3>1. 0 \in Ranks /\ pc[0] = "making" /\ N'[0] = N[0]
      BY <1>t, <2>2, RankFacts DEF SameFor
    <3>2. N[0] \in dirs
      BY <3>1, ControlParts
    <3> QED BY <3>1, <3>2, DirsStay DEF InSave
  <2> QED BY <2>1, <2>2
<1> QED BY <1>1, <1>3, <1>4, ControlParts DEF ControlInv, RankInv, CallsInv, CyclesInv, OwnInv

-----------------------------------------------------------------------------
(* The constructor                                                         *)

\* What a rank found to load stays what it is while others move and leave it there.
LEMMA FoundStays ==
  ASSUME NEW b, Found(b), SameFor(b), UNCHANGED <<dirs, do_restart, starts>>,
         pc[b] \in {"reading", "computing"} /\ restartdir[b] # NoCycle =>
           files'[restartdir[b]] = files[restartdir[b]]
  PROVE  Found(b)'
  BY DEF Found, SameFor, LoadableFor, WholeFor

\* What rank 0 still has to remove of the directories on disk
TodoInv ==
  pc[0] \in Listed =>
    /\ \A n \in ToSet(todo[0]) : restartdir[0] # NoCycle => n < restartdir[0]
    /\ ToSet(todo[0]) \subseteq dirs
    /\ \A i, j \in 1 .. Len(todo[0]) : i < j => todo[0][i] < todo[0][j]
    /\ InPlace => dirs \subseteq ToSet(todo[0]) \cup {restartdir[0]}

AllIn(places) == \A r \in Ranks : pc[r] \in places

\* The constructor's invariant in the parts that are shown one by one.
LEMMA ConstructorParts ==
  ConstructorInv <=> (AllIn(Constructor) => /\ \A r \in Ranks : Found(r)
                                            /\ TodoInv
                                            /\ ~ do_restart => saved = NoCycle)
  BY DEF ConstructorInv, TodoInv, AllIn

\* A rank that lists the directories finds the newest; rank 0 puts the others
\* on its list of those to remove.
LEMMA ListedNewest ==
  ASSUME Types, NEW r \in Ranks, List(r), Found(r), Tables', Moves(r)
  PROVE  Found(r)' /\ (r = 0 => TodoInv')
<1> DEFINE folders == Sorted(dirs)
<1>1. /\ pc[r] = "listing" /\ restartdir[r] = NoCycle /\ N[r] = NoCycle /\ sim[r] = starts
  BY DEF List, Found
<1>2. /\ pc'[r] = "clearing" /\ N'[r] = N[r] /\ sim'[r] = sim[r]
      /\ UNCHANGED <<dirs, files, do_restart, starts>>
  BY DEF List, Goes, Types, Moves, disk
<1>3. dirs \in SUBSET Cycles
  BY DEF Types
<1>4. folders = << >> <=> dirs = {}
  BY <1>3, NothingSorted
<1>5. CASE do_restart /\ folders # << >>
  <2>1. restartdir'[r] = Last(folders) /\ todo'[r] = Front(folders)
    BY <1>5 DEF List, Types
  <2>2. /\ Last(folders) \in dirs /\ (\A n \in dirs : n <= Last(folders))
        /\ \A n \in ToSet(Front(folders)) : n < Last(folders)
        /\ dirs \subseteq ToSet(Front(folders)) \cup {Last(folders)}
        /\ ToSet(Front(folders)) \subseteq dirs
        /\ \A i, j \in 1 .. Len(Front(folders)) : i < j => Front(folders)[i] < Front(folders)[j]
    BY <1>3, <1>5, NewestIsLast
  <2> HIDE DEF folders
  <2>3. Found(r)'
    <3>1. Last(folders) # NoCycle
      BY <1>3, <2>2, RankFacts DEF NoCycle
    <3> QED BY <1>1, <1>2, <1>5, <2>1, <2>2, <3>1 DEF Found
  <2>4. r = 0 => TodoInv'
    BY <1>2, <2>1, <2>2 DEF TodoInv
  <2> QED BY <2>3, <2>4
<1>6. CASE ~ (do_restart /\ folders # << >>)
  <2>1. restartdir'[r] = NoCycle /\ todo'[r] = folders
    BY <1>1, <1>6 DEF List, Types
  <2>2. /\ \A n \in dirs : n \in ToSet(folders)
        /\ ToSet(folders) \subseteq dirs
        /\ \A i, j \in 1 .. Len(folders) : i < j => folders[i] < folders[j]
    <3>1. /\ \A n \in dirs : \E i \in 1 .. Len(folders) : n = folders[i]
          /\ DOMAIN folders = 1 .. Len(folders)
          /\ \A i \in 1 .. Len(folders) : folders[i] \in dirs
          /\ \A i, j \in 1 .. Len(folders) : i < j => folders[i] < folders[j]
      BY <1>3, SortedFacts
    <3> HIDE DEF folders
    <3> QED BY <3>1 DEF ToSet
  <2> HIDE DEF folders
  <2>3. Found(r)'
    BY <1>1, <1>2, <1>4, <1>6, <2>1 DEF Found
  <2>4. r = 0 => TodoInv'
    BY <1>2, <2>1, <2>2 DEF TodoInv
  <2> QED BY <2>3, <2>4
<1> QED BY <1>5, <1>6

\* A list's members are its first and those of the rest.
LEMMA HeadAndTail ==
  ASSUME NEW s \in Seq(Cycles), s # << >>
  PROVE  /\ Head(s) \in ToSet(s) /\ ToSet(Tail(s)) \subseteq ToSet(s)
         /\ ToSet(s) \subseteq ToSet(Tail(s)) \cup {Head(s)}
<1>1. /\ Len(s) \in Nat \ {0} /\ DOMAIN s = 1 .. Len(s) /\ Head(s) = s[1]
      /\ Len(Tail(s)) = Len(s) - 1 /\ DOMAIN Tail(s) = 1 .. Len(s) - 1
  OBVIOUS
<1>2. \A i \in 1 .. Len(s) - 1 : Tail(s)[i] = s[i + 1]
  OBVIOUS
<1>3. Head(s) \in {s[i] : i \in DOMAIN s}
  BY <1>1
<1>4. {Tail(s)[i] : i \in DOMAIN Tail(s)} \subseteq {s[i] : i \in DOMAIN s}
  BY <1>1, <1>2
<1>5. {s[i] : i \in DOMAIN s} \subseteq {Tail(s)[i] : i \in DOMAIN Tail(s)} \cup {Head(s)}
  <2> SUFFICES ASSUME NEW i \in 1 .. Len(s)
               PROVE  s[i] = Head(s) \/ \E j \in 1 .. Len(s) - 1 : Tail(s)[j] = s[i]
    BY <1>1
  <2>1. CASE i = 1
    BY <1>1, <2>1
  <2>2. CASE i # 1
    <3>1. i - 1 \in 1 .. Len(s) - 1 /\ i - 1 + 1 = i
      BY <1>1, <2>2
    <3>2. Tail(s)[i - 1] = s[i]
      BY <1>2, <3>1
    <3> QED BY <3>1, <3>2
  <2> QED BY <2>1, <2>2
<1> QED BY <1>3, <1>4, <1>5 DEF ToSet

\* In a list in order the first is less than the rest, which is in order.
LEMMA TailInOrder ==
  ASSUME NEW s \in Seq(Cycles), s # << >>, \A i, j \in 1 .. Len(s) : i < j => s[i] < s[j]
  PROVE  /\ \A n \in ToSet(Tail(s)) : Head(s) < n
         /\ \A i, j \in 1 .. Len(Tail(s)) : i < j => Tail(s)[i] < Tail(s)[j]
<1>1. /\ Len(s) \in Nat \ {0} /\ Head(s) = s[1]
      /\ Len(Tail(s)) = Len(s) - 1 /\ DOMAIN Tail(s) = 1 .. Len(s) - 1
  OBVIOUS
<1>2. \A i \in 1 .. Len(s) - 1 : Tail(s)[i] = s[i + 1] /\ i + 1 \in 1 .. Len(s) /\ 1 < i + 1
  OBVIOUS
<1>3. \A i \in 1 .. Len(s) - 1 : Head(s) < Tail(s)[i]
  BY <1>1, <1>2
<1>4. \A i, j \in 1 .. Len(s) - 1 : i < j => i + 1 < j + 1
  BY <1>1
<1>5. \A i, j \in 1 .. Len(s) - 1 : i < j => Tail(s)[i] < Tail(s)[j]
  BY <1>2, <1>4
<1> QED BY <1>1, <1>3, <1>5 DEF ToSet

\* While rank 0 is removing a directory, what the ranks found to load stays as it is.
LEMMA RemovingFound ==
  ASSUME NEW r \in Ranks, RemovingUnneeded(r), Types, AllIn(Constructor),
         \A b \in Ranks : Found(b), TodoInv
  PROVE  (\A b \in Ranks : Found(b)') /\ TodoInv'
<1>1. Removing(r) /\ DiskType /\ pc[r] = "clearing"
  BY DEF Removing, RemovingUnneeded, Types, DiskType, FilesType, Contents, Empty
<1>2. /\ \A b \in Ranks : SameFor(b)
      /\ UNCHANGED <<dirs, pc, do_restart, restartdir, todo, starts>>
  BY <1>1, RemovingFacts
<1>3. PICK n \in dirs : /\ r = 0
                        /\ \/ pc[0] = "clearing" /\ todo[0] # << >> /\ InPlace /\ n = Head(todo[0])
                           \/ pc[0] = "dumped" /\ n = N[0] - freq[N[0]]
                        /\ \A m \in Cycles : m # n => files'[m] = files[m]
  BY <1>1, RemovingFiles
<1>4. pc[0] \in Listed /\ 0 \in Ranks /\ n \in ToSet(todo[0])
  <2>1. todo[0] \in Seq(Cycles) /\ 0 \in Ranks
    BY RankFacts DEF Types
  <2> QED BY <1>1, <1>3, <2>1, HeadAndTail DEF Listed
<1>5. restartdir[0] # NoCycle => n # restartdir[0]
  <2> SUFFICES ASSUME restartdir[0] # NoCycle PROVE n # restartdir[0]
    OBVIOUS
  <2>1. n < restartdir[0] /\ restartdir[0] \in Nat
    BY <1>4, RankFacts DEF TodoInv, Types
  <2> QED BY <2>1
<1>6. ASSUME NEW b \in Ranks PROVE Found(b)'
  <2>1. ASSUME pc[b] \in {"reading", "computing"}, restartdir[b] # NoCycle
        PROVE  files'[restartdir[b]] = files[restartdir[b]]
    <3>1. restartdir[b] = restartdir[0] /\ restartdir[b] \in Cycles
      BY <1>4, <2>1, FoundTogether DEF Listed, Types
    <3> QED BY <1>3, <1>5, <2>1, <3>1
  <2> QED BY <1>2, <2>1, FoundStays
<1> QED BY <1>2, <1>6 DEF TodoInv

\* A directory that rank 0 removes on start is older than the one found.
LEMMA UnneededRemoved ==
  ASSUME NEW r \in Ranks, RemoveUnneeded(r), Types, Tables', Moves(r), AllIn(Constructor),
         \A b \in Ranks : Found(b), TodoInv
  PROVE  /\ \A b \in Ranks : Found(b)'
         /\ TodoInv'
         /\ do_restart => \A n \in dirs : \E m \in dirs' : n <= m
<1>1. /\ pc[r] = "clearing" /\ todo[r] # << >> /\ todo'[r] = Tail(todo[r])
      /\ pc'[r] = "cleared" /\ N'[r] = N[r] /\ sim'[r] = sim[r] /\ restartdir'[r] = restartdir[r]
      /\ UNCHANGED <<do_restart, starts>>
  BY DEF RemoveUnneeded, Goes, Types, Moves
<1>2. todo[r] \in Seq(Cycles)
  BY DEF Types
<1>3. /\ Head(todo[r]) \in ToSet(todo[r]) /\ ToSet(todo'[r]) \subseteq ToSet(todo[r])
      /\ ToSet(todo[r]) \subseteq ToSet(todo'[r]) \cup {Head(todo[r])}
  BY <1>1, <1>2, HeadAndTail
<1>d. /\ r = 0 => \A i, j \in 1 .. Len(todo[r]) : i < j => todo[r][i] < todo[r][j]
      /\ r = 0 => \A i, j \in 1 .. Len(todo'[r]) : i < j => todo'[r][i] < todo'[r][j]
      /\ r = 0 => \A n \in ToSet(todo'[r]) : Head(todo[r]) < n
  <2> SUFFICES ASSUME r = 0
               PROVE  /\ \A i, j \in 1 .. Len(todo[r]) : i < j => todo[r][i] < todo[r][j]
                      /\ \A i, j \in 1 .. Len(todo'[r]) : i < j => todo'[r][i] < todo'[r][j]
                      /\ \A n \in ToSet(todo'[r]) : Head(todo[r]) < n
    OBVIOUS
  <2>1. \A i, j \in 1 .. Len(todo[r]) : i < j => todo[r][i] < todo[r][j]
    BY <1>1 DEF TodoInv, Listed
  <2> QED BY <1>1, <1>2, <2>1, TailInOrder
<1>4. CASE UNCHANGED disk
  <2>1. \A b \in Ranks : Found(b)'
    <3>1. Found(r)'
      BY <1>1, <1>4 DEF Found, disk, Listed
    <3> QED BY <1>1, <1>4, <3>1, FoundStays DEF Moves, disk
  <2>2. dirs' = dirs
    BY <1>4 DEF disk
  <2>3. CASE r # 0
    <3>1. pc'[0] = pc[0] /\ todo'[0] = todo[0] /\ restartdir'[0] = restartdir[0]
      BY <2>3, RankFacts DEF Moves, SameFor
    <3>2. TodoInv'
      BY <2>2, <3>1 DEF TodoInv
    <3>3. \A n \in dirs : n <= n
      BY RankFacts DEF Types
    <3> QED BY <2>1, <2>2, <3>2, <3>3
  <2>4. CASE r = 0
    <3>1. (0 \in dirs \/ 0 \notin dirs) /\ pc[0] \in Listed
      BY <1>1, <2>4 DEF Listed
    <3>2. InPlace => Head(todo[0]) \notin dirs
      BY <1>4, <2>4 DEF RemoveUnneeded, RemoveDirectory, disk
    <3>3. TodoInv'
      BY <1>1, <1>3, <1>d, <2>2, <2>4, <3>1, <3>2 DEF TodoInv
    <3>4. \A n \in dirs : n <= n
      BY RankFacts DEF Types
    <3> QED BY <2>1, <2>2, <3>3, <3>4
  <2> QED BY <2>3, <2>4
<1>5. CASE InPlace /\ r = 0 /\ RemoveDirectory(r, Head(todo[r]))
  <2> DEFINE h == Head(todo[0])
  <2>1. DiskType /\ (\A m \in dirs' : files'[m] = files[m]) /\ dirs' = dirs \ {h}
    BY <1>5, RemovedType DEF Types, DiskType, FilesType, Contents, Empty
  <2> HIDE DEF h
  <2>2. pc[0] \in Listed /\ 0 \in Ranks
    BY <1>1, <1>5 DEF Listed
  <2>3. restartdir[0] # NoCycle => h < restartdir[0] /\ h \in Nat /\ restartdir[0] \in Nat
    BY <1>2, <1>3, <1>5, <2>2, RankFacts DEF TodoInv, ToSet, Types, h
  <2>4. ASSUME NEW b \in Ranks PROVE Found(b)'
    <3>1. /\ Found(b) /\ N'[b] = N[b] /\ sim'[b] = sim[b] /\ restartdir'[b] = restartdir[b]
          /\ pc'[b] = pc[b] \/ (b = 0 /\ pc'[b] = "cleared")
          /\ b # 0 => todo'[b] = todo[b]
      BY <1>1, <1>5 DEF Moves, SameFor
    <3>2. pc'[b] \in Listed => pc[b] \in Listed
      BY <2>2, <3>1
    <3>3. pc[b] \in Listed => restartdir[b] = restartdir[0]
      BY <2>2, FoundTogether
    <3>4. pc'[b] \in Listed => IF do_restart
            THEN IF restartdir[b] = NoCycle THEN dirs' = {}
                 ELSE restartdir[b] \in dirs' /\ \A n \in dirs' : n <= restartdir[b]
            ELSE restartdir[b] = NoCycle
      <4> SUFFICES ASSUME pc'[b] \in Listed PROVE IF do_restart
            THEN IF restartdir[b] = NoCycle THEN dirs' = {}
                 ELSE restartdir[b] \in dirs' /\ \A n \in dirs' : n <= restartdir[b]
            ELSE restartdir[b] = NoCycle
        OBVIOUS
      <4>1. restartdir[b] # NoCycle => restartdir[b] # h
        BY <2>3, <3>2, <3>3
      <4> QED BY <2>1, <3>1, <3>2, <4>1 DEF Found
    <3>5. pc'[b] = "listing" => pc[b] = "listing"
      BY <3>1
    <3>6. pc'[b] \in {"listing", "clearing", "cleared"} => N[b] = NoCycle /\ sim[b] = starts
      BY <1>1, <1>5, <3>1 DEF Found
    <3>7. pc'[b] \in {"reading", "computing"} => pc[b] = pc'[b] /\ b # 0
      BY <1>1, <1>5, <3>1
    <3>8. ASSUME pc[b] \in {"reading", "computing"}, restartdir[b] # NoCycle
          PROVE  files'[N[b]] = files[N[b]]
      <4>1. pc[b] \in Listed /\ N[b] = restartdir[b] /\ restartdir[b] \in dirs
        BY <3>1, <3>8 DEF Found, Listed
      <4>2. restartdir[b] # h
        BY <2>3, <3>3, <3>8, <4>1
      <4> QED BY <2>1, <4>1, <4>2
    <3>9. CASE pc'[b] \in {"reading", "computing"}
      <4>1. /\ pc[b] = pc'[b] /\ N[b] = restartdir[b] /\ todo'[b] = << >>
            /\ IF restartdir[b] = NoCycle THEN sim[b] = starts
               ELSE LoadableFor(N[b], b) /\ sim[b] = files[N[b]][b].stamp
            /\ pc[b] = "reading" => restartdir[b] # NoCycle
            /\ pc[b] = "computing" /\ restartdir[b] # NoCycle => WholeFor(N[b], b)
        BY <3>1, <3>7, <3>9 DEF Found
      <4>2. /\ IF restartdir[b] = NoCycle THEN sim[b] = starts
               ELSE LoadableFor(N[b], b)' /\ sim[b] = files'[N[b]][b].stamp
            /\ pc[b] = "computing" /\ restartdir[b] # NoCycle => WholeFor(N[b], b)'
        BY <3>1, <3>8, <3>9, <4>1 DEF LoadableFor, WholeFor
      <4> QED BY <1>1, <3>1, <3>4, <3>9, <4>1, <4>2 DEF Found
    <3>10. CASE pc'[b] \notin {"reading", "computing"}
      BY <1>1, <3>1, <3>4, <3>5, <3>6, <3>10 DEF Found
    <3> QED BY <3>9, <3>10
  <2>5. TodoInv'
    <3>1. pc[0] \in Listed /\ restartdir'[0] = restartdir[0]
      BY <1>1, <1>5, <2>2
    <3>2. \A n \in ToSet(todo'[0]) : restartdir[0] # NoCycle => n < restartdir[0]
      BY <1>3, <1>5, <3>1 DEF TodoInv
    <3>3. dirs' \subseteq ToSet(todo'[0]) \cup {restartdir[0]}
      BY <1>3, <1>5, <2>1, <3>1 DEF TodoInv, h
    <3>4. ToSet(todo'[0]) \subseteq dirs'
      <4>1. ToSet(todo[0]) \subseteq dirs /\ dirs \subseteq Nat
        BY <3>1, RankFacts DEF TodoInv, Types
      <4>2. \A n \in ToSet(todo'[0]) : n \in Nat /\ h < n /\ h \in Nat
        BY <1>3, <1>5, <1>d, <4>1 DEF h
      <4> QED BY <1>3, <1>5, <2>1, <4>1, <4>2
    <3> QED BY <1>5, <1>d, <3>1, <3>2, <3>3, <3>4 DEF TodoInv
  <2>6. do_restart => \A n \in dirs : \E m \in dirs' : n <= m
    <3> SUFFICES ASSUME do_restart, NEW n \in dirs PROVE \E m \in dirs' : n <= m
      OBVIOUS
    <3>1. restartdir[0] \in dirs /\ n <= restartdir[0] /\ restartdir[0] # NoCycle
      BY <2>2 DEF Found
    <3>2. restartdir[0] \in dirs'
      BY <2>1, <2>3, <3>1
    <3> QED BY <3>1, <3>2
  <2> QED BY <2>4, <2>5, <2>6
<1>6. CASE InPlace /\ r # 0 /\ RemoveDirectory(r, Head(todo[r]))
  BY <1>4, <1>6 DEF RemoveDirectory
<1> QED BY <1>4, <1>5, <1>6 DEF RemoveUnneeded

\* A rank that loads, or has nothing to load, has what it found.
LEMMA LoadedFound ==
  ASSUME NEW r \in Ranks, LoadState(r) \/ GetValue(r) \/ NothingToLoad(r),
         Types, Tables', Moves(r), Found(r)
  PROVE  Found(r)'
<1>1. /\ restartdir' = restartdir /\ todo' = todo /\ UNCHANGED <<dirs, files, do_restart, starts>>
      /\ pc[r] \in Listed /\ pc'[r] \in Listed
  BY DEF LoadState, GetValue, NothingToLoad, Listed, Moves, disk, Goes, Types
<1>2. CASE LoadState(r)
  <2>1. pc[r] = "clearing" /\ todo[r] = << >> /\ restartdir[r] # NoCycle
    BY <1>2 DEF LoadState
  <2>2. CASE pc'[r] = "reading" /\ N'[r] = restartdir[r] /\ LoadableFor(N'[r], r)
             /\ sim'[r] = files[restartdir[r]][r].stamp
    BY <1>1, <2>1, <2>2 DEF Found, LoadableFor
  <2>3. CASE pc'[r] = "failed"
    BY <1>1, <2>3 DEF Found
  <2> QED BY <1>2, <2>2, <2>3 DEF LoadState, Goes, Types, LoadableFor
<1>3. CASE GetValue(r)
  <2>1. /\ pc[r] = "reading" /\ N[r] = restartdir[r] /\ restartdir[r] # NoCycle /\ todo[r] = << >>
        /\ LoadableFor(N[r], r) /\ sim[r] = files[N[r]][r].stamp /\ N' = N /\ sim' = sim
    BY <1>3 DEF GetValue, Found
  <2>2. CASE pc'[r] = "computing" /\ files[restartdir[r]][r].data # 0
    BY <1>1, <2>1, <2>2 DEF Found, LoadableFor, WholeFor
  <2>3. CASE pc'[r] = "failed"
    BY <1>1, <2>3 DEF Found
  <2> QED BY <1>3, <2>2, <2>3 DEF GetValue, Goes, Types
<1>4. CASE NothingToLoad(r)
  <2>1. /\ pc[r] = "clearing" /\ pc'[r] = "computing" /\ restartdir[r] = NoCycle
        /\ todo[r] = << >> /\ N' = N /\ sim' = sim
    BY <1>4 DEF NothingToLoad, Goes, Types
  <2> QED BY <1>1, <2>1 DEF Found
<1> QED BY <1>2, <1>3, <1>4

\* Every step keeps the constructor's invariant.
LEMMA ConstructorStep ==
  ASSUME Types, ControlInv, ConstructorInv, NEW r \in Ranks, Rank(r)
  PROVE  ConstructorInv'
<1> SUFFICES ASSUME AllIn(Constructor)'
             PROVE  /\ \A b \in Ranks : Found(b)'
                    /\ TodoInv'
                    /\ ~ do_restart' => saved' = NoCycle
  BY DEF ConstructorInv, TodoInv, AllIn
<1>t. Tables /\ Tables' /\ Moves(r) /\ pc'[r] \in Constructor
  BY StepTypes DEF Types, Tables, AllIn
<1>1. \/ List(r) \/ RemovingUnneeded(r) \/ RemoveUnneeded(r) \/ NextUnneeded(r)
      \/ LoadState(r) \/ GetValue(r) \/ NothingToLoad(r)
  BY <1>t DEF Rank, Compute, Export, SaveState, WriteStamp, DumpDomain, DumpData, RemovingOld,
              RemoveOld, SaveEnds, Goes, Tables, Constructor, Listed
<1>2. AllIn(Constructor)
  <2>1. pc[r] \in Constructor
    BY <1>1 DEF List, RemovingUnneeded, RemoveUnneeded, NextUnneeded, LoadState, GetValue,
                NothingToLoad, Constructor, Listed
  <2> QED BY <1>t, <2>1 DEF AllIn, Moves, SameFor
<1>3. /\ \A b \in Ranks : Found(b)
      /\ TodoInv
      /\ ~ do_restart => saved = NoCycle
  BY <1>2, ConstructorParts
<1>4. ~ do_restart' => saved' = NoCycle
  <2>1. saved' = saved /\ do_restart' = do_restart
    BY <1>1, <1>t DEF List, RemovingUnneeded, RemoveUnneeded, NextUnneeded, LoadState, GetValue,
                      NothingToLoad, history, Moves
  <2> QED BY <1>3, <2>1
<1>5. CASE RemoveUnneeded(r)
  BY <1>2, <1>3, <1>4, <1>5, <1>t, UnneededRemoved
<1>6. CASE RemovingUnneeded(r)
  BY <1>2, <1>3, <1>4, <1>6, RemovingFound
<1>7. CASE ~ RemoveUnneeded(r) /\ ~ RemovingUnneeded(r)
  <2>1. UNCHANGED <<disk, do_restart, starts>>
    BY <1>1, <1>7, <1>t DEF List, NextUnneeded, LoadState, GetValue, NothingToLoad, Moves
  <2>2. Found(r)' /\ (r = 0 => TodoInv')
    <3>1. CASE List(r)
      BY <1>3, <1>t, <3>1, ListedNewest
    <3>2. CASE NextUnneeded(r)
      <4>1. /\ pc[r] = "cleared" /\ pc'[r] = "clearing"
            /\ UNCHANGED <<N, sim, restartdir, todo, dirs, files>>
        BY <1>t, <3>2 DEF NextUnneeded, Goes, Tables, disk
      <4>2. Found(r)'
        BY <1>3, <2>1, <4>1 DEF Found, Listed
      <4>3. r = 0 => TodoInv'
        BY <1>3, <4>1 DEF TodoInv, Listed
      <4> QED BY <4>2, <4>3
    <3>3. CASE LoadState(r) \/ GetValue(r) \/ NothingToLoad(r)
      <4>1. Found(r)'
        BY <1>3, <1>t, <3>3, LoadedFound
      <4>2. pc[r] \in Listed /\ UNCHANGED <<restartdir, todo, dirs>>
        BY <3>3 DEF LoadState, GetValue, NothingToLoad, disk, Listed
      <4>3. r = 0 => TodoInv'
        BY <1>3, <4>2 DEF TodoInv, Listed
      <4> QED BY <4>1, <4>3
    <3> QED BY <1>1, <1>7, <3>1, <3>2, <3>3
  <2>3. \A b \in Ranks : Found(b)'
    BY <1>3, <1>t, <2>1, <2>2, FoundStays DEF Moves, disk
  <2>4. r # 0 => TodoInv'
    <3> SUFFICES ASSUME r # 0 PROVE TodoInv'
      OBVIOUS
    <3>1. pc'[0] = pc[0] /\ todo'[0] = todo[0] /\ restartdir'[0] = restartdir[0] /\ dirs' = dirs
      BY <1>t, <2>1, RankFacts DEF Moves, SameFor, disk
    <3> QED BY <1>3, <3>1 DEF TodoInv
  <2> QED BY <1>4, <2>2, <2>3, <2>4
<1> QED BY <1>5, <1>6, <1>7

-----------------------------------------------------------------------------
(* The last finished checkpoint                                            *)

\* No step removes the last of what is as new as the last finished checkpoint.
LEMMA SavedStep ==
  ASSUME Types, ControlInv, ConstructorInv, SavedKept, NEW r \in Ranks, Rank(r)
  PROVE  SavedKept'
<1>t. /\ Tables /\ Tables' /\ Moves(r) /\ DiskType /\ dirs \subseteq Cycles
      /\ CallsInv /\ CyclesInv /\ (\A x \in Ranks : OwnInv(x))
  BY StepTypes, ControlParts DEF Types, Tables, DiskType, FilesType, Contents, Empty
<1>n. \A n \in dirs : n \in Nat
  BY <1>t, RankFacts
<1>s. saved \in Cycles \cup {NoCycle} /\ (saved # NoCycle => saved \in Nat)
  BY RankFacts DEF Types
<1>1. CASE SaveEnds(r)
  <2>1. N[r] \in dirs' /\ saved' = N[r] /\ N[r] \in Nat
    BY <1>1, <1>n, <1>t DEF SaveEnds, OwnInv, disk
  <2>2. N[r] >= N[r]
    BY <2>1
  <2> QED BY <2>1, <2>2 DEF SavedKept
<1>2. CASE ~ SaveEnds(r)
  <2>1. saved' = saved
    BY <1>2 DEF Rank, List, RemovingUnneeded, RemovingOld, RemoveUnneeded, NextUnneeded,
                LoadState, GetValue, NothingToLoad, Compute, Export, SaveState, WriteStamp,
                DumpDomain, DumpData, RemoveOld, history
  <2>2. ASSUME \A n \in dirs : \E m \in dirs' : n <= m, DiskType' PROVE SavedKept'
    <3> SUFFICES ASSUME saved # NoCycle PROVE \E m \in dirs' : m >= saved
      BY <2>1 DEF SavedKept
    <3>1. PICK n \in dirs : n >= saved
      BY DEF SavedKept
    <3>2. PICK m \in dirs' : n <= m
      BY <2>2
    <3>3. m \in Nat /\ n \in Nat /\ saved \in Nat
      BY <1>n, <1>s, <2>2, <3>2, RankFacts DEF DiskType
    <3>4. m >= saved
      BY <3>1, <3>2, <3>3
    <3> QED BY <3>4
  <2>d. DiskType'
    BY DiskStep
  <2>3. CASE RemoveUnneeded(r)
    <3>1. AllIn(Constructor)
      BY <1>t, <2>3, AllConstructing DEF RemoveUnneeded, AllIn, Past, Active, InSave,
                                         Constructor, Listed
    <3>2. /\ \A b \in Ranks : Found(b)
          /\ TodoInv
          /\ ~ do_restart => saved = NoCycle
      BY <3>1, ConstructorParts
    <3>3. CASE ~ do_restart
      BY <2>1, <3>2, <3>3 DEF SavedKept
    <3>4. CASE do_restart
      <4>1. \A n \in dirs : \E m \in dirs' : n <= m
        BY <1>t, <2>3, <3>1, <3>2, <3>4, UnneededRemoved
      <4> QED BY <2>2, <2>d, <4>1
    <3> QED BY <3>3, <3>4
  <2>4. CASE RemoveOld(r)
    <3>1. dirs' = IF r = 0 THEN dirs \ {N[r] - freq[N[r]]} ELSE dirs
      BY <1>t, <2>4, RemovedType DEF RemoveOld
    <3>2. N[r] \in dirs /\ freq[N[r]] \in Nat \ {0}
      BY <1>t, <2>4 DEF RemoveOld, OwnInv, Types
    <3>3. N[r] \in Nat /\ N[r] # N[r] - freq[N[r]] /\ N[r] - freq[N[r]] <= N[r]
      BY <1>n, <3>2
    <3>4. \A n \in dirs : \E m \in dirs' : n <= m
      <4> SUFFICES ASSUME NEW n \in dirs PROVE \E m \in dirs' : n <= m
        OBVIOUS
      <4>1. n <= n /\ n \in Nat
        BY <1>n
      <4> QED BY <3>1, <3>2, <3>3, <4>1
    <3> QED BY <2>2, <2>d, <3>4
  <2>5. CASE ~ RemoveUnneeded(r) /\ ~ RemoveOld(r)
    <3>1. dirs \subseteq dirs'
      BY <1>2, <2>5 DEF Rank, List, RemovingUnneeded, RemovingOld, NextUnneeded, LoadState,
                        GetValue, NothingToLoad, Compute, Export, SaveState, WriteStamp,
                        DumpDomain, DumpData, MakeDirectory, disk
    <3>2. \A n \in dirs : n <= n
      BY <1>n
    <3> QED BY <2>2, <2>d, <3>1, <3>2
  <2> QED BY <2>3, <2>4, <2>5
<1> QED BY <1>1, <1>2

-----------------------------------------------------------------------------
(* Checkpoint frequencies                                                  *)

\* Multiplication keeps the order of numbers.
LEMMA TimesMonotone ==
  ASSUME NEW a \in Int, NEW b \in Int, NEW q \in Nat, a <= b
  PROVE  q * a <= q * b
  OBVIOUS

\* Division with remainder of any number.
LEMMA Division ==
  ASSUME NEW n \in Int, NEW f \in Nat \ {0}
  PROVE  n \div f \in Int /\ n % f \in 0 .. f - 1 /\ n = f * (n \div f) + (n % f)
<1>1. n = f * (n \div f) + (n % f)
  OBVIOUS
<1>2. n % f \in 0 .. f - 1 /\ n \div f \in Int
  OBVIOUS
<1> QED BY <1>1, <1>2

\* A number has one remainder.
LEMMA OneRemainder ==
  ASSUME NEW f \in Nat \ {0}, NEW p \in Int, NEW q \in Int,
         NEW r \in 0 .. f - 1, NEW s \in 0 .. f - 1, f * p + r = f * q + s
  PROVE  r = s
<1>1. ASSUME NEW x \in Int, NEW y \in Int, x < y, NEW u \in 0 .. f - 1, NEW v \in 0 .. f - 1
      PROVE  f * x + u # f * y + v
  <2> DEFINE d == y - x - 1
  <2>1. d \in Nat /\ y = x + d + 1
    BY <1>1
  <2> HIDE DEF d
  <2>2. f * y = f * x + f * d + f
    BY <2>1
  <2>3. f * d >= 0 /\ f * d \in Int /\ f * x \in Int
    BY <2>1, TimesMonotone
  <2> QED BY <2>2, <2>3
<1>2. p = q
  BY <1>1
<1>3. f * p \in Int
  OBVIOUS
<1> QED BY <1>2, <1>3

\* The next multiple of a frequency lies one frequency on.
LEMMA NextMultiple ==
  ASSUME NEW n \in Int, NEW m \in Int, NEW f \in Nat \ {0}, n % f = 0, m % f = 0, n < m
  PROVE  n + f <= m /\ (n + f) % f = 0
<1> DEFINE p == n \div f
           q == m \div f
<1>1. p \in Int /\ q \in Int /\ n = f * p /\ m = f * q
  BY Division
<1> HIDE DEF p, q
<1>2. p + 1 <= q
  <2> SUFFICES ASSUME q <= p PROVE FALSE
    BY <1>1
  <2>1. f * q <= f * p
    BY <1>1, TimesMonotone
  <2> QED BY <1>1, <2>1
<1>3. f * (p + 1) = n + f /\ f * (p + 1) <= f * q
  <2>1. f * (p + 1) <= f * q
    BY <1>1, <1>2, TimesMonotone
  <2> QED BY <1>1, <2>1
<1>4. (n + f) % f = 0
  <2> DEFINE s == n + f
             k == s \div f
             t == s % f
  <2>1. s \in Int
    OBVIOUS
  <2>2. k \in Int /\ t \in 0 .. f - 1 /\ s = f * k + t
    <3> HIDE DEF s
    <3> QED BY <2>1, Division
  <2>3. s = f * (p + 1) + 0 /\ 0 \in 0 .. f - 1 /\ p + 1 \in Int
    BY <1>1, <1>3
  <2> HIDE DEF s, k, t
  <2>4. t = 0
    BY <2>2, <2>3, OneRemainder
  <2> QED BY <2>4 DEF s, t
<1> QED BY <1>1, <1>3, <1>4

-----------------------------------------------------------------------------
(* A program that runs                                                     *)

\* The parts of RunningFrom
Loads(d) ==
  \A r \in Ranks : /\ d <= N[r]
                   /\ restartdir[r] # NoCycle => restartdir[r] = d /\ N[r] = d /\ saved <= d
WrittenByThis ==
  /\ \A a, b \in Ranks : sim[a] = sim[b]
  /\ \A n \in Cycles : WrittenBy(n, sim[0])
CompleteFor(d) ==
  \A r \in Ranks : restartdir[0] # NoCycle /\ restartdir[r] # NoCycle =>
    files[d][r] = [stamp |-> sim[r], dump |-> sim[r], data |-> sim[r]]

\* What holds while a program runs, in the parts that are shown one by one.
LEMMA RunningParts ==
  \A d : RunningFrom(d) <=> /\ Loads(d)
                            /\ InPlace => dirs \subseteq Kept(d) /\ WrittenByThis /\ CompleteFor(d)
  BY DEF RunningFrom, Loads, WrittenByThis, CompleteFor

AllOneSimulation == InPlace => \A n \in Cycles : OneSimulation(n)

\* A directory without files holds nothing of any simulation.
LEMMA EmptyWritten ==
  ASSUME NEW n, files[n] = Empty, NEW s
  PROVE  WrittenBy(n, s)
  BY DEF WrittenBy, Empty, Everyone, NoFiles

\* When all ranks have loaded, it is the newest checkpoint.
LEMMA AllLoaded ==
  ASSUME Types, SavedKept, AllOneSimulation, ConstructorInv, AllIn({"computing"})
  PROVE  restartdir[0] \in Cycles \cup {NoCycle} /\ RunningFrom(restartdir[0])
<1> DEFINE d == restartdir[0]
<1>0. 0 \in Ranks /\ d \in Cycles \cup {NoCycle} /\ dirs \subseteq Cycles
  BY RankFacts DEF Types
<1>i. \A n \in Cycles \cup {NoCycle} : n \in Int /\ n >= -1
  BY RankFacts DEF NoCycle
<1>1. AllIn(Constructor)
  BY DEF AllIn, Constructor, Listed
<1>2. (\A b \in Ranks : Found(b) /\ pc[b] = "computing" /\ pc[b] \in Listed) /\ TodoInv
  BY <1>1, ConstructorParts DEF AllIn, Listed
<1>3. \A b \in Ranks : restartdir[b] = d
  BY <1>0, <1>2, FoundTogether
<1>4. \A b \in Ranks : N[b] = d
  BY <1>2, <1>3 DEF Found
<1>5. d # NoCycle => do_restart /\ d \in dirs /\ \A n \in dirs : n <= d
  BY <1>0, <1>2 DEF Found
<1>6. d # NoCycle => saved <= d
  <2> SUFFICES ASSUME d # NoCycle PROVE saved <= d
    OBVIOUS
  <2>1. saved \in Int /\ d \in Int /\ d >= -1
    BY <1>0, <1>i DEF Types
  <2>2. CASE saved = NoCycle
    BY <2>1, <2>2 DEF NoCycle
  <2>3. CASE saved # NoCycle
    <3>1. PICK n \in dirs : n >= saved
      BY <2>3 DEF SavedKept
    <3>2. n <= d /\ n \in Int
      BY <1>0, <1>5, <1>i, <3>1
    <3> QED BY <2>1, <3>1, <3>2
  <2> QED BY <2>2, <2>3
<1>7. Loads(d)
  <2>1. d <= d
    BY <1>0, <1>i
  <2> HIDE DEF d
  <2> QED BY <1>3, <1>4, <1>6, <2>1 DEF Loads
<1>8. ASSUME InPlace PROVE dirs \subseteq Kept(d) /\ WrittenByThis /\ CompleteFor(d)
  <2>1. dirs \subseteq {d}
    <3>1. dirs \subseteq ToSet(todo[0]) \cup {restartdir[0]} /\ todo[0] = << >>
      BY <1>0, <1>2, <1>8 DEF TodoInv, Found
    <3>2. ToSet(<< >>) = {}
      BY DEF ToSet
    <3> QED BY <3>1, <3>2
  <2>2. dirs \subseteq Kept(d)
    <3>1. N[0] = d
      BY <1>0, <1>4
    <3>2. Own(d) = {}
      BY <1>0, <1>i, <3>1 DEF Own
    <3> QED BY <2>1, <3>2 DEF Kept, Removed
  <2>3. \A n \in Cycles : n # d => files[n] = Empty
    BY <2>1 DEF Types, Empty
  <2>4. CASE d = NoCycle
    <3>1. \A b \in Ranks : sim[b] = starts
      BY <1>2, <1>3, <2>4 DEF Found
    <3>2. \A n \in Cycles : n # d
      BY <2>4, RankFacts DEF NoCycle
    <3>3. WrittenByThis
      BY <1>0, <2>3, <3>1, <3>2, EmptyWritten DEF WrittenByThis
    <3>4. CompleteFor(d)
      BY <2>4 DEF CompleteFor
    <3> QED BY <2>2, <3>3, <3>4
  <2>5. CASE d # NoCycle
    <3>1. d \in Cycles
      BY <1>0, <2>5
    <3>2. PICK s \in 0 .. MaxStarts : WrittenBy(d, s)
      BY <1>8, <3>1 DEF AllOneSimulation, OneSimulation
    <3>3. \A b \in Ranks : WholeFor(d, b) /\ sim[b] = files[d][b].stamp
      BY <1>2, <1>3, <1>4, <2>5 DEF Found
    <3>4. \A b \in Ranks : files[d][b].stamp = s /\ files[d][b].dump = s /\ files[d][b].data = s
      BY <3>2, <3>3 DEF WholeFor, LoadableFor, WrittenBy
    <3>5. \A b \in Ranks : sim[b] = s
      BY <3>3, <3>4
    <3>6. WrittenByThis
      <4>1. sim[0] = s
        BY <1>0, <3>5
      <4> HIDE DEF d
      <4>2. ASSUME NEW n \in Cycles PROVE WrittenBy(n, sim[0])
        <5>1. CASE n = d
          BY <3>2, <4>1, <5>1
        <5>2. CASE n # d
          BY <2>3, <5>2, EmptyWritten
        <5> QED BY <5>1, <5>2
      <4> QED BY <3>5, <4>2 DEF WrittenByThis
    <3>7. CompleteFor(d)
      <4>1. \A b \in Ranks : files[d][b] \in Contents
        BY <3>1 DEF Types, Contents
      <4> HIDE DEF d
      <4>2. \A b \in Ranks : files[d][b] = [stamp |-> sim[b], dump |-> sim[b], data |-> sim[b]]
        BY <3>4, <3>5, <4>1 DEF Contents
      <4> QED BY <4>2 DEF CompleteFor
    <3> QED BY <2>2, <3>6, <3>7
  <2> QED BY <2>4, <2>5
<1> QED BY <1>0, <1>7, <1>8, RunningParts

AllArePast == \A b \in Ranks : Past(b)

\* When the last rank leaves the constructor, the program runs from what all
\* have found.
LEMMA PastRunning ==
  ASSUME Types, ControlInv, SavedKept, AllOneSimulation, ConstructorInv, RunningInv, AllArePast
  PROVE  \E d \in Cycles \cup {NoCycle} : RunningFrom(d)
<1>1. CASE \E b \in Ranks : pc[b] \in Active
  BY <1>1 DEF RunningInv
<1>2. CASE ~ \E b \in Ranks : pc[b] \in Active
  <2>1. AllIn({"computing"})
    BY <1>2 DEF AllArePast, Past, AllIn
  <2> QED BY <2>1, AllLoaded
<1> QED BY <1>1, <1>2

PastStep(r) ==
  Compute(r) \/ Export(r) \/ SaveState(r) \/ WriteStamp(r) \/ DumpDomain(r) \/ DumpData(r)
  \/ RemovingOld(r) \/ RemoveOld(r) \/ SaveEnds(r)

\* What a rank may do once it has left the constructor.
LEMMA PastSteps ==
  ASSUME NEW r \in Ranks, Rank(r), Past(r)
  PROVE  PastStep(r)
  BY DEF Rank, List, RemovingUnneeded, RemoveUnneeded, NextUnneeded, LoadState, GetValue,
         NothingToLoad, Past, Active, InSave, PastStep

\* Only a program that has not exported yet holds the directory it was started from.
LEMMA LoadsStep ==
  ASSUME Types, ControlInv, NEW r \in Ranks, Rank(r), AllArePast,
         NEW d \in Cycles \cup {NoCycle}, Loads(d)
  PROVE  Loads(d)'
<1>t. /\ Tables /\ Tables' /\ Moves(r) /\ CallsInv /\ CyclesInv /\ (\A x \in Ranks : OwnInv(x))
  BY StepTypes, ControlParts DEF Types, Tables
<1>p. PastStep(r)
  BY PastSteps DEF AllArePast
<1>1. CASE SaveEnds(r)
  <2>1. pc[r] = "saving" /\ Returns(r) /\ N' = N /\ restartdir' = restartdir
    BY <1>1 DEF SaveEnds
  <2>2. ASSUME NEW b \in Ranks PROVE restartdir[b] = NoCycle
    <3>1. pc[b] \in {"saving", "making"} \/ (pc[b] = "running" /\ calls[b][left[b]] = "barrier")
      BY <1>t, <2>1, SavedTogether
    <3>2. pc[b] \in Active
      BY <3>1 DEF Active, InSave
    <3> QED BY <1>t, <3>1, <3>2 DEF OwnInv
  <2> QED BY <2>1, <2>2 DEF Loads
<1>2. CASE Export(r) \/ SaveState(r)
  <2>1. N'[r] = N[r] + 1 /\ restartdir'[r] = NoCycle /\ saved' = saved
    BY <1>2, <1>t DEF Export, SaveState, Tables, history
  <2>2. \A b \in Ranks : b # r => N'[b] = N[b] /\ restartdir'[b] = restartdir[b]
    BY <1>t DEF Moves, SameFor
  <2>3. d <= N'[r]
    <3>1. d \in Int /\ N[r] \in Int /\ d <= N[r]
      BY <1>t, CyclesType, RankFacts DEF Loads, NoCycle
    <3> QED BY <2>1, <3>1
  <2> QED BY <2>1, <2>2, <2>3 DEF Loads
<1>3. CASE Compute(r) \/ WriteStamp(r) \/ DumpDomain(r) \/ DumpData(r) \/ RemovingOld(r)
           \/ RemoveOld(r)
  <2>1. N' = N /\ restartdir' = restartdir /\ saved' = saved
    BY <1>3 DEF Compute, WriteStamp, DumpDomain, DumpData, RemovingOld, RemoveOld, history
  <2> QED BY <2>1 DEF Loads
<1> QED BY <1>p, <1>1, <1>2, <1>3 DEF PastStep

\* On disk are the directory the program was started from and those it has made, without
\* those it has removed.
LEMMA KeptStep ==
  ASSUME Types, ControlInv, NEW r \in Ranks, Rank(r), AllArePast,
         NEW d \in Cycles \cup {NoCycle}, Loads(d), dirs \subseteq Kept(d)
  PROVE  dirs' \subseteq Kept(d)'
<1>t. /\ Tables /\ Tables' /\ Moves(r) /\ DiskType /\ freq' = freq
      /\ (\A x \in Ranks : OwnInv(x)) /\ freq \in [Cycles -> Nat \ {0}]
  BY StepTypes, ControlParts DEF Types, Tables, DiskType, FilesType, Contents, Empty, Moves
<1>p. PastStep(r)
  BY PastSteps DEF AllArePast
<1>n. 0 \in Ranks /\ N[0] \in Int /\ \A n \in Cycles : n \in Nat /\ freq[n] \in Nat /\ freq[n] > 0
  BY <1>t, CyclesType, RankFacts
<1>s. \A n : Saves(n)' <=> n' % freq[n'] = 0
  BY <1>t DEF Saves
<1>k. ASSUME N'[0] = N[0], Unfinished' = Unfinished PROVE Kept(d)' = Kept(d)
  <2>1. Own(d)' = Own(d)
    BY <1>t, <1>k DEF Own, Saves
  <2>2. Removed(d)' = Removed(d)
    BY <1>t, <1>k, <2>1 DEF Removed
  <2> QED BY <2>1, <2>2 DEF Kept
<1>1. CASE r # 0 \/ Removing(r)
  <2>1. pc'[0] = pc[0] /\ N'[0] = N[0]
    BY <1>1, <1>n, <1>t, RemovingFacts DEF Moves, SameFor
  <2>2. Kept(d)' = Kept(d)
    BY <1>k, <2>1 DEF Unfinished
  <2>3. dirs' \subseteq dirs
    <3>1. CASE RemoveOld(r)
      BY <1>t, <3>1, RemovedType DEF RemoveOld
    <3>2. CASE Removing(r)
      BY <3>2, RemovingFacts
    <3>3. CASE r # 0 /\ ~ RemoveOld(r) /\ ~ Removing(r)
      BY <1>p, <3>3 DEF PastStep, Removing, Compute, Export, SaveState, WriteStamp, DumpDomain,
                        DumpData, SaveEnds, MakeDirectory, disk
    <3> QED BY <1>1, <3>1, <3>2, <3>3
  <2> QED BY <2>2, <2>3
<1>2. CASE r = 0 /\ (Compute(0) \/ WriteStamp(0) \/ DumpDomain(0) \/ DumpData(0) \/ SaveEnds(0))
  <2>1. N' = N /\ dirs' = dirs
    BY <1>2 DEF Compute, WriteStamp, DumpDomain, DumpData, SaveEnds, disk
  <2>2. pc[0] \in InSave \ {"saving"} <=> pc'[0] \in InSave \ {"saving"}
    BY <1>2, <1>n, <1>t DEF Compute, WriteStamp, DumpDomain, DumpData, SaveEnds, Goes, Tables,
                            InSave
  <2>3. Unfinished' = Unfinished
    BY <2>1, <2>2 DEF Unfinished
  <2> QED BY <1>k, <2>1, <2>3
<1>3. CASE r = 0 /\ Export(0)
  <2>1. /\ pc[0] \notin InSave /\ pc'[0] \notin InSave /\ N'[0] = N[0] + 1
        /\ dirs' = dirs /\ ~ Saves(N[0] + 1)
    BY <1>3, <1>n, <1>t DEF Export, Tables, disk, InSave
  <2>2. Unfinished = {} /\ Unfinished' = {}
    BY <2>1 DEF Unfinished
  <2>3. \A n \in Cycles : Saves(n) => (n <= N[0] <=> n <= N'[0])
    BY <1>n, <2>1
  <2>4. Own(d)' = Own(d)
    BY <1>t, <2>3 DEF Own, Saves
  <2>5. Removed(d)' = Removed(d)
    BY <1>t, <2>2, <2>4 DEF Removed
  <2> QED BY <2>1, <2>4, <2>5 DEF Kept
<1>4. CASE r = 0 /\ SaveState(0)
  <2>1. /\ pc[0] \notin InSave /\ pc'[0] = "making" /\ N'[0] = N[0] + 1 /\ N[0] < MaxN
        /\ dirs' = dirs \cup {N[0] + 1} /\ Saves(N[0] + 1)
    BY <1>4, <1>n, <1>t DEF SaveState, Goes, MakeDirectory, Tables, InSave
  <2>2. N[0] + 1 \in Cycles /\ d < N[0] + 1
    <3>1. d \in Int /\ d <= N[0]
      BY <1>n, RankFacts DEF Loads, NoCycle
    <3> QED BY <1>n, <1>t, <2>1, <3>1, CyclesType
  <2>3. Unfinished = {} /\ Unfinished' = {N[0] + 1}
    BY <2>1 DEF Unfinished, InSave
  <2>4. Own(d)' = Own(d) \cup {N[0] + 1}
    <3>1. \A n \in Cycles : n <= N'[0] <=> n <= N[0] \/ n = N[0] + 1
      BY <1>n, <2>1
    <3>2. \A n \in Cycles : Saves(n)' <=> Saves(n)
      BY <1>t DEF Saves
    <3>3. Own(d)' = {n \in Cycles : d < n /\ n <= N'[0] /\ Saves(n)}
      BY <3>2 DEF Own
    <3> QED BY <2>1, <2>2, <3>1, <3>3 DEF Own
  <2>5. N[0] + 1 \notin Own(d)
    BY <1>n DEF Own
  <2>6. Removed(d)' = Removed(d)
    <3>1. Own(d)' \ Unfinished' = Own(d) \ Unfinished
      BY <2>3, <2>4, <2>5
    <3> QED BY <1>t, <3>1 DEF Removed
  <2>7. N[0] + 1 \notin Removed(d)
    <3>1. ASSUME NEW n \in Own(d) PROVE N[0] + 1 # n - freq[n]
      <4>1. n \in Cycles /\ n <= N[0]
        BY DEF Own
      <4> QED BY <1>n, <4>1
    <3> QED BY <3>1 DEF Removed
  <2> QED BY <2>1, <2>4, <2>6, <2>7 DEF Kept
<1>5. CASE r = 0 /\ RemoveOld(0)
  <2>1. pc[0] = "dumped" /\ pc'[0] = "saving" /\ N' = N
    BY <1>5, <1>n, <1>t DEF RemoveOld, Goes, Tables
  <2>2. dirs' = dirs \ {N[0] - freq[N[0]]}
    BY <1>5, <1>t, RemovedType DEF RemoveOld
  <2>3. Own(d)' = Own(d)
    BY <1>t, <2>1 DEF Own, Saves
  <2>4. Unfinished = {N[0]} /\ Unfinished' = {}
    BY <2>1 DEF Unfinished, InSave
  <2>5. Removed(d)' \subseteq Removed(d) \cup {N[0] - freq[N[0]]}
    BY <1>t, <2>3, <2>4 DEF Removed
  <2> QED BY <2>2, <2>3, <2>5 DEF Kept
<1> QED BY <1>p, <1>1, <1>2, <1>3, <1>4, <1>5 DEF PastStep, Removing

\* A removal in progress adds nothing of another simulation.
LEMMA RemovingWritten ==
  ASSUME DiskType, NEW r \in Ranks, Removing(r), NEW n \in Cycles, NEW s, WrittenBy(n, s)
  PROVE  \A b \in Ranks :
           {files'[n][b].stamp, files'[n][b].dump, files'[n][b].data} \subseteq {0, s}
<1> SUFFICES ASSUME NEW b \in Ranks
             PROVE  {files'[n][b].stamp, files'[n][b].dump, files'[n][b].data} \subseteq {0, s}
  OBVIOUS
<1>1. {files[n][b].stamp, files[n][b].dump, files[n][b].data} \subseteq {0, s}
  BY DEF WrittenBy
<1>2. \/ files'[n] = files[n]
      \/ /\ files'[n][b].stamp \in {0, files[n][b].stamp}
         /\ files'[n][b].dump \in {0, files[n][b].dump}
         /\ files'[n][b].data \in {0, files[n][b].data}
  BY RemovingFiles
<1> QED BY <1>1, <1>2

\* All that is written is of the simulation that runs.
LEMMA WrittenStep ==
  ASSUME Types, ControlInv, NEW r \in Ranks, Rank(r), AllArePast, WrittenByThis
  PROVE  WrittenByThis'
<1>t. /\ Tables /\ Tables' /\ DiskType /\ (\A x \in Ranks : OwnInv(x)) /\ 0 \in Ranks
  BY StepTypes, ControlParts, RankFacts DEF Types, Tables, DiskType, FilesType, Contents, Empty
<1>p. PastStep(r)
  BY PastSteps DEF AllArePast
<1>1. sim' = sim
  BY <1>p DEF PastStep, Compute, Export, SaveState, WriteStamp, DumpDomain, DumpData,
              RemovingOld, RemoveOld, SaveEnds
<1>2. ASSUME NEW n \in Cycles PROVE WrittenBy(n, sim[0])'
  <2>w. WrittenBy(n, sim[0])
    BY DEF WrittenByThis
  <2>1. CASE WriteStamp(r) \/ DumpDomain(r) \/ DumpData(r)
    <3>1. \/ files' = [files EXCEPT ![N[r]][r].stamp = sim[r]]
          \/ files' = [files EXCEPT ![N[r]][r].dump = sim[r]]
          \/ files' = [files EXCEPT ![N[r]][r].data = sim[r]]
      BY <2>1 DEF WriteStamp, DumpDomain, DumpData
    <3>2. N[r] \in Cycles /\ sim[r] \in 0 .. MaxStarts /\ sim[r] = sim[0]
      BY <1>t, <2>1 DEF WriteStamp, DumpDomain, DumpData, OwnInv, InSave, Tables, WrittenByThis
    <3>3. /\ \A m \in Cycles, b \in Ranks : m # N[r] \/ b # r => files'[m][b] = files[m][b]
          /\ \/ files'[N[r]][r] = [files[N[r]][r] EXCEPT !.stamp = sim[r]]
             \/ files'[N[r]][r] = [files[N[r]][r] EXCEPT !.dump = sim[r]]
             \/ files'[N[r]][r] = [files[N[r]][r] EXCEPT !.data = sim[r]]
      BY <1>t, <3>1, <3>2, Written DEF DiskType
    <3>c. files[N[r]][r] \in Contents
      BY <1>t, <3>2 DEF DiskType, FilesType
    <3>4. \A b \in Ranks :
            {files'[n][b].stamp, files'[n][b].dump, files'[n][b].data} \subseteq {0, sim[0]}
      <4> SUFFICES ASSUME NEW b \in Ranks
                   PROVE  {files'[n][b].stamp, files'[n][b].dump, files'[n][b].data} \subseteq {0,
                        sim[0]}
        OBVIOUS
      <4>1. {files[n][b].stamp, files[n][b].dump, files[n][b].data} \subseteq {0, sim[0]}
        BY <2>w DEF WrittenBy
      <4>2. CASE n # N[r] \/ b # r
        BY <3>3, <4>1, <4>2
      <4>3. CASE n = N[r] /\ b = r
        BY <3>2, <3>3, <3>c, <4>1, <4>3 DEF Contents
      <4> QED BY <4>2, <4>3
    <3> QED BY <1>1, <3>4 DEF WrittenBy
  <2>2. CASE RemoveOld(r)
    <3>1. /\ DiskType' /\ \A m \in dirs' : files'[m] = files[m]
      BY <1>t, <2>2, RemovedType DEF RemoveOld
    <3>2. CASE n \in dirs'
      BY <1>1, <2>w, <3>1, <3>2 DEF WrittenBy
    <3>3. CASE n \notin dirs'
      <4>1. files'[n] = Empty
        BY <3>1, <3>3 DEF DiskType, Empty, Everyone, NoFiles
      <4> QED BY <4>1 DEF WrittenBy, Empty, Everyone, NoFiles
    <3> QED BY <3>2, <3>3
  <2>3. CASE Compute(r) \/ Export(r) \/ SaveState(r) \/ SaveEnds(r)
    <3>1. files' = files
      BY <2>3 DEF Compute, Export, SaveState, SaveEnds, disk
    <3> QED BY <1>1, <2>w, <3>1 DEF WrittenBy
  <2>4. CASE RemovingOld(r)
    BY <1>1, <1>t, <2>w, <2>4, RemovingWritten DEF Removing, WrittenBy
  <2> QED BY <1>p, <2>1, <2>2, <2>3, <2>4 DEF PastStep
<1> QED BY <1>1, <1>2 DEF WrittenByThis

\* The checkpoint that was loaded is still there, as long as nothing has been exported.
LEMMA CompleteStep ==
  ASSUME Types, ControlInv, NEW r \in Ranks, Rank(r), AllArePast,
         NEW d \in Cycles \cup {NoCycle}, Loads(d), CompleteFor(d)
  PROVE  CompleteFor(d)'
<1>t. /\ Tables /\ Tables' /\ Moves(r) /\ DiskType /\ (\A x \in Ranks : OwnInv(x)) /\ 0 \in Ranks
  BY StepTypes, ControlParts, RankFacts DEF Types, Tables, DiskType, FilesType, Contents, Empty
<1>p. PastStep(r)
  BY PastSteps DEF AllArePast
<1>1. sim' = sim
  BY <1>p DEF PastStep, Compute, Export, SaveState, WriteStamp, DumpDomain, DumpData,
              RemovingOld, RemoveOld, SaveEnds
<1>2. \A b \in Ranks : restartdir'[b] # NoCycle => restartdir[b] # NoCycle
  <2>1. restartdir'[r] # NoCycle => restartdir[r] # NoCycle
    BY <1>p, <1>t DEF PastStep, Compute, Export, SaveState, WriteStamp, DumpDomain, DumpData,
                      RemovingOld, RemoveOld, SaveEnds, Tables
  <2> QED BY <1>t, <2>1 DEF Moves, SameFor
<1> SUFFICES ASSUME NEW b \in Ranks, restartdir'[0] # NoCycle, restartdir'[b] # NoCycle
             PROVE  files'[d][b] = [stamp |-> sim[b], dump |-> sim[b], data |-> sim[b]]
  BY <1>1 DEF CompleteFor
<1>3. /\ restartdir[0] # NoCycle /\ restartdir[b] # NoCycle
      /\ files[d][b] = [stamp |-> sim[b], dump |-> sim[b], data |-> sim[b]]
  BY <1>2, <1>t DEF CompleteFor
<1>4. CASE WriteStamp(r) \/ DumpDomain(r) \/ DumpData(r)
  <2>1. \/ files' = [files EXCEPT ![N[r]][r].stamp = sim[r]]
        \/ files' = [files EXCEPT ![N[r]][r].dump = sim[r]]
        \/ files' = [files EXCEPT ![N[r]][r].data = sim[r]]
    BY <1>4 DEF WriteStamp, DumpDomain, DumpData
  <2>2. /\ N[r] \in Cycles /\ sim[r] \in 0 .. MaxStarts /\ restartdir[r] = NoCycle
    BY <1>t, <1>4 DEF WriteStamp, DumpDomain, DumpData, OwnInv, InSave, Active, Tables
  <2>3. b # r /\ d \in Cycles
    <3>1. restartdir[0] = d
      BY <1>3, <1>t DEF Loads
    <3> QED BY <1>3, <2>2, <3>1
  <2>4. \A m \in Cycles, x \in Ranks : m # N[r] \/ x # r => files'[m][x] = files[m][x]
    BY <1>t, <2>1, <2>2, Written DEF DiskType
  <2>5. files'[d][b] = files[d][b]
    BY <2>3, <2>4
  <2> QED BY <1>3, <2>5
<1>5. CASE RemoveOld(r)
  <2>1. r # 0
    BY <1>3, <1>5, <1>t DEF RemoveOld, OwnInv, InSave, Active
  <2>2. files' = files
    BY <1>5, <2>1 DEF RemoveOld, RemoveDirectory, disk
  <2> QED BY <1>3, <2>2
<1>6. CASE Compute(r) \/ Export(r) \/ SaveState(r) \/ SaveEnds(r)
  <2>1. files' = files
    BY <1>6 DEF Compute, Export, SaveState, SaveEnds, disk
  <2> QED BY <1>3, <2>1
<1>7. CASE RemovingOld(r)
  <2>1. r = 0 /\ pc[0] = "dumped"
    BY <1>7 DEF RemovingOld, RemoveFile
  <2> QED BY <1>3, <1>t, <2>1 DEF OwnInv, InSave, Active
<1> QED BY <1>p, <1>4, <1>5, <1>6, <1>7 DEF PastStep

\* Every step of a running program leaves directories of one simulation only.
LEMMA RunningStep ==
  ASSUME Types, ControlInv, SavedKept, AllOneSimulation, ConstructorInv, RunningInv,
         NEW r \in Ranks, Rank(r), AllArePast
  PROVE  RunningInv' /\ AllOneSimulation'
<1>1. PICK d \in Cycles \cup {NoCycle} : RunningFrom(d)
  BY PastRunning
<1>2. Loads(d) /\ (InPlace => dirs \subseteq Kept(d) /\ WrittenByThis /\ CompleteFor(d))
  BY <1>1, RunningParts
<1>3. Loads(d)' /\ (InPlace => dirs' \subseteq Kept(d)' /\ WrittenByThis' /\ CompleteFor(d)')
  BY <1>2, LoadsStep, KeptStep, WrittenStep, CompleteStep
<1>4. RunningFrom(d)'
  BY <1>3 DEF RunningFrom, Loads, WrittenByThis, CompleteFor
<1>5. AllOneSimulation'
  <2>1. sim'[0] \in 0 .. MaxStarts
    BY StepTypes, RankFacts DEF Tables
  <2> QED BY <1>3, <2>1 DEF AllOneSimulation, OneSimulation, WrittenByThis
<1> QED BY <1>4, <1>5 DEF RunningInv

\* No rank comes out of the first computation before every rank has ended its constructor.
LEMMA ComputeTogether ==
  ASSUME Tables, CallsInv, NEW r \in Ranks, Compute(r)
  PROVE  AllArePast
<1>1. Called(r) = left[r] + 1 /\ calls[r][Called(r)] = "compute" /\ left[r] \in Nat
  BY Counted DEF Compute, KindAt
<1>2. ASSUME NEW b \in Ranks PROVE Past(b)
  <2>1. Called(b) > left[r] /\ calls[b][left[r] + 1] = "compute" /\ Called(b) \in Nat
    BY <1>1, Counted DEF Compute, Returns, Called
  <2>2. left[r] + 1 \in Computes(b, Called(b))
    BY <1>1, <2>1 DEF Computes
  <2> QED BY <2>2 DEF CallsInv, CallInv
<1> QED BY <1>2 DEF AllArePast

StartStep(r) ==
  \/ List(r) \/ RemovingUnneeded(r) \/ RemoveUnneeded(r) \/ NextUnneeded(r)
  \/ LoadState(r) \/ GetValue(r) \/ NothingToLoad(r)

\* Before that a rank only lists, removes and loads.
LEMMA StartSteps ==
  ASSUME Tables, ControlInv, NEW r \in Ranks, Rank(r), ~ AllArePast
  PROVE  StartStep(r) /\ \A b \in Ranks : pc[b] \notin Active
<1>1. CallsInv
  BY ControlParts
<1>2. \A b \in Ranks : pc[b] \notin Active
  BY <1>1, AllPast DEF AllArePast
<1>3. ~ Compute(r)
  BY <1>1, ComputeTogether
<1> QED BY <1>2, <1>3 DEF Rank, StartStep, Export, SaveState, WriteStamp, DumpDomain, DumpData,
                          RemovingOld, RemoveOld, SaveEnds, Active, InSave

\* Then it does not save.
LEMMA NotActive ==
  ASSUME NEW r \in Ranks, Tables, Tables', StartStep(r)
  PROVE  pc[r] \in {"listing", "clearing", "cleared", "reading"} /\ pc'[r] \notin Active
  BY DEF StartStep, List, RemovingUnneeded, RemoveUnneeded, NextUnneeded, LoadState, GetValue,
         NothingToLoad, Goes, Tables, Active, InSave

\* Every step leaves directories of one simulation only.
LEMMA SimulationsStep ==
  ASSUME Types, ControlInv, SavedKept, AllOneSimulation, ConstructorInv, RunningInv,
         NEW r \in Ranks, Rank(r)
  PROVE  RunningInv' /\ AllOneSimulation'
<1>t. Tables /\ Tables' /\ Moves(r) /\ DiskType
  BY StepTypes DEF Types, Tables, DiskType, FilesType, Contents, Empty
<1>1. CASE AllArePast
  BY <1>1, RunningStep
<1>2. CASE ~ AllArePast
  <2>1. StartStep(r) /\ \A b \in Ranks : pc[b] \notin Active
    BY <1>2, <1>t, StartSteps
  <2>2. \A b \in Ranks : pc'[b] \notin Active
    BY <1>t, <2>1, NotActive DEF Moves, SameFor
  <2>3. ASSUME NEW n \in Cycles, NEW s, WrittenBy(n, s) PROVE WrittenBy(n, s)'
    <3>1. CASE Removing(r)
      BY <1>t, <2>3, <3>1, RemovingWritten DEF WrittenBy
    <3>2. ~ Removing(r) => files'[n] = files[n] \/ files'[n] = Empty
      <4>1. ASSUME RemoveDirectory(r, Head(todo[r])) PROVE files'[n] = files[n] \/ files'[n] = Empty
        <5>1. DiskType' /\ \A m \in dirs' : files'[m] = files[m]
          BY <1>t, <4>1, RemovedType
        <5>2. n \notin dirs' => files'[n] = Empty
          BY <5>1 DEF DiskType, Empty, Everyone, NoFiles
        <5> QED BY <5>1, <5>2
      <4> QED BY <2>1, <4>1 DEF StartStep, Removing, List, RemoveUnneeded, NextUnneeded,
                                LoadState, GetValue, NothingToLoad, disk
    <3> QED BY <2>3, <3>2, <3>1 DEF WrittenBy, Empty, Everyone, NoFiles
  <2> QED BY <2>2, <2>3 DEF RunningInv, AllOneSimulation, OneSimulation
<1> QED BY <1>1, <1>2

-----------------------------------------------------------------------------
(* Whole checkpoints                                                       *)

StampFor(n, b) == files[n][b].stamp = 0 => Awaited(n, b, {"making"})
DumpFor(n, b) == files[n][b].dump = 0 => Awaited(n, b, {"making", "dumping"})
DataFor(n, b) == files[n][b].data = 0 => Awaited(n, b, {"making", "dumping", "filling"})
WrittenFor(n, b) == StampFor(n, b) /\ DumpFor(n, b) /\ DataFor(n, b)

PlaceSets == {{"making"}, {"making", "dumping"}, {"making", "dumping", "filling"}}

\* The newest directory is whole if every rank has written, or comes to write, its files.
LEMMA WholeParts ==
  WholeInv <=> (torn = 0 /\ ~ Discarding =>
                  \A n \in Cycles, b \in Ranks : Newest(n) => WrittenFor(n, b))
  BY DEF WholeInv, WrittenFor, StampFor, DumpFor, DataFor

\* What rank b has still to write it still comes to.
LEMMA AwaitedStays ==
  ASSUME NEW r \in Ranks, NEW b \in Ranks, NEW n, NEW places, Moves(r),
         Awaited(n, b, places),
         r = 0 => pc'[0] \in InSave /\ N'[0] = N[0],
         b = r => N'[r] < n \/ (N'[r] = n /\ pc'[r] \in places)
  PROVE  Awaited(n, b, places)'
  BY RankFacts DEF Awaited, Moves, SameFor

\* Files that a step leaves alone
LEMMA WholeStays ==
  ASSUME NEW n, NEW b, WrittenFor(n, b), files'[n][b] = files[n][b],
         \A places \in PlaceSets : Awaited(n, b, places) => Awaited(n, b, places)'
  PROVE  WrittenFor(n, b)'
<1>1. /\ Awaited(n, b, {"making"}) => Awaited(n, b, {"making"})'
      /\ Awaited(n, b, {"making", "dumping"}) => Awaited(n, b, {"making", "dumping"})'
      /\ Awaited(n, b, {"making", "dumping", "filling"}) =>
           Awaited(n, b, {"making", "dumping", "filling"})'
  BY DEF PlaceSets
<1> QED BY <1>1 DEF WrittenFor, StampFor, DumpFor, DataFor

\* No file is missing while rank 0 is not in a save.
LEMMA NothingAwaited ==
  ASSUME NEW n, NEW b, WrittenFor(n, b), pc[0] \notin InSave
  PROVE  WholeFor(n, b)
  BY DEF WrittenFor, StampFor, DumpFor, DataFor, Awaited, WholeFor, LoadableFor

\* A rank that isn't to write yet, or has written, stays where it is.
LEMMA WholePassing ==
  ASSUME NEW r \in Ranks, Moves(r), N'[r] = N[r], pc[r] \notin {"making", "dumping", "filling"},
         r = 0 /\ pc[0] \in InSave => pc'[0] \in InSave,
         NEW b \in Ranks, NEW n, WrittenFor(n, b), files'[n][b] = files[n][b]
  PROVE  WrittenFor(n, b)'
<1>1. ASSUME NEW places \in PlaceSets, Awaited(n, b, places)
      PROVE  Awaited(n, b, places)'
  <2>1. r = 0 => pc'[0] \in InSave /\ N'[0] = N[0]
    BY <1>1 DEF Awaited
  <2>2. b = r => N'[r] < n
    BY <1>1 DEF Awaited, PlaceSets
  <2> QED BY <1>1, <2>1, <2>2, AwaitedStays
<1> QED BY <1>1, WholeStays

\* An export that saves nothing leaves what is whole.
LEMMA WholeExported ==
  ASSUME Types, ControlInv, NEW r \in Ranks, Export(r), Moves(r), Tables',
         NEW b \in Ranks, NEW n, WrittenFor(n, b)
  PROVE  WrittenFor(n, b)'
<1>t. /\ Tables /\ (\A x \in Ranks : OwnInv(x)) /\ 0 \in Ranks
  BY ControlParts, RankFacts DEF Types, Tables
<1>1. /\ pc[r] = "running" /\ ~ Saves(N[r] + 1) /\ N'[r] = N[r] + 1 /\ files' = files
  BY <1>t DEF Export, Tables, disk
<1>2. ASSUME NEW places \in PlaceSets, Awaited(n, b, places)
      PROVE  Awaited(n, b, places)'
  <2>1. r # 0
    BY <1>1, <1>2 DEF Awaited, InSave
  <2>2. b = r => N'[r] < n
    <3> SUFFICES ASSUME b = r PROVE N'[r] < n
      OBVIOUS
    <3>1. N[r] < n /\ n = N[0] /\ Saves(N[0])
      BY <1>1, <1>2, <1>t DEF Awaited, OwnInv, PlaceSets
    <3>2. N[r] + 1 # n
      BY <1>1, <3>1
    <3>3. N[r] \in Int /\ n \in Int
      BY <1>t, <3>1, CyclesType
    <3> QED BY <1>1, <3>1, <3>2, <3>3
  <2> QED BY <1>2, <2>1, <2>2, AwaitedStays
<1> QED BY <1>1, <1>2, WholeStays

\* When rank 0 makes a directory, the others are not beyond it.
LEMMA WholeMade ==
  ASSUME Types, ControlInv, NEW r \in Ranks, SaveState(r), Moves(r), Tables', CyclesInv',
         NEW b \in Ranks, NEW n \in dirs', n \in dirs => WrittenFor(n, b)
  PROVE  WrittenFor(n, b)'
<1>t. /\ Tables /\ (\A x \in Ranks : OwnInv(x)) /\ 0 \in Ranks /\ CallsInv
  BY ControlParts, RankFacts DEF Types, Tables
<1>1. /\ pc[r] = "running" /\ pc'[r] = "making" /\ N'[r] = N[r] + 1 /\ files' = files
      /\ dirs' = (IF r = 0 THEN dirs \cup {N[r] + 1} ELSE dirs)
      /\ Saves(N[r] + 1) /\ N[r] < MaxN /\ freq' = freq
  BY <1>t DEF SaveState, MakeDirectory, Goes, Tables
<1>i. N[r] \in Int /\ N[b] \in Int /\ N[r] + 1 \in Cycles /\ N[0] \in Int
  BY <1>1, <1>t, CyclesType
<1>2. CASE r # 0
  <2>1. ASSUME NEW places \in PlaceSets, Awaited(n, b, places)
        PROVE  Awaited(n, b, places)'
    <3>1. b = r => N'[r] < n \/ (N'[r] = n /\ pc'[r] \in places)
      <4> SUFFICES ASSUME b = r PROVE N'[r] < n \/ (N'[r] = n /\ pc'[r] \in places)
        OBVIOUS
      <4>1. N[r] < n /\ n = N[0]
        BY <1>1, <2>1 DEF Awaited, PlaceSets
      <4>2. N[r] + 1 < n \/ N[r] + 1 = n
        BY <1>i, <4>1
      <4>3. pc'[r] \in places
        BY <1>1 DEF PlaceSets
      <4> QED BY <1>1, <4>2, <4>3
    <3> QED BY <1>2, <2>1, <3>1, AwaitedStays
  <2> QED BY <1>1, <1>2, <2>1, WholeStays
<1>3. CASE r = 0
  <2>1. CASE n \in dirs
    <3>1. WholeFor(n, b)
      BY <1>1, <1>3, <2>1, NothingAwaited DEF InSave
    <3> QED BY <1>1, <3>1 DEF WholeFor, LoadableFor, WrittenFor, StampFor, DumpFor, DataFor
  <2>2. CASE n \notin dirs
    <3>1. n = N[0] + 1 /\ n = N'[0] /\ pc'[0] \in InSave /\ pc'[0] = "making"
      BY <1>1, <1>3, <2>2 DEF InSave
    <3>2. N'[b] < n \/ (N'[b] = n /\ pc'[b] = "making")
      <4>1. CASE b = 0
        BY <3>1, <4>1
      <4>2. CASE b # 0
        <5>1. /\ N'[b] = N[b] /\ pc'[b] = pc[b] /\ Called(b)' = Called(b)
          BY <1>3, <4>2 DEF Moves, SameFor, Called
        <5>2. Called(0)' = Called(0) + 1 /\ Called(0) \in Nat
          BY <1>3, <1>t, Counted DEF SaveState, Calls, Tables, Called
        <5>3. Past(b) /\ pc[0] \in Active
          BY <1>1, <1>3, <1>t, AllPast DEF Active
        <5>4. Past(b)' /\ Past(0)'
          BY <3>1, <5>1, <5>3 DEF Past, Active
        <5>5. CyclesAgree(0, b)' /\ CyclesAgree(b, 0)'
          BY <1>t, <5>4 DEF CyclesInv
        <5>6. CASE Called(b) = Called(0)
          BY <3>1, <5>1, <5>2, <5>5, <5>6 DEF CyclesAgree
        <5>7. CASE Called(b) = Called(0) + 1 /\ pc[b] = "making"
          <6>1. NoneDue(N[0], N[b])' /\ NoneDue(N[b], N[0])'
            BY <5>1, <5>2, <5>5, <5>7 DEF CyclesAgree
          <6>2. N[b] \in Cycles /\ Saves(N[b])
            BY <1>t, <5>7 DEF OwnInv, InSave
          <6>3. /\ \A i \in Cycles : N[0] + 1 < i /\ i <= N[b] => ~ Saves(i)
                /\ \A i \in Cycles : N[b] < i /\ i <= N[0] + 1 => ~ Saves(i)
            BY <1>1, <1>3, <5>1, <6>1 DEF NoneDue, Saves
          <6>4. N[b] = N[0] + 1
            BY <1>1, <1>3, <1>i, <6>2, <6>3, RankFacts
          <6> QED BY <3>1, <5>1, <5>7, <6>4
        <5>8. pc[0] = "running"
          BY <1>1, <1>3
        <5> QED BY <1>t, <5>6, <5>7, <5>8, RunTogether
      <4> QED BY <4>1, <4>2
    <3>3. \A places \in PlaceSets : Awaited(n, b, places)'
      BY <3>1, <3>2 DEF Awaited, PlaceSets
    <3> QED BY <3>3 DEF WrittenFor, StampFor, DumpFor, DataFor, PlaceSets
  <2> QED BY <2>1, <2>2
<1> QED BY <1>2, <1>3

Writing(r) == WriteStamp(r) \/ DumpDomain(r) \/ DumpData(r)

\* A rank writes the file that is awaited from it.
LEMMA WholeWritten ==
  ASSUME Types, ControlInv, NEW r \in Ranks, Writing(r), Moves(r), Tables',
         NEW b \in Ranks, NEW n \in dirs, WrittenFor(n, b)
  PROVE  WrittenFor(n, b)'
<1>t. /\ Tables /\ DiskType /\ (\A x \in Ranks : OwnInv(x))
  BY ControlParts DEF Types, Tables, DiskType, FilesType, Contents, Empty
<1>1. /\ N' = N /\ pc[r] \in {"making", "dumping", "filling"} /\ pc'[r] \in InSave
  BY <1>t DEF Writing, WriteStamp, DumpDomain, DumpData, Goes, Tables, InSave
<1>2. /\ N[r] \in Cycles /\ sim[r] \in 0 .. MaxStarts /\ sim[r] # 0 /\ n \in Cycles
  BY <1>1, <1>t DEF OwnInv, InSave, Past, Active, Tables, DiskType
<1>3. CASE n # N[r] \/ b # r
  <2>1. files'[n][b] = files[n][b]
    <3>1. \A m \in Cycles, x \in Ranks : m # N[r] \/ x # r => files'[m][x] = files[m][x]
      BY <1>t, <1>2, Written DEF Writing, WriteStamp, DumpDomain, DumpData, DiskType
    <3> QED BY <1>2, <1>3, <3>1
  <2>2. ASSUME NEW places \in PlaceSets, Awaited(n, b, places)
        PROVE  Awaited(n, b, places)'
    <3>1. b = r => N'[r] < n
      BY <1>1, <1>3, <2>2 DEF Awaited
    <3> QED BY <1>1, <2>2, <3>1, AwaitedStays
  <2> QED BY <2>1, <2>2, WholeStays
<1>4. CASE n = N[r] /\ b = r
  <2>0. WrittenFor(n, r) /\ ~ (N[r] < n) /\ files[n][r] \in Contents
    BY <1>2, <1>4, <1>t, RankFacts DEF DiskType, FilesType
  <2>a. ASSUME NEW places \in PlaceSets, pc'[r] \in places, Awaited(n, r, places)
        PROVE  Awaited(n, r, places)'
    <3>1. N'[r] = n /\ N'[0] = N[0]
      BY <1>1, <1>4
    <3> QED BY <1>1, <2>a, <3>1, AwaitedStays
  <2>n. ASSUME NEW places \in PlaceSets, pc[r] \notin places PROVE ~ Awaited(n, r, places)
    BY <2>0, <2>n DEF Awaited
  <2>2. CASE WriteStamp(r)
    <3>1. pc'[r] = "dumping" /\ files' = [files EXCEPT ![N[r]][r].stamp = sim[r]]
      BY <1>t, <2>2 DEF WriteStamp, Goes, Tables
    <3>2. /\ files'[n][r].stamp = sim[r] /\ files'[n][r].dump = files[n][r].dump
          /\ files'[n][r].data = files[n][r].data
      BY <1>2, <1>4, <1>t, <2>0, <3>1 DEF DiskType, FilesType, Contents
    <3>3. /\ Awaited(n, r, {"making", "dumping"}) => Awaited(n, r, {"making", "dumping"})'
          /\ Awaited(n, r, {"making", "dumping", "filling"}) =>
               Awaited(n, r, {"making", "dumping", "filling"})'
      BY <2>a, <3>1 DEF PlaceSets
    <3> QED BY <1>2, <1>4, <2>0, <3>2, <3>3 DEF WrittenFor, StampFor, DumpFor, DataFor
  <2>3. CASE DumpDomain(r)
    <3>1. /\ pc[r] = "dumping" /\ pc'[r] = "filling"
          /\ files' = [files EXCEPT ![N[r]][r].dump = sim[r]]
      BY <1>t, <2>3 DEF DumpDomain, Goes, Tables
    <3>2. /\ files'[n][r].dump = sim[r] /\ files'[n][r].stamp = files[n][r].stamp
          /\ files'[n][r].data = files[n][r].data
      BY <1>2, <1>4, <1>t, <2>0, <3>1 DEF DiskType, FilesType, Contents
    <3>3. /\ ~ Awaited(n, r, {"making"})
          /\ Awaited(n, r, {"making", "dumping", "filling"}) =>
               Awaited(n, r, {"making", "dumping", "filling"})'
      BY <2>a, <2>n, <3>1 DEF PlaceSets
    <3> QED BY <1>2, <1>4, <2>0, <3>2, <3>3 DEF WrittenFor, StampFor, DumpFor, DataFor
  <2>4. CASE DumpData(r)
    <3>1. pc[r] = "filling" /\ files' = [files EXCEPT ![N[r]][r].data = sim[r]]
      BY <2>4 DEF DumpData
    <3>2. /\ files'[n][r].data = sim[r] /\ files'[n][r].stamp = files[n][r].stamp
          /\ files'[n][r].dump = files[n][r].dump
      BY <1>2, <1>4, <1>t, <2>0, <3>1 DEF DiskType, FilesType, Contents
    <3>3. ~ Awaited(n, r, {"making"}) /\ ~ Awaited(n, r, {"making", "dumping"})
      BY <2>n, <3>1 DEF PlaceSets
    <3> QED BY <1>2, <1>4, <2>0, <3>2, <3>3 DEF WrittenFor, StampFor, DumpFor, DataFor
  <2> QED BY <2>2, <2>3, <2>4 DEF Writing
<1> QED BY <1>3, <1>4

\* When rank 0 comes out of a save, every rank has written its files.
LEMMA WholeEnded ==
  ASSUME Types, ControlInv, NEW r \in Ranks, SaveEnds(r), Moves(r), Tables',
         NEW b \in Ranks, NEW n, WrittenFor(n, b)
  PROVE  WrittenFor(n, b)'
<1>t. /\ Tables /\ (\A x \in Ranks : OwnInv(x)) /\ 0 \in Ranks /\ CallsInv /\ CyclesInv
  BY ControlParts, RankFacts DEF Types, Tables
<1>1. pc[r] = "saving" /\ N' = N /\ files' = files /\ Returns(r)
  BY DEF SaveEnds, disk
<1>2. CASE r # 0
  BY <1>1, <1>2, WholePassing
<1>3. CASE r = 0
  <2>1. ASSUME NEW places \in PlaceSets, Awaited(n, b, places) PROVE FALSE
    <3>0. n = N[0] /\ (N[b] < n \/ (N[b] = n /\ pc[b] \in {"making", "dumping", "filling"}))
      BY <2>1 DEF Awaited, PlaceSets
    <3>1. N[0] \in Cycles /\ Saves(N[0]) /\ N[0] \in Int /\ N[b] \in Int
      BY <1>1, <1>3, <1>t, CyclesType, RankFacts DEF OwnInv, InSave
    <3>2. \/ Called(b) = Called(0) /\ pc[b] = "saving"
          \/ Called(b) = Called(0) /\ pc[b] = "running"
          \/ Called(b) = Called(0) + 1 /\ pc[b] = "making"
      BY <1>1, <1>3, <1>t, SavedTogether
    <3>3. Past(0) /\ Past(b)
      BY <1>1, <1>3, <3>2 DEF Past, Active, InSave
    <3>4. CyclesAgree(b, 0)
      BY <1>t, <3>3 DEF CyclesInv
    <3>5. CASE Called(b) = Called(0) /\ pc[b] \in {"saving", "running"}
      <4>1. NoneDue(N[b], N[0])
        BY <3>4, <3>5 DEF CyclesAgree
      <4>2. ~ (N[b] < N[0])
        BY <3>1, <4>1 DEF NoneDue
      <4> QED BY <3>0, <3>5, <4>2
    <3>6. CASE Called(b) = Called(0) + 1 /\ pc[b] = "making"
      <4>1. N[0] < N[b]
        BY <3>4, <3>6 DEF CyclesAgree
      <4> QED BY <3>0, <3>1, <4>1
    <3> QED BY <3>2, <3>5, <3>6
  <2> QED BY <1>1, <2>1, WholeStays
<1> QED BY <1>2, <1>3

\* What rank 0 is removing, or about to remove
ToRemove(x) ==
  \/ pc[0] = "clearing" /\ todo[0] # << >> /\ InPlace /\ x = Head(todo[0])
  \/ pc[0] = "dumped" /\ x = N[0] - freq[N[0]]

\* It isn't the newest directory, unless that is the last of all.
LEMMA NotNewest ==
  ASSUME Types, ControlInv, ConstructorInv, ~ Discarding, NEW x \in dirs, ToRemove(x)
  PROVE  \E y \in dirs : x < y
<1>t. /\ Tables /\ 0 \in Ranks /\ (\A b \in Ranks : OwnInv(b)) /\ \A n \in dirs : n \in Nat
  BY ControlParts, RankFacts DEF Types, Tables
<1>1. CASE pc[0] = "clearing" /\ todo[0] # << >> /\ InPlace /\ x = Head(todo[0])
  <2>1. AllIn(Constructor)
    BY <1>1, <1>t, AllConstructing DEF AllIn, Past, Active, InSave, Constructor, Listed
  <2>2. Found(0) /\ TodoInv /\ pc[0] \in Listed
    BY <1>1, <1>t, <2>1, ConstructorParts DEF Listed
  <2>3. todo[0] \in Seq(Cycles) /\ x \in ToSet(todo[0])
    BY <1>1, <1>t, HeadAndTail DEF Tables
  <2>4. CASE restartdir[0] # NoCycle
    BY <2>2, <2>3, <2>4 DEF Found, TodoInv
  <2>5. CASE restartdir[0] = NoCycle
    <3>1. ~ do_restart
      BY <2>2, <2>5 DEF Found
    <3>2. Len(todo[0]) # 1 /\ Len(todo[0]) \in Nat /\ Len(todo[0]) # 0
      <4>1. Len(todo[0]) # 1
        BY <1>1, <3>1 DEF Discarding
      <4>2. Len(todo[0]) \in Nat /\ Len(todo[0]) # 0
        BY <1>1, <2>3
      <4> QED BY <4>1, <4>2
    <3>3. x = todo[0][1] /\ 1 \in 1 .. Len(todo[0]) /\ 2 \in 1 .. Len(todo[0])
      <4>1. Head(todo[0]) = todo[0][1]
        BY <2>3
      <4>2. Len(todo[0]) >= 2
        BY <3>2
      <4> QED BY <1>1, <3>2, <4>1, <4>2
    <3>4. todo[0][1] < todo[0][2]
      BY <2>2, <3>3 DEF TodoInv
    <3>5. todo[0][2] \in ToSet(todo[0])
      BY <2>3, <3>3 DEF ToSet
    <3> QED BY <2>2, <3>3, <3>4, <3>5 DEF TodoInv
  <2> QED BY <2>4, <2>5
<1>2. CASE pc[0] = "dumped" /\ x = N[0] - freq[N[0]]
  <2>1. N[0] \in dirs /\ N[0] \in Cycles
    BY <1>2, <1>t DEF OwnInv, InSave
  <2>2. freq[N[0]] \in Nat /\ freq[N[0]] > 0
    BY <2>1 DEF Types
  <2>3. N[0] \in Nat
    BY <1>t, <2>1
  <2>4. x < N[0]
    BY <1>2, <2>2, <2>3
  <2> QED BY <2>1, <2>4
<1> QED BY <1>1, <1>2 DEF ToRemove

\* A directory that is the newest after a step was so before, and what the step removes
\* lies in others.
LEMMA NewestStays ==
  ASSUME Types, ControlInv, ConstructorInv, ~ Discarding, NEW r \in Ranks, Rank(r),
         NEW n \in dirs, Newest(n)'
  PROVE  /\ Newest(n)
         /\ Removing(r) \/ RemoveUnneeded(r) \/ RemoveOld(r) => files'[n] = files[n]
<1>t. DiskType /\ \A m \in dirs : m \in Nat /\ m \in Cycles
  BY RankFacts DEF Types, DiskType, FilesType, Contents, Empty
<1>n. n \in dirs' /\ \A m \in dirs' : m <= n
  BY DEF Newest
<1>1. CASE Removing(r)
  <2>1. PICK x \in dirs : ToRemove(x) /\ \A m \in Cycles : m # x => files'[m] = files[m]
    BY <1>1, <1>t, RemovingFiles DEF ToRemove
  <2>2. dirs' = dirs
    BY <1>1, RemovingFacts
  <2>3. PICK y \in dirs : x < y
    BY <2>1, NotNewest
  <2>4. x # n
    BY <1>n, <1>t, <2>2, <2>3
  <2> QED BY <1>n, <1>t, <2>1, <2>2, <2>4 DEF Newest
<1>2. CASE RemoveUnneeded(r) \/ RemoveOld(r)
  <2>1. CASE UNCHANGED disk
    BY <1>n, <2>1 DEF disk, Newest
  <2>2. CASE ~ UNCHANGED disk
    <3>1. PICK x \in dirs : ToRemove(x) /\ r = 0 /\ RemoveDirectory(r, x)
      <4>1. CASE RemoveUnneeded(r)
        <5>1. InPlace /\ RemoveDirectory(r, Head(todo[r])) /\ pc[r] = "clearing" /\ todo[r] # << >>
          BY <2>2, <4>1 DEF RemoveUnneeded
        <5>2. r = 0 /\ Head(todo[r]) \in dirs
          BY <2>2, <5>1 DEF RemoveDirectory
        <5> QED BY <5>1, <5>2 DEF ToRemove
      <4>2. CASE RemoveOld(r)
        <5>1. pc[r] = "dumped" /\ RemoveDirectory(r, N[r] - freq[N[r]])
          BY <4>2 DEF RemoveOld
        <5>2. r = 0 /\ N[r] - freq[N[r]] \in dirs
          BY <2>2, <5>1 DEF RemoveDirectory
        <5> QED BY <5>1, <5>2 DEF ToRemove
      <4> QED BY <1>2, <4>1, <4>2
    <3>2. dirs' = dirs \ {x} /\ \A m \in dirs' : files'[m] = files[m]
      BY <1>t, <3>1, RemovedType
    <3>3. PICK y \in dirs : x < y
      BY <3>1, NotNewest
    <3>4. y \in dirs' /\ y <= n /\ x \in Nat /\ y \in Nat /\ n \in Nat
      BY <1>n, <1>t, <3>2, <3>3
    <3>5. x <= n
      BY <3>3, <3>4
    <3>6. \A m \in dirs : m <= n
      BY <1>n, <3>2, <3>5
    <3> QED BY <1>n, <3>2, <3>6 DEF Newest
  <2> QED BY <2>1, <2>2
<1>3. CASE ~ Removing(r) /\ ~ RemoveUnneeded(r) /\ ~ RemoveOld(r)
  <2>1. dirs \subseteq dirs'
    BY <1>3 DEF Rank, Removing, List, NextUnneeded, LoadState, GetValue, NothingToLoad, Compute,
                Export, SaveState, WriteStamp, DumpDomain, DumpData, SaveEnds, MakeDirectory, disk
  <2> QED BY <1>3, <1>n, <2>1 DEF Newest
<1> QED BY <1>1, <1>2, <1>3

\* When rank 0 has removed the last directory, none is left.
LEMMA Discarded ==
  ASSUME Types, ControlInv, ConstructorInv, Discarding, NEW r \in Ranks, Rank(r), ~ Discarding'
  PROVE  dirs' = {}
<1>t. /\ Tables /\ Tables' /\ Moves(r) /\ 0 \in Ranks /\ DiskType
  BY StepTypes, RankFacts DEF Types, Tables, DiskType, FilesType, Contents, Empty
<1>1. InPlace /\ ~ do_restart /\ pc[0] = "clearing" /\ Len(todo[0]) = 1 /\ todo[0] \in Seq(Cycles)
  BY <1>t DEF Discarding, Tables
<1>2. AllIn(Constructor)
  BY <1>1, <1>t, AllConstructing DEF AllIn, Past, Active, InSave, Constructor, Listed
<1>3. Found(0) /\ TodoInv /\ pc[0] \in Listed
  BY <1>1, <1>2, <1>t, ConstructorParts DEF Listed
<1>4. dirs \subseteq {Head(todo[0])}
  <2>1. restartdir[0] = NoCycle /\ dirs \subseteq ToSet(todo[0]) \cup {NoCycle}
    BY <1>1, <1>3 DEF Found, TodoInv
  <2>2. ToSet(todo[0]) = {Head(todo[0])}
    BY <1>1 DEF ToSet
  <2>3. NoCycle \notin dirs
    BY RankFacts DEF Types, NoCycle
  <2> QED BY <2>1, <2>2, <2>3
<1>5. ~ (pc'[0] = pc[0] /\ todo'[0] = todo[0])
  BY <1>1, <1>t DEF Discarding, Moves
<1>6. r = 0 /\ ~ Removing(r)
  BY <1>5, <1>t, RemovingFacts DEF Moves, SameFor
<1>7. RemoveUnneeded(0)
  <2>1. todo[0] # << >>
    BY <1>1
  <2> QED BY <1>1, <1>6, <2>1 DEF Rank, Removing, List, NextUnneeded, LoadState, GetValue,
                                  NothingToLoad, Compute, Export, SaveState, WriteStamp,
                                  DumpDomain, DumpData, RemoveOld, SaveEnds
<1>8. RemoveDirectory(0, Head(todo[0]))
  BY <1>1, <1>7 DEF RemoveUnneeded
<1>9. dirs' = dirs \ {Head(todo[0])}
  BY <1>8, <1>t, RemovedType
<1> QED BY <1>4, <1>9

\* As long as no program was killed in a save, or where it removed the last directory, a
\* file of the newest is missing only where rank 0 is saving and the rank has yet to write it.
LEMMA WholeStep ==
  ASSUME Types, ControlInv, ConstructorInv, WholeInv, NEW r \in Ranks, Rank(r)
  PROVE  WholeInv'
<1>t. /\ Tables /\ Tables' /\ Moves(r) /\ DiskType /\ DiskType' /\ CyclesInv' /\ torn' = torn
      /\ CallsInv /\ 0 \in Ranks
  BY StepTypes, DiskStep, CyclesStep, ControlParts, RankFacts
     DEF Types, Tables, DiskType, FilesType, Contents, Empty, Moves
<1> SUFFICES ASSUME torn = 0, ~ Discarding', NEW n \in Cycles, NEW b \in Ranks, Newest(n)'
             PROVE  WrittenFor(n, b)'
  BY <1>t DEF WholeInv, WrittenFor, StampFor, DumpFor, DataFor
<1>n. n \in dirs'
  BY DEF Newest
<1>d. ~ Discarding
  BY <1>n, Discarded
<1>w. n \in dirs => /\ WrittenFor(n, b)
                    /\ Removing(r) \/ RemoveUnneeded(r) \/ RemoveOld(r) => files'[n] = files[n]
  BY <1>d, NewestStays, WholeParts
<1>r. Removing(r) \/ RemoveUnneeded(r) \/ RemoveOld(r) => n \in dirs
  <2>1. ASSUME NEW x, RemoveDirectory(r, x) PROVE n \in dirs
    BY <1>n, <1>t, <2>1, RemovedType
  <2> QED BY <1>n, <2>1, RemovingFacts DEF RemoveUnneeded, RemoveOld, disk
<1>1. CASE AllArePast
  <2>0. PastStep(r)
    BY <1>1, PastSteps DEF AllArePast
  <2>1. CASE Compute(r)
    <3>1. /\ pc[r] = "computing" /\ N' = N /\ files' = files /\ n \in dirs
      BY <1>n, <2>1 DEF Compute, disk
    <3>2. r = 0 /\ pc[0] \in InSave => pc'[0] \in InSave
      BY <3>1 DEF InSave
    <3> QED BY <1>t, <1>w, <3>1, <3>2, WholePassing
  <2>2. CASE Export(r)
    <3>1. n \in dirs
      BY <1>n, <2>2 DEF Export, disk
    <3> QED BY <1>t, <1>w, <2>2, <3>1, WholeExported
  <2>3. CASE SaveState(r)
    BY <1>n, <1>t, <1>w, <2>3, WholeMade
  <2>4. CASE Writing(r)
    <3>1. n \in dirs
      BY <1>n, <2>4 DEF Writing, WriteStamp, DumpDomain, DumpData
    <3> QED BY <1>t, <1>w, <2>4, <3>1, WholeWritten
  <2>5. CASE RemoveOld(r) \/ RemovingOld(r)
    <3>1. /\ pc[r] = "dumped" /\ N' = N /\ pc'[r] \in {"dumped", "saving"}
      BY <1>t, <2>5 DEF RemoveOld, RemovingOld, Goes, Tables
    <3>2. r = 0 /\ pc[0] \in InSave => pc'[0] \in InSave
      BY <3>1 DEF InSave
    <3>3. WrittenFor(n, b) /\ files'[n] = files[n]
      BY <1>r, <1>w, <2>5 DEF Removing
    <3> QED BY <1>t, <3>1, <3>2, <3>3, WholePassing
  <2>6. CASE SaveEnds(r)
    <3>1. n \in dirs
      BY <1>n, <2>6 DEF SaveEnds, disk
    <3> QED BY <1>t, <1>w, <2>6, <3>1, WholeEnded
  <2> QED BY <2>0, <2>1, <2>2, <2>3, <2>4, <2>5, <2>6 DEF PastStep, Writing
<1>2. CASE ~ AllArePast
  <2>1. StartStep(r) /\ pc[0] \notin Active
    BY <1>2, <1>t, StartSteps
  <2>2. n \in dirs /\ files'[n] = files[n]
    <3>1. CASE Removing(r) \/ RemoveUnneeded(r)
      BY <1>r, <1>w, <3>1
    <3>2. CASE ~ Removing(r) /\ ~ RemoveUnneeded(r)
      BY <1>n, <2>1, <3>2 DEF StartStep, Removing, List, NextUnneeded, LoadState, GetValue,
                              NothingToLoad, disk
    <3> QED BY <3>1, <3>2
  <2>3. WholeFor(n, b)
    BY <1>w, <2>1, <2>2, NothingAwaited DEF Active
  <2> QED BY <2>2, <2>3 DEF WholeFor, LoadableFor, WrittenFor, StampFor, DumpFor, DataFor
<1> QED BY <1>1, <1>2

-----------------------------------------------------------------------------
(* The whole program: its start and its end                                *)

\* Every rank holds the same: the tables of a program that starts or has ended
LEMMA EveryoneHas ==
  ASSUME NEW x, NEW r \in Ranks
  PROVE  Everyone(x)[r] = x
  BY DEF Everyone

AllAt(p, c) ==
  /\ pc = Everyone(p) /\ calls = Everyone(c) /\ left = Everyone(0)
  /\ N = Everyone(NoCycle) /\ restartdir = Everyone(NoCycle) /\ todo = Everyone(<< >>)

\* Every rank is in its first call or makes none.
LEMMA FirstCalls ==
  ASSUME AllAt("down", << >>) \/ AllAt("listing", <<"mkDir">>), torn \in Nat, starts \in Nat,
         AllAt("listing", <<"mkDir">>) => torn < starts
  PROVE  ControlInv
<1>0. 0 \in Ranks
  BY RankFacts
<1>1. ASSUME NEW r \in Ranks
      PROVE  /\ pc[r] \in {"down", "listing"} /\ left[r] = 0
             /\ pc[r] = "down" => calls[r] = << >>
             /\ pc[r] = "listing" => calls[r] = <<"mkDir">>
  BY EveryoneHas DEF AllAt
<1>2. \A r \in Ranks : ~ Past(r) /\ pc[r] \notin Active
  BY <1>1 DEF Past, Active, InSave
<1>3. ASSUME NEW r \in Ranks PROVE RankInv(r)
  <2>1. CallInv(r)
    <3>1. Computes(r, 0) = {}
      BY DEF Computes
    <3>2. CASE pc[r] = "down"
      <4>1. Called(r) = 0
        BY <1>1, <3>2 DEF Called
      <4> QED BY <1>1, <1>2, <3>1, <3>2, <4>1 DEF CallInv, KindAt
    <3>3. CASE pc[r] = "listing"
      <4>1. Called(r) = 1 /\ calls[r][1] = "mkDir"
        BY <1>1, <3>3 DEF Called
      <4>2. Computes(r, 1) = {}
        BY <4>1 DEF Computes
      <4> QED BY <1>1, <1>2, <3>1, <3>3, <4>1, <4>2 DEF CallInv, KindAt
    <3> QED BY <1>1, <3>2, <3>3
  <2>2. pc[r] # "down" => torn < starts
    BY EveryoneHas DEF AllAt
  <2> QED BY <1>1, <1>2, <2>1, <2>2 DEF RankInv, InSave, Active
<1>4. \A a, b \in Ranks : pc[a] = "down" => pc[b] = "down"
  BY EveryoneHas DEF AllAt
<1>5. \A a, b \in Ranks : CallsAgree(a, b)
  <2>1. ASSUME NEW b \in Ranks PROVE 0 <= Called(b)
    <3>1. Called(b) \in {0, 1}
      BY <1>1 DEF Called
    <3> QED BY <3>1
  <2> QED BY <1>1, <2>1 DEF CallsAgree
<1>6. pc[0] # "making"
  BY <1>0, <1>1
<1> QED BY <1>2, <1>3, <1>4, <1>5, <1>6 DEF ControlInv

First ==
  /\ AllAt("down", << >>) \/ AllAt("listing", <<"mkDir">>)
  /\ \E s \in 0 .. MaxStarts : sim = Everyone(s)

\* Before anything is called all is typed.
LEMMA FirstTypes == First => Tables
<1> SUFFICES ASSUME First PROVE Tables
  OBVIOUS
<1>1. << >> \in Seq(Kinds) /\ <<"mkDir">> \in Seq(Kinds) /\ << >> \in Seq(Cycles)
  BY DEF Kinds
<1>2. /\ pc \in [Ranks -> Places]
      /\ calls \in [Ranks -> Seq(Kinds)]
  BY <1>1 DEF First, AllAt, Everyone, Places
<1>3. /\ N \in [Ranks -> Cycles \cup {NoCycle}]
      /\ restartdir \in [Ranks -> Cycles \cup {NoCycle}]
      /\ todo \in [Ranks -> Seq(Cycles)]
      /\ left \in [Ranks -> Nat]
  <2>1. NoCycle \in Cycles \cup {NoCycle} /\ << >> \in Seq(Cycles) /\ 0 \in Nat
    BY <1>1
  <2>2. /\ N = Everyone(NoCycle) /\ restartdir = Everyone(NoCycle)
        /\ todo = Everyone(<< >>) /\ left = Everyone(0)
    BY DEF First, AllAt
  <2>3. ASSUME NEW S, NEW x \in S PROVE Everyone(x) \in [Ranks -> S]
    BY DEF Everyone
  <2> QED BY <2>1, <2>2, <2>3
<1>4. sim \in [Ranks -> 0 .. MaxStarts]
  BY DEF First, Everyone
<1> QED BY <1>2, <1>3, <1>4 DEF Tables

\* Between two runs of the program the newest directory is whole.
NothingMissing ==
  torn = 0 => \A n \in Cycles, b \in Ranks : Newest(n) => WholeFor(n, b)

Idle == AllAt("down", << >>)
Started ==
  /\ AllAt("listing", <<"mkDir">>)
  /\ torn < starts /\ sim = Everyone(starts)
  /\ ~ do_restart => saved = NoCycle

\* The invariant holds whenever no rank has called anything.
LEMMA FirstInv ==
  (Idle \/ Started) /\ Types /\ SavedKept /\ AllOneSimulation /\ NothingMissing => IInv
<1> SUFFICES ASSUME Idle \/ Started, Types, SavedKept, AllOneSimulation, NothingMissing PROVE IInv
  OBVIOUS
<1>a. AllAt("down", << >>) \/ AllAt("listing", <<"mkDir">>)
  BY DEF Idle, Started
<1>0. 0 \in Ranks /\ torn \in Nat /\ starts \in Nat
  BY RankFacts DEF Types
<1>2. \A r \in Ranks : pc[r] \in {"down", "listing"}
  BY <1>a, EveryoneHas DEF AllAt
<1>b. AllAt("listing", <<"mkDir">>) => Started
  <2>1. AllAt("listing", <<"mkDir">>) => ~ Idle
    BY <1>0, EveryoneHas DEF AllAt, Idle
  <2> QED BY <2>1
<1>1. ControlInv
  BY <1>0, <1>a, <1>b, FirstCalls DEF Started
<1>3. ConstructorInv
  <2> SUFFICES ASSUME AllIn(Constructor)
               PROVE  /\ \A r \in Ranks : Found(r)
                      /\ TodoInv
                      /\ ~ do_restart => saved = NoCycle
    BY ConstructorParts
  <2>1. \A r \in Ranks : pc[r] = "listing"
    BY <1>2 DEF AllIn, Constructor, Listed
  <2>2. Started
    BY <1>0, <2>1, EveryoneHas DEF AllAt, Idle
  <2>3. \A r \in Ranks : restartdir[r] = NoCycle /\ N[r] = NoCycle /\ sim[r] = starts
    BY <2>2, EveryoneHas DEF AllAt, Started
  <2>4. \A r \in Ranks : Found(r)
    BY <2>1, <2>3 DEF Found, Listed
  <2>5. TodoInv
    BY <1>0, <2>1 DEF TodoInv, Listed
  <2> QED BY <2>2, <2>4, <2>5 DEF Started
<1>4. RunningInv
  BY <1>2 DEF RunningInv, Active, InSave
<1>5. WholeInv
  BY DEF WholeInv, NothingMissing, WholeFor, LoadableFor
<1> QED BY <1>1, <1>3, <1>4, <1>5 DEF IInv, AllOneSimulation

\* It holds at first,
LEMMA InitInv == Init => IInv
<1> SUFFICES ASSUME Init PROVE IInv
  OBVIOUS
<1>1. Idle
  BY DEF Init, Idle, AllAt
<1>2. First
  BY <1>1, RankFacts DEF Init, Idle, First
<1>3. Tables
  BY <1>2, FirstTypes
<1>4. DiskType
  BY EmptyType, RankFacts DEF Init, DiskType, FilesType, Contents, Empty
<1>5. Types
  BY <1>3, <1>4, RankFacts DEF Types, Tables, DiskType, FilesType, Contents, Empty, Init
<1>6. SavedKept /\ dirs = {}
  BY DEF Init, SavedKept
<1>7. AllOneSimulation
  <2>1. \A n \in Cycles : files[n] = Empty
    BY <1>4, <1>6 DEF DiskType
  <2>2. 0 \in 0 .. MaxStarts
    BY RankFacts
  <2> QED BY <2>1, <2>2, EmptyWritten DEF AllOneSimulation, OneSimulation
<1>8. NothingMissing
  BY <1>6 DEF NothingMissing, Newest
<1> QED BY <1>1, <1>5, <1>6, <1>7, <1>8, FirstInv

\* after a program is started,
LEMMA ProgramStarts ==
  ASSUME IInv, NEW restart \in BOOLEAN, NEW schedule \in Schedules, Start(restart, schedule)
  PROVE  IInv'
<1>t. Types /\ SavedKept /\ AllOneSimulation /\ WholeInv /\ 0 \in Ranks
  BY RankFacts DEF IInv, AllOneSimulation
<1>1. /\ AllAt("listing", <<"mkDir">>)'
      /\ sim' = Everyone(starts') /\ starts' = starts + 1 /\ torn' = torn
      /\ dirs' = dirs /\ files' = files /\ freq' = schedule /\ do_restart' = restart
      /\ saved' = (IF restart THEN saved ELSE NoCycle)
  BY DEF Start, AllAt, Everyone, disk
<1>2. starts' \in 0 .. MaxStarts /\ torn' \in 0 .. starts' /\ torn' < starts'
  BY <1>1, <1>t, RankFacts DEF Start, Types
<1>3. Tables'
  <2>1. First'
    BY <1>1, <1>2 DEF First, Everyone
  <2> QED BY <2>1, FirstTypes, PTL
<1>4. Types'
  <2>1. freq' \in [Cycles -> Nat \ {0}]
    BY <1>1, SchedulesAssumption DEF Cycles
  <2> QED BY <1>1, <1>2, <1>3, <1>t, <2>1 DEF Types, Tables, Everyone, NoFiles
<1>5. SavedKept' /\ AllOneSimulation'
  BY <1>1, <1>t DEF SavedKept, AllOneSimulation, OneSimulation, WrittenBy
<1>6. pc[0] \notin InSave /\ ~ Discarding
  BY <1>t DEF Start, InSave, Discarding
<1>7. NothingMissing'
  <2>1. NothingMissing
    BY <1>6, <1>t, NothingAwaited, WholeParts DEF NothingMissing
  <2> QED BY <1>1, <2>1 DEF NothingMissing, Newest, WholeFor, LoadableFor
<1>8. Started'
  BY <1>1, <1>2 DEF Started, Everyone
<1> QED BY <1>4, <1>5, <1>7, <1>8, FirstInv, PTL

\* after it has stopped or was killed,
LEMMA ProgramStops ==
  ASSUME IInv, Stop
  PROVE  IInv'
<1>t. Types /\ SavedKept /\ AllOneSimulation /\ WholeInv /\ ControlInv /\ 0 \in Ranks
  BY RankFacts DEF IInv, AllOneSimulation
<1>1. /\ AllAt("down", << >>)' /\ sim' = Everyone(0) /\ starts' = starts
      /\ dirs' = dirs /\ files' = files /\ freq' = [n \in Cycles |-> 1] /\ do_restart' = TRUE
      /\ saved' = saved /\ torn' = (IF Saving \/ Discarding THEN torn + 1 ELSE torn)
  BY DEF Stop, AllAt, Everyone, disk
<1>2. torn' \in 0 .. starts
  <2>1. PICK r \in Ranks : pc[r] # "down"
    BY DEF Stop
  <2>2. torn < starts
    BY <1>t, <2>1, ControlParts DEF OwnInv
  <2> QED BY <1>1, <1>t, <2>2 DEF Types
<1>3. Tables'
  <2>1. First'
    BY <1>1, RankFacts DEF First, Everyone
  <2> QED BY <2>1, FirstTypes, PTL
<1>4. Types'
  <2>1. freq' \in [Cycles -> Nat \ {0}]
    BY <1>1
  <2> QED BY <1>1, <1>2, <1>3, <1>t, <2>1 DEF Types, Tables, Everyone, NoFiles
<1>5. SavedKept' /\ AllOneSimulation'
  BY <1>1, <1>t DEF SavedKept, AllOneSimulation, OneSimulation, WrittenBy
<1>6. torn' = 0 => torn = 0 /\ pc[0] \notin InSave /\ ~ Discarding
  BY <1>1, <1>t DEF Saving, InSave, Types
<1>7. NothingMissing'
  <2>1. torn' = 0 => \A n \in Cycles, b \in Ranks : Newest(n) => WholeFor(n, b)
    BY <1>6, <1>t, NothingAwaited, WholeParts
  <2> QED BY <1>1, <2>1 DEF NothingMissing, Newest, WholeFor, LoadableFor
<1>8. Idle'
  BY <1>1 DEF Idle
<1> QED BY <1>4, <1>5, <1>7, <1>8, FirstInv, PTL

\* after a step that changes nothing,
LEMMA Stutters ==
  ASSUME IInv, UNCHANGED vars
  PROVE  IInv'
<1> USE DEF vars, disk, history
<1>1. Types'
  BY DEF IInv, Types, Everyone, NoFiles
<1>2. ControlInv'
  <2>1. \A b : SameFor(b)
    BY DEF SameFor
  <2>2. \A b : Past(b)' <=> Past(b)
    BY DEF Past
  <2>3. \A b \in Ranks : CallInv(b)'
    BY <2>1, CallInvStays DEF IInv, ControlInv, RankInv
  <2>4. \A a, b \in Ranks : CallsAgree(a, b)'
    BY CallsAgreeStays DEF IInv, ControlInv
  <2>5. \A a, b \in Ranks : CyclesAgree(a, b)' <=> CyclesAgree(a, b)
    BY DEF CyclesAgree, NoneDue, Saves, Called
  <2>6. \A b \in Ranks : RankInv(b)'
    BY <2>2, <2>3 DEF IInv, ControlInv, RankInv, Saves
  <2> QED BY <2>2, <2>4, <2>5, <2>6 DEF IInv, ControlInv
<1>3. SavedKept' /\ AllOneSimulation'
  BY DEF IInv, SavedKept, AllOneSimulation, OneSimulation, WrittenBy
<1>4. ConstructorInv'
  BY DEF IInv, ConstructorInv, Found, WholeFor, LoadableFor
<1>5. RunningInv'
  BY DEF IInv, RunningInv, RunningFrom, Kept, Own, Removed, Unfinished, Saves, WrittenBy
<1>6. WholeInv'
  BY DEF IInv, WholeInv, Awaited, Newest, Discarding
<1> QED BY <1>1, <1>2, <1>3, <1>4, <1>5, <1>6 DEF IInv, AllOneSimulation

\* and after every step.
LEMMA StepInv == IInv /\ [Next]_vars => IInv'
<1> SUFFICES ASSUME IInv, [Next]_vars PROVE IInv'
  OBVIOUS
<1>i. /\ Types /\ ControlInv /\ SavedKept /\ AllOneSimulation /\ ConstructorInv /\ RunningInv
      /\ WholeInv
  BY DEF IInv, AllOneSimulation
<1>1. ASSUME NEW restart \in BOOLEAN, NEW schedule \in Schedules, Start(restart, schedule)
      PROVE  IInv'
  BY <1>1, ProgramStarts
<1>2. ASSUME NEW r \in Ranks, Rank(r) PROVE IInv'
  <2>1. Types' /\ ControlInv' /\ ConstructorInv'
    BY <1>2, <1>i, TypesStep, ControlStep, ConstructorStep
  <2>2. SavedKept' /\ WholeInv'
    BY <1>2, <1>i, SavedStep, WholeStep
  <2>3. RunningInv' /\ AllOneSimulation'
    BY <1>2, <1>i, SimulationsStep
  <2> QED BY <2>1, <2>2, <2>3 DEF IInv, AllOneSimulation
<1>3. CASE Stop
  BY <1>3, ProgramStops
<1>4. CASE Finished \/ UNCHANGED vars
  BY <1>4, Stutters DEF Finished
<1> QED BY <1>1, <1>2, <1>3, <1>4 DEF Next

-----------------------------------------------------------------------------
(* Theorems                                                                *)

\* The invariant holds however often the program is killed and started again.
THEOREM Invariance == Spec => []IInv
<1> QED BY InitInv, StepInv, PTL DEF Spec

\* The state has its types: directories are named after cycles, files hold simulations
\* that were started, and a directory that isn't there holds no file.
THEOREM TypeOKHolds == Spec => []TypeOK
<1>1. IInv => TypeOK
  <2> SUFFICES ASSUME IInv PROVE TypeOK
    OBVIOUS
  <2>1. Types /\ CallsInv
    BY ControlParts DEF IInv
  <2>2. Tables
    BY <2>1 DEF Types, Tables
  <2>3. ASSUME NEW r \in Ranks PROVE ToSet(todo[r]) \subseteq Cycles /\ left[r] \in 0 .. Len(calls[r])
    <3>1. todo[r] \in Seq(Cycles)
      BY <2>1 DEF Types
    <3>2. ToSet(todo[r]) \subseteq Cycles
      BY <3>1 DEF ToSet
    <3>3. left[r] \in Nat /\ Called(r) \in Nat /\ (Called(r) = left[r] \/ Called(r) = left[r] + 1)
      BY <2>1, <2>2, Counted
    <3> QED BY <3>2, <3>3 DEF Called
  <2>4. torn \in 0 .. MaxStarts
    BY <2>1, RankFacts DEF Types
  <2> QED BY <2>1, <2>3, <2>4 DEF Types, TypeOK, Places
<1> QED BY <1>1, Invariance, PTL

\* A rank that holds a restart directory has the program's other ranks with it.
LEMMA RestartedTogether ==
  ASSUME IInv, NEW r \in Ranks, Restarted(r)
  PROVE  \/ AllIn(Constructor) /\ pc[r] \in Listed /\ \A b \in Ranks : Found(b)
         \/ \E d \in Cycles \cup {NoCycle} : RunningFrom(d)
<1>1. Types /\ ControlInv /\ ConstructorInv /\ RunningInv /\ Tables
  BY DEF IInv, Types, Tables
<1>2. CASE \E b \in Ranks : pc[b] \in Active
  BY <1>1, <1>2 DEF RunningInv
<1>3. CASE ~ \E b \in Ranks : pc[b] \in Active
  <2>1. pc[r] \in Listed
    BY <1>3 DEF Restarted, Active, Listed
  <2>2. AllIn(Constructor)
    <3>1. \A b \in Ranks : pc[b] # "down" /\ pc[b] \in Places
      BY <1>1, <2>1, ControlParts DEF Tables, Listed
    <3> QED BY <1>3, <3>1 DEF AllIn, Places, Active, InSave, Constructor, Listed
  <2> QED BY <1>1, <2>1, <2>2, ConstructorParts
<1> QED BY <1>2, <1>3

\* A restart continues from the last checkpoint that was finished, or a later one, and
\* from the same one on every rank, whenever the program was killed before.
THEOREM RestartsFromNewestHolds == Spec => []RestartsFromNewest
<1>1. IInv => RestartsFromNewest
  <2> SUFFICES ASSUME IInv PROVE RestartsFromNewest
    OBVIOUS
  <2>t. Types /\ SavedKept /\ dirs \subseteq Cycles
    BY DEF IInv, Types
  <2>1. ASSUME NEW r \in Ranks, Restarted(r) PROVE restartdir[r] >= saved
    <3>i. restartdir[r] \in Int /\ saved \in Int /\ restartdir[r] >= -1
      <4>1. restartdir[r] \in Cycles \cup {NoCycle} /\ saved \in Cycles \cup {NoCycle}
        BY <2>t DEF Types
      <4>2. \A n \in Cycles \cup {NoCycle} : n \in Int /\ n >= -1
        BY RankFacts DEF NoCycle
      <4> QED BY <4>1, <4>2
    <3>1. CASE \E d \in Cycles \cup {NoCycle} : RunningFrom(d)
      <4>1. saved <= restartdir[r]
        BY <2>1, <3>1 DEF RunningFrom, Restarted
      <4> QED BY <3>i, <4>1
    <3>2. CASE AllIn(Constructor) /\ pc[r] \in Listed /\ \A b \in Ranks : Found(b)
      <4>1. do_restart /\ restartdir[r] \in dirs /\ \A n \in dirs : n <= restartdir[r]
        BY <2>1, <3>2 DEF Found, Listed, Restarted
      <4>2. CASE saved = NoCycle
        BY <3>i, <4>2 DEF NoCycle
      <4>3. CASE saved # NoCycle
        <5>1. PICK n \in dirs : n >= saved
          BY <2>t, <4>3 DEF SavedKept
        <5>2. n \in Int /\ n <= restartdir[r]
          BY <2>t, <4>1, <5>1, RankFacts
        <5> QED BY <3>i, <5>1, <5>2
      <4> QED BY <4>2, <4>3
    <3> QED BY <2>1, <3>1, <3>2, RestartedTogether
  <2>2. ASSUME NEW a \in Ranks, NEW b \in Ranks, Restarted(a), Restarted(b)
        PROVE  restartdir[a] = restartdir[b]
    <3>1. CASE \E d \in Cycles \cup {NoCycle} : RunningFrom(d)
      BY <2>2, <3>1 DEF RunningFrom, Restarted
    <3>2. CASE AllIn(Constructor) /\ \A x \in Ranks : Found(x)
      <4>1. pc[a] \in Listed /\ pc[b] \in Listed
        BY <2>2, <3>2 DEF AllIn, Restarted, Constructor, Listed
      <4> QED BY <2>t, <3>2, <4>1, FoundTogether
    <3> QED BY <2>2, <3>1, <3>2, RestartedTogether
  <2> QED BY <2>1, <2>2 DEF RestartsFromNewest
<1> QED BY <1>1, Invariance, PTL

\* With work_dir the current directory, stamps and domains that all ranks could load are
\* of one simulation, and so are the data that are there; data may be missing, which a
\* rank finds out before it goes on.
THEOREM RestartsOneSimulationHolds ==
  ASSUME InPlace = TRUE
  PROVE  Spec => []RestartsOneSimulation
<1>1. IInv => RestartsOneSimulation
  <2> DEFINE Holds(r) ==
        /\ files[N[r]][r].stamp = sim[0] /\ files[N[r]][r].dump = sim[0]
        /\ files[N[r]][r].data = sim[0] \/ (files[N[r]][r].data = 0 /\ pc[r] = "reading")
  <2> SUFFICES ASSUME IInv, \A r \in Ranks : Restarted(r), NEW r \in Ranks PROVE Holds(r)
    BY DEF RestartsOneSimulation
  <2>t. /\ 0 \in Ranks /\ Types /\ dirs \subseteq Cycles /\ AllOneSimulation /\ RunningInv
        /\ ControlInv /\ ConstructorInv
    BY RankFacts DEF IInv, Types, AllOneSimulation
  <2>1. CASE \E b \in Ranks : pc[b] \in Active
    <3>1. PICK d \in Cycles \cup {NoCycle} : RunningFrom(d)
      BY <2>1, <2>t DEF RunningInv
    <3>2. restartdir[0] # NoCycle /\ restartdir[r] # NoCycle
      BY <2>t DEF Restarted
    <3>3. N[r] = d /\ sim[r] = sim[0]
      BY <2>t, <3>1, <3>2 DEF RunningFrom
    <3>4. files[d][r] = [stamp |-> sim[r], dump |-> sim[r], data |-> sim[r]]
      BY <3>1, <3>2 DEF RunningFrom
    <3> QED BY <3>3, <3>4
  <2>2. CASE ~ \E b \in Ranks : pc[b] \in Active
    <3>1. \A b \in Ranks : pc[b] \in {"reading", "computing"} /\ restartdir[b] # NoCycle
      BY <2>2 DEF Restarted, Active
    <3>2. \A b \in Ranks : Found(b) /\ pc[b] \in Listed
      BY <2>t, <3>1, ConstructorParts DEF AllIn, Constructor, Listed
    <3>3. PICK d \in Cycles : N[0] = d /\ N[r] = d
      <4>1. restartdir[r] = restartdir[0] /\ restartdir[r] \in Cycles
        BY <2>t, <3>1, <3>2, FoundTogether DEF Types
      <4>2. N[0] = restartdir[0] /\ N[r] = restartdir[r]
        BY <2>t, <3>1, <3>2 DEF Found
      <4> QED BY <4>1, <4>2
    <3>4. PICK s \in 0 .. MaxStarts : WrittenBy(d, s)
      BY <2>t DEF AllOneSimulation, OneSimulation
    <3>5. \A b \in {0, r} : LoadableFor(d, b) /\ sim[b] = files[d][b].stamp
      BY <2>t, <3>1, <3>2, <3>3 DEF Found
    <3>6. /\ files[d][0].stamp \in {0, s}
          /\ files[d][r].stamp \in {0, s} /\ files[d][r].dump \in {0, s}
          /\ files[d][r].data \in {0, s}
      BY <2>t, <3>4 DEF WrittenBy
    <3>7. sim[0] = s /\ files[d][r].stamp = s /\ files[d][r].dump = s
      BY <3>5, <3>6 DEF LoadableFor
    <3>8. pc[r] = "computing" => files[d][r].data # 0
      BY <3>1, <3>2, <3>3 DEF Found, WholeFor
    <3> QED BY <3>1, <3>3, <3>6, <3>7, <3>8
  <2> QED BY <2>1, <2>2
<1> QED BY <1>1, Invariance, PTL

\* Between two checkpoints in a row that are both kept the frequency changes: else the
\* save one frequency after the first has removed it.
LEMMA KeptApart ==
  ASSUME Types, NEW d \in Int, Unfinished = {}, N[0] \in Nat,
         NEW n \in Own(d) \ Removed(d), NEW m \in Own(d) \ Removed(d), n < m
  PROVE  \E k \in Changes(N[0]) : n < k /\ k <= m
<1> DEFINE f == freq[n]
           B == {k \in Cycles : n <= k /\ k <= m /\ freq[k] # f}
<1>t. n \in Cycles /\ m \in Cycles /\ n \in Nat /\ m \in Nat /\ m <= N[0] /\ d < n
  BY RankFacts DEF Own
<1>f. f \in Nat \ {0}
  BY <1>t DEF Types
<1>1. CASE B # {}
  <2>1. PICK k \in B : \A j \in B : k <= j
    <3>1. B \subseteq Nat
      BY RankFacts
    <3> QED BY <1>1, <3>1, LeastCycle
  <2>2. k \in Nat /\ n < k /\ k <= m /\ freq[k] # f
    <3>1. k \in Nat /\ n <= k /\ k # n
      BY RankFacts
    <3> QED BY <1>t, <3>1
  <2>3. k - 1 \in Cycles
    <3>1. m <= MaxN /\ MaxN \in Nat
      BY RankFacts DEF Cycles, Own
    <3> QED BY <1>t, <2>2, <3>1 DEF Cycles
  <2>4. freq[k - 1] = f
    BY <1>t, <2>1, <2>2, <2>3
  <2> QED BY <1>t, <2>2, <2>4 DEF Changes
<1>2. CASE B = {}
  <2>1. freq[m] = f /\ \A k \in Cycles : n <= k /\ k <= m => freq[k] = f
    BY <1>2, <1>t
  <2>2. n % f = 0 /\ m % f = 0
    BY <2>1 DEF Own, Saves
  <2> DEFINE x == n + f
  <2>3. x <= m /\ x % f = 0
    BY <1>f, <1>t, <2>2, NextMultiple
  <2>4. x \in Cycles /\ n < x /\ x <= N[0] /\ d < x
    <3>1. x \in Nat /\ n < x
      BY <1>f, <1>t
    <3>2. x \in Cycles /\ x <= N[0]
      <4>1. m <= MaxN /\ MaxN \in Nat
        BY RankFacts DEF Cycles, Own
      <4> QED BY <1>t, <2>3, <3>1, <4>1 DEF Cycles
    <3>3. d < x
      BY <1>t, <3>1
    <3> QED BY <3>1, <3>2, <3>3
  <2> HIDE DEF f
  <2>5. freq[x] = f
    BY <1>f, <1>t, <2>1, <2>3, <2>4
  <2>6. x \in Own(d)
    BY <2>3, <2>4, <2>5 DEF Own, Saves
  <2>7. n = x - freq[x]
    BY <1>f, <1>t, <2>5
  <2> QED BY <2>6, <2>7 DEF Removed
<1> QED BY <1>1, <1>2

\* So of a program's own checkpoints it keeps one more than there were changes at most.
LEMMA FewKept ==
  ASSUME Types, NEW d \in Int, Unfinished = {}, N[0] \in Nat
  PROVE  /\ IsFiniteSet(Own(d) \ Removed(d)) /\ IsFiniteSet(Changes(N[0]))
         /\ Cardinality(Own(d) \ Removed(d)) <= 1 + Cardinality(Changes(N[0]))
<1> DEFINE K == Own(d) \ Removed(d)
           last == N[0] + 1
           T == Changes(N[0]) \cup {last}
           Next1(n) == CHOOSE k \in T : n < k /\ \A j \in T : n < j => k <= j
           g == [n \in K |-> Next1(n)]
<1>1. K \subseteq Nat /\ \A n \in K : n <= N[0]
  BY RankFacts DEF Own
<1>2. IsFiniteSet(Changes(N[0])) /\ Cardinality(Changes(N[0])) \in Nat /\ Changes(N[0]) \subseteq Nat
  <2>1. Changes(N[0]) \in SUBSET (1 .. N[0]) /\ IsFiniteSet(1 .. N[0])
    BY FS_Interval DEF Changes
  <2> QED BY <2>1, FS_Subset, FS_CardinalityType
<1>3. /\ IsFiniteSet(T) /\ Cardinality(T) \in Nat /\ Cardinality(T) <= 1 + Cardinality(Changes(N[0]))
      /\ T \subseteq Nat
  <2>1. IsFiniteSet(T) /\ Cardinality(T) \in {Cardinality(Changes(N[0])),
                                              Cardinality(Changes(N[0])) + 1}
    BY <1>2, FS_AddElement
  <2>2. T \subseteq Nat
    BY <1>2
  <2> QED BY <1>2, <2>1, <2>2
<1>4. ASSUME NEW n \in K
      PROVE  g[n] \in T /\ n < g[n] /\ \A j \in T : n < j => g[n] <= j
  <2> DEFINE B == {k \in T : n < k}
  <2>1. last \in B /\ B \subseteq Nat
    BY <1>1, <1>3
  <2>2. PICK k \in B : \A j \in B : k <= j
    BY <2>1, LeastCycle
  <2>3. k \in T /\ n < k /\ \A j \in T : n < j => k <= j
    BY <2>2
  <2> HIDE DEF T
  <2>4. Next1(n) \in T /\ n < Next1(n) /\ \A j \in T : n < j => Next1(n) <= j
    BY <2>3
  <2> QED BY <2>4
<1> HIDE DEF g
<1>5. ASSUME NEW n \in K, NEW m \in K, n < m PROVE g[n] # g[m]
  <2>1. PICK k \in Changes(N[0]) : n < k /\ k <= m
    BY <1>5, KeptApart
  <2>2. g[n] <= k /\ m < g[m]
    BY <1>4, <2>1
  <2>3. k \in Nat /\ m \in Nat /\ g[n] \in Nat /\ g[m] \in Nat
    BY <1>1, <1>2, <1>3, <1>4
  <2> QED BY <2>1, <2>2, <2>3
<1>6. g \in Injection(K, T)
  <2>1. g \in [K -> T]
    BY <1>4 DEF g
  <2>2. ASSUME NEW n \in K, NEW m \in K, g[n] = g[m] PROVE n = m
    <3>1. ~ (n < m) /\ ~ (m < n)
      BY <1>5, <2>2
    <3>2. n \in Nat /\ m \in Nat
      BY <1>1
    <3> QED BY <3>1, <3>2
  <2> QED BY <2>1, <2>2 DEF Injection, IsInjective
<1>7. IsFiniteSet(K) /\ Cardinality(K) <= Cardinality(T)
  BY <1>3, <1>6, FS_Injection
<1>8. Cardinality(K) \in Nat
  BY <1>7, FS_CardinalityType
<1> HIDE DEF K, T
<1>9. Cardinality(K) <= 1 + Cardinality(Changes(N[0]))
  BY <1>2, <1>3, <1>7, <1>8
<1> QED BY <1>2, <1>7, <1>9 DEF K

\* With work_dir the current directory, a program keeps between two saves its newest
\* checkpoint, the one it was restarted from, and at most one more for every change of
\* the frequency.
THEOREM FewDirectoriesHolds ==
  ASSUME InPlace = TRUE
  PROVE  Spec => []FewDirectories
<1>1. IInv => FewDirectories
  <2> SUFFICES ASSUME IInv, \E r \in Ranks : pc[r] = "running", ~ Saving
               PROVE  Cardinality(dirs) <= 2 + Cardinality(Changes(N[0]))
    BY DEF FewDirectories
  <2>t. 0 \in Ranks /\ Types /\ ControlInv /\ RunningInv
    BY RankFacts DEF IInv
  <2>1. PICK d \in Cycles \cup {NoCycle} : RunningFrom(d)
    BY <2>t DEF RunningInv, Active
  <2>2. Unfinished = {}
    BY <2>t DEF Saving, InSave, Unfinished
  <2>i. d \in Int
    BY RankFacts DEF NoCycle
  <2>3. CASE N[0] \in Nat
    <3> DEFINE K == Own(d) \ Removed(d)
               c == Cardinality(Changes(N[0]))
    <3>1. IsFiniteSet(K) /\ Cardinality(K) <= 1 + c /\ c \in Nat /\ Cardinality(K) \in Nat
      BY <2>i, <2>t, <2>2, <2>3, FewKept, FS_CardinalityType
    <3>2. dirs \in SUBSET (K \cup {d})
      BY <2>1 DEF RunningFrom, Kept
    <3> HIDE DEF K
    <3>3. IsFiniteSet(K \cup {d}) /\ Cardinality(K \cup {d}) \in {Cardinality(K), Cardinality(K) + 1}
      BY <3>1, FS_AddElement
    <3>4. IsFiniteSet(dirs) /\ Cardinality(dirs) <= Cardinality(K \cup {d})
      BY <3>2, <3>3, FS_Subset
    <3>5. Cardinality(dirs) \in Nat
      BY <3>4, FS_CardinalityType
    <3> QED BY <3>1, <3>3, <3>4, <3>5
  <2>4. CASE N[0] \notin Nat
    <3>1. N[0] = NoCycle
      BY <2>t, <2>4, RankFacts DEF Types
    <3>2. dirs \in SUBSET {d}
      <4>1. Own(d) = {}
        BY <3>1, RankFacts DEF Own, NoCycle
      <4> QED BY <2>1, <4>1 DEF RunningFrom, Kept, Removed
    <3>3. Changes(N[0]) = {}
      BY <3>1 DEF Changes, NoCycle
    <3>4. IsFiniteSet(dirs) /\ Cardinality(dirs) <= 1
      <4>1. IsFiniteSet({d}) /\ Cardinality({d}) = 1
        BY FS_Singleton
      <4> QED BY <3>2, <4>1, FS_Subset
    <3>5. Cardinality(dirs) \in Nat /\ Cardinality(Changes(N[0])) = 0
      BY <3>3, <3>4, FS_CardinalityType, FS_EmptySet
    <3> QED BY <3>4, <3>5
  <2> QED BY <2>3, <2>4
<1> QED BY <1>1, Invariance, PTL

\* Unless the program was ever killed inside a save, or while it removed the last
\* directory after a start with do_restart=False, every restart loads all it needs.
THEOREM LoadsAfterCleanStopHolds == Spec => []LoadsAfterCleanStop
<1>1. Init => LoadsAfterCleanStop
  BY DEF Init, LoadsAfterCleanStop, Everyone
<1>2. IInv /\ LoadsAfterCleanStop /\ [Next]_vars => LoadsAfterCleanStop'
  <2> SUFFICES ASSUME IInv, LoadsAfterCleanStop, [Next]_vars, torn' = 0, NEW b \in Ranks
               PROVE  pc'[b] # "failed"
    BY DEF LoadsAfterCleanStop
  <2>i. Types /\ ControlInv /\ ConstructorInv /\ WholeInv /\ 0 \in Ranks
    BY RankFacts DEF IInv
  <2>1. ASSUME NEW restart \in BOOLEAN, NEW schedule \in Schedules, Start(restart, schedule)
        PROVE  pc'[b] # "failed"
    BY <2>1, EveryoneHas DEF Start
  <2>2. ASSUME NEW r \in Ranks, Rank(r) PROVE pc'[b] # "failed"
    <3>t. /\ Tables /\ Tables' /\ torn = 0 /\ \A x \in Ranks : x # r => SameFor(x)
      BY <2>2, <2>i, StepTypes DEF Types, Tables, Moves
    <3>1. CASE b # r
      BY <3>1, <3>t DEF SameFor, LoadsAfterCleanStop
    <3>2. CASE b = r /\ (LoadState(r) \/ GetValue(r))
      <4>1. pc[r] \in {"clearing", "reading"}
        BY <3>2 DEF LoadState, GetValue
      <4>2. AllIn(Constructor)
        BY <2>i, <3>t, <4>1, AllConstructing DEF AllIn, Past, Active, InSave, Constructor, Listed
      <4>3. Found(r) /\ pc[r] \in Listed
        BY <2>i, <4>1, <4>2, ConstructorParts DEF Listed
      <4>4. restartdir[r] # NoCycle
        BY <3>2, <4>3 DEF LoadState, GetValue, Found
      <4>5. do_restart /\ restartdir[r] \in Cycles /\ Newest(restartdir[r])
        BY <2>i, <4>3, <4>4 DEF Found, Newest, Types
      <4>6. pc[0] \notin InSave /\ ~ Discarding
        BY <2>i, <4>2, <4>5 DEF AllIn, Constructor, Listed, InSave, Discarding
      <4>7. WholeFor(restartdir[r], r)
        BY <2>i, <3>t, <4>5, <4>6, WholeParts, NothingAwaited
      <4> QED BY <3>2, <3>t, <4>7 DEF LoadState, GetValue, Goes, Tables, WholeFor, LoadableFor
    <3>3. CASE b = r /\ ~ LoadState(r) /\ ~ GetValue(r)
      <4>1. CASE Removing(r)
        BY <2>i, <3>t, <4>1, RemovingFacts DEF LoadsAfterCleanStop, SameFor
      <4>2. CASE ~ Removing(r)
        BY <2>2, <3>3, <3>t, <4>2 DEF Rank, Removing, List, RemoveUnneeded, NextUnneeded,
                                      NothingToLoad, Compute, Export, SaveState, WriteStamp,
                                      DumpDomain, DumpData, RemoveOld, SaveEnds, Goes, Tables,
                                      LoadsAfterCleanStop
      <4> QED BY <4>1, <4>2
    <3> QED BY <3>1, <3>2, <3>3
  <2>3. CASE Stop
    BY <2>3, EveryoneHas DEF Stop
  <2>4. CASE Finished \/ UNCHANGED vars
    BY <2>4 DEF Finished, vars, history, LoadsAfterCleanStop
  <2> QED BY <2>1, <2>2, <2>3, <2>4 DEF Next
<1> QED BY <1>1, <1>2, Invariance, PTL DEF Spec
=============================================================================
