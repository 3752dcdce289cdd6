---------------------------- MODULE CouplerProofs ----------------------------
(***************************************************************************)
(* Proofs about Coupler, for any number of ranks, any mesh and any number  *)
(* of exchanges.                                                           *)
(***************************************************************************)
EXTENDS CouplerInvariant, FinleyMeshProofs

-----------------------------------------------------------------------------
(* Tags                                                                    *)

\* The counter is another after each call of startCollect: Size is less than
\* TagLimit, so adding it modulo TagLimit never gives the counter back.
LEMMA TagsDiffer ==
  ASSUME NEW c \in Nat
  PROVE  TagAt(c) \in Nat /\ TagAt(c) # TagAt(c + 1)
<1>1. Size \in Nat \ {0} /\ TagLimit \in Nat \ {0} /\ Size < TagLimit
  BY SizeAssumption, TagLimitAssumption
<1>2. PICK a \in Nat : a = c * Size
  BY <1>1
<1>3. (c + 1) * Size = a + Size
  BY <1>1, <1>2
<1>4. PICK q \in Nat, m \in 0 .. TagLimit - 1 : a = TagLimit * q + m /\ m = a % TagLimit
  BY <1>1, DivMod
<1>5. PICK s \in Nat, n \in 0 .. TagLimit - 1 : a + Size = TagLimit * s + n /\ n = (a + Size) % TagLimit
  <2>1. a + Size \in Nat
    BY <1>1
  <2> QED BY <1>1, <2>1, DivMod
<1>6. m # n
  <2> SUFFICES ASSUME m = n PROVE FALSE
    OBVIOUS
  <2>1. Size = TagLimit * (s - q)
    <3>1. TagLimit * (s - q) = TagLimit * s - TagLimit * q
      BY <1>1
    <3>2. TagLimit * s \in Int /\ TagLimit * q \in Int
      BY <1>1
    <3> QED BY <1>1, <1>4, <1>5, <3>1, <3>2
  <2>2. CASE s - q <= 0
    <3>1. TagLimit * (s - q) <= 0
      BY <1>1, <2>2
    <3> QED BY <1>1, <2>1, <3>1
  <2>3. CASE s - q >= 1
    <3>1. TagLimit * (s - q) >= TagLimit
      BY <1>1, <2>3
    <3> QED BY <1>1, <2>1, <3>1
  <2> QED BY <2>2, <2>3
<1>7. TagAt(c) = m
  BY <1>2, <1>4 DEF TagAt
<1>8. TagAt(c + 1) = n
  BY <1>3, <1>5 DEF TagAt
<1> QED BY <1>6, <1>7, <1>8

-----------------------------------------------------------------------------
(* What the exchange depends on of the mesh                                *)

\* Nothing the mesh leaves behind changes once the exchange has begun.
LEMMA MeshStays ==
  ASSUME UNCHANGED <<nodes, elements, dofDist>>
  PROVE  /\ \A kind, r : (DistOf(kind)[r])' = DistOf(kind)[r]
         /\ \A kind, r : Own(kind, r)' = Own(kind, r)
         /\ \A kind, r : LabelOf(kind, r)' = LabelOf(kind, r)
         /\ \A kind, r : Connector(kind, r)' = Connector(kind, r)
         /\ Raising' = Raising
<1>1. \A kind : DistOf(kind)' = DistOf(kind)
  BY DEF DistOf, ReducedDist, ReducedOwn, ReducedNodes
<1>2. \A kind, r : LabelOf(kind, r)' = LabelOf(kind, r)
  BY DEF LabelOf
<1>3. \A kind, r : Own(kind, r)' = Own(kind, r)
  BY <1>1 DEF Own
<1>4. \A kind, r : Present(kind, r)' = Present(kind, r)
  BY <1>2 DEF Present
<1>5. \A kind, r : LocalRange(kind, r)' = LocalRange(kind, r)
  <2>1. \A kind, r : FlaggedValues(r, LabelOf(kind, r))' = FlaggedValues(r, LabelOf(kind, r))
    BY <1>2 DEF FlaggedValues, FirstNode
  <2> QED BY <1>1, <2>1 DEF LocalRange
<1>6. \A kind, r : Span(kind, r)' = Span(kind, r)
  BY <1>1, <1>5 DEF Span
<1>7. \A kind, r, p : Wanted(kind, r, p)' = Wanted(kind, r, p)
  BY <1>3, <1>4, <1>6 DEF Wanted
<1>8. \A kind, r, dof : LocalIndex(kind, r, dof)' = LocalIndex(kind, r, dof)
  BY <1>1, <1>3, <1>4, <1>7 DEF LocalIndex
<1>9. \A kind, r : NodeTarget(kind, r)' = NodeTarget(kind, r)
  BY <1>2, <1>8 DEF NodeTarget
<1>10. \A kind, r : Connector(kind, r)' = Connector(kind, r)
  BY <1>1, <1>7, <1>8, <1>9 DEF Connector
<1>11. \A r, target : AssignRaises(r, target)' = AssignRaises(r, target)
  BY DEF AssignRaises, FlaggedValues, FirstNode
<1>12. \A r : ReducedNodesTarget(r)' = ReducedNodesTarget(r)
  BY DEF ReducedNodesTarget, ReducedNodes
<1>13. \A kind, r : SpanRaises(kind, r)' = SpanRaises(kind, r)
  BY <1>1, <1>5 DEF SpanRaises
<1>14. Raising' = Raising
  BY <1>9, <1>11, <1>12, <1>13 DEF Raising
<1> QED BY <1>1, <1>2, <1>3, <1>10, <1>14

-----------------------------------------------------------------------------
(* What a rank has called                                                  *)

\* The calls of a round are five, all different.
LEMMA RoundFacts ==
  /\ Round \in Seq({Round[1], Round[2], Round[3], Round[4], Round[5]}) /\ Len(Round) = 5
  /\ Round[1] = <<"start", "full">> /\ Round[2] = <<"start", "reduced">> /\ Round[3] = <<"compute">>
  /\ Round[4] = <<"finish", "full">> /\ Round[5] = <<"finish", "reduced">>
  /\ \A i, j \in 1 .. 5 : Round[i] = Round[j] => i = j
<1>1. /\ Round[1] = <<"start", "full">> /\ Round[2] = <<"start", "reduced">> /\ Round[3] = <<"compute">>
      /\ Round[4] = <<"finish", "full">> /\ Round[5] = <<"finish", "reduced">>
  BY DEF Round
<1>2. Len(Round) = 5
  BY DEF Round
<1>3. Round \in Seq({Round[1], Round[2], Round[3], Round[4], Round[5]})
  <2>1. \A a, b, c, d, e : <<a, b, c, d, e>> \in Seq({a, b, c, d, e})
    OBVIOUS
  <2> QED BY <1>1, <2>1 DEF Round
<1>4. /\ Round[1] # Round[2] /\ Round[1] # Round[3] /\ Round[1] # Round[4] /\ Round[1] # Round[5]
      /\ Round[2] # Round[3] /\ Round[2] # Round[4] /\ Round[2] # Round[5]
      /\ Round[3] # Round[4] /\ Round[3] # Round[5] /\ Round[4] # Round[5]
  <2>1. Len(Round[3]) = 1 /\ Len(Round[1]) = 2 /\ Len(Round[2]) = 2 /\ Len(Round[4]) = 2 /\ Len(Round[5]) = 2
    BY <1>1
  <2>2. /\ Round[1][1] = "start" /\ Round[1][2] = "full" /\ Round[2][1] = "start" /\ Round[2][2] = "reduced"
        /\ Round[4][1] = "finish" /\ Round[4][2] = "full" /\ Round[5][1] = "finish" /\ Round[5][2] = "reduced"
    BY <1>1
  <2> QED BY <2>1, <2>2
<1>5. \A i, j \in 1 .. 5 : Round[i] = Round[j] => i = j
  BY <1>4
<1> QED BY <1>1, <1>2, <1>3, <1>5

\* The last n calls of a round
LEMMA LastCallsFacts ==
  ASSUME NEW n \in 0 .. 5
  PROVE  /\ Len(LastCalls(n)) = n /\ (LastCalls(n) = <<>> <=> n = 0)
         /\ n = 5 => LastCalls(n) = Round
         /\ n > 0 => Head(LastCalls(n)) = Round[6 - n] /\ Tail(LastCalls(n)) = LastCalls(n - 1)
<1> DEFINE C == {Round[1], Round[2], Round[3], Round[4], Round[5]}
<1>1. Round \in Seq(C) /\ Len(Round) = 5 /\ \A i \in 1 .. 5 : Round[i] \in C
  <2>1. Round \in Seq(C) /\ Len(Round) = 5
    BY RoundFacts
  <2>2. \A i \in 1 .. 5 : i = 1 \/ i = 2 \/ i = 3 \/ i = 4 \/ i = 5
    OBVIOUS
  <2> QED BY <2>1, <2>2
<1> HIDE DEF C
<1>2. ASSUME NEW k \in 0 .. 5
      PROVE  /\ LastCalls(k) \in Seq(C) /\ Len(LastCalls(k)) = k
             /\ \A i \in 1 .. k : LastCalls(k)[i] = Round[5 - k + i]
  <2>1. \A i \in 6 - k .. 5 : Round[i] \in C
    BY <1>1
  <2>2. 6 - k \in Int /\ 5 \in Int
    OBVIOUS
  <2>3. /\ SubSeq(Round, 6 - k, 5) \in Seq(C)
        /\ Len(SubSeq(Round, 6 - k, 5)) = IF 6 - k <= 5 THEN 5 - (6 - k) + 1 ELSE 0
        /\ \A i \in 1 .. 5 - (6 - k) + 1 : SubSeq(Round, 6 - k, 5)[i] = Round[(6 - k) + i - 1]
    BY <2>1, <2>2, SubSeqProperties
  <2>4. \A i \in 1 .. k : (6 - k) + i - 1 = 5 - k + i /\ i \in 1 .. 5 - (6 - k) + 1
    OBVIOUS
  <2> QED BY <2>3, <2>4 DEF LastCalls
<1>n. PICK s \in Seq(C) : /\ s = LastCalls(n) /\ Len(s) = n
                          /\ \A i \in 1 .. n : s[i] = Round[5 - n + i]
  BY <1>2
<1>3. LastCalls(n) = <<>> <=> n = 0
  BY <1>n, EmptySeq
<1>4. ASSUME n = 5 PROVE LastCalls(n) = Round
  <2>1. \A i \in 1 .. 5 : 5 - n + i = i
    BY <1>4
  <2>2. \A i \in 1 .. Len(s) : s[i] = Round[i]
    BY <1>4, <1>n, <2>1
  <2> QED BY <1>1, <1>n, <1>4, <2>2, SeqEqual
<1>5. ASSUME n > 0 PROVE Head(LastCalls(n)) = Round[6 - n] /\ Tail(LastCalls(n)) = LastCalls(n - 1)
  <2>2. s # <<>> /\ Len(s) = n
    BY <1>3, <1>5, <1>n
  <2>3. /\ Head(s) = s[1] /\ Tail(s) \in Seq(C) /\ Len(Tail(s)) = Len(s) - 1
        /\ \A i \in 1 .. Len(Tail(s)) : Tail(s)[i] = s[i + 1]
    BY <2>2, HeadTailProperties
  <2>4. Head(s) = Round[6 - n]
    <3>1. 1 \in 1 .. n /\ 5 - n + 1 = 6 - n
      BY <1>5
    <3> QED BY <1>n, <2>3, <3>1
  <2>5. PICK t \in Seq(C) : t = LastCalls(n - 1) /\ Len(t) = n - 1 /\ \A i \in 1 .. n - 1 : t[i] = Round[6 - n + i]
    <3>1. n - 1 \in 0 .. 5 /\ \A i \in 1 .. n - 1 : 5 - (n - 1) + i = 6 - n + i
      BY <1>5
    <3>2. PICK m \in 0 .. 5 : m = n - 1
      BY <3>1
    <3>3. PICK t \in Seq(C) : t = LastCalls(m) /\ Len(t) = m /\ \A i \in 1 .. m : t[i] = Round[5 - m + i]
      BY <1>2
    <3> QED BY <3>1, <3>2, <3>3
  <2>6. \A i \in 1 .. n - 1 : s[i + 1] = Round[6 - n + i]
    <3>1. \A i \in 1 .. n - 1 : i + 1 \in 1 .. n /\ 5 - n + (i + 1) = 6 - n + i
      BY <1>5
    <3> QED BY <1>n, <3>1
  <2>7. \A i \in 1 .. Len(t) : t[i] = Tail(s)[i]
    BY <2>2, <2>3, <2>5, <2>6
  <2>8. Tail(s) = t
    BY <2>2, <2>3, <2>5, <2>7, SeqEqual
  <2> QED BY <1>n, <2>4, <2>5, <2>8
<1> QED BY <1>n, <1>3, <1>4, <1>5

\* Which call a rank makes next follows from how many it has left.
LEMMA LeftFacts ==
  ASSUME NEW r \in Ranks, CallsInv(r)
  PROVE  /\ Left(r) \in 0 .. 5 /\ todo[r] = LastCalls(Left(r))
         /\ Calls(r, <<"start", "full">>) <=> Left(r) = 5
         /\ Calls(r, <<"start", "reduced">>) <=> Left(r) = 4
         /\ Calls(r, <<"compute">>) <=> Left(r) = 3
         /\ Calls(r, <<"finish", "full">>) <=> Left(r) = 2
         /\ Calls(r, <<"finish", "reduced">>) <=> Left(r) = 1
         /\ Left(r) > 0 => \E n \in 0 .. 5 :
              Rest(r) = LastCalls(n) /\ (n = Left(r) - 1 \/ (Left(r) = 1 /\ n \in {0, 5}))
<1>1. PICK n \in 0 .. 5 : todo[r] = LastCalls(n)
  BY DEF CallsInv
<1>2. Left(r) = n
  BY <1>1, LastCallsFacts DEF Left
<1>3. ASSUME NEW i \in 1 .. 5 PROVE (todo[r] # <<>> /\ Head(todo[r]) = Round[i]) <=> n = 6 - i
  <2>1. todo[r] # <<>> <=> n > 0
    BY <1>1, LastCallsFacts
  <2>2. n > 0 => Head(todo[r]) = Round[6 - n] /\ 6 - n \in 1 .. 5
    BY <1>1, LastCallsFacts
  <2>3. \A j \in 1 .. 5 : Round[j] = Round[i] => j = i
    BY RoundFacts
  <2> QED BY <2>1, <2>2, <2>3
<1>4. \A i \in 1 .. 5 : Calls(r, Round[i]) <=> n = 6 - i
  BY <1>3 DEF Calls
<1>5. /\ Calls(r, Round[1]) <=> n = 5
      /\ Calls(r, Round[2]) <=> n = 4
      /\ Calls(r, Round[3]) <=> n = 3
      /\ Calls(r, Round[4]) <=> n = 2
      /\ Calls(r, Round[5]) <=> n = 1
  BY <1>4
<1>6. ASSUME n > 0
      PROVE  \E m \in 0 .. 5 : Rest(r) = LastCalls(m) /\ (m = n - 1 \/ (n = 1 /\ m \in {0, 5}))
  <2>1. CASE n > 1
    <3>1. Rest(r) = Tail(todo[r])
      BY <1>2, <2>1 DEF Rest, Left
    <3>2. Tail(LastCalls(n)) = LastCalls(n - 1)
      <4>1. n > 0
        BY <2>1
      <4> QED BY <4>1, LastCallsFacts
    <3>3. n - 1 \in 0 .. 5
      BY <2>1
    <3> QED BY <1>1, <3>1, <3>2, <3>3
  <2>2. CASE n = 1
    <3>1. Rest(r) = Round \/ Rest(r) = <<>>
      BY <1>2, <2>2 DEF Rest, Left
    <3>2. LastCalls(5) = Round /\ LastCalls(0) = <<>>
      BY LastCallsFacts
    <3> QED BY <2>2, <3>1, <3>2
  <2> QED BY <1>6, <2>1, <2>2
<1> QED BY <1>1, <1>2, <1>5, <1>6, RoundFacts

-----------------------------------------------------------------------------
(* The exchange begins                                                     *)

\* Before the first call the counter of the coupler is zero.
LEMMA TagZero == TagAt(0) = 0
<1>1. TagLimit \in Nat \ {0} /\ Size \in Nat /\ 0 * Size = 0
  BY SizeAssumption, TagLimitAssumption
<1>2. 0 % TagLimit = 0
  BY <1>1
<1> QED BY <1>1, <1>2 DEF TagAt

\* When the couplers are constructed nothing has been called, sent or awaited,
\* which is a state of the exchange.
LEMMA ExchangeStart == CouplerInit => ExchangeInv
<1> SUFFICES ASSUME CouplerInit PROVE ExchangeInv
  OBVIOUS
<1> USE DEF CouplerInit
<1>1. ShapeInv
  BY DEF ShapeInv
<1>2. ASSUME NEW r \in Ranks
      PROVE  /\ todo[r] = LastCalls(5) /\ Left(r) = 5 /\ round[r] = 1 /\ Exchange(r) = 1
             /\ \A kind \in Kinds : Started(r, kind) = 0
  <2>1. LastCalls(5) = Round /\ Len(LastCalls(5)) = 5
    BY LastCallsFacts
  <2>2. todo[r] = LastCalls(5) /\ Left(r) = 5 /\ round[r] = 1
    BY <2>1 DEF Left
  <2>3. Exchange(r) = 1
    BY <2>2 DEF Exchange
  <2>4. \A kind \in Kinds : Started(r, kind) = 0
    BY <2>2, <2>3 DEF Started
  <2> QED BY <2>2, <2>3, <2>4
<1>3. ASSUME NEW r \in Ranks PROVE CallsInv(r)
  <2>1. "full" \in Kinds /\ "reduced" \in Kinds
    BY DEF Kinds
  <2>2. counter[r] = TagAt(Started(r, "full") + Started(r, "reduced"))
    BY <1>2, <2>1, TagZero
  <2>3. inUse[r]["full"] = FALSE /\ inUse[r]["reduced"] = FALSE
    BY <2>1
  <2>4. \A kind \in Kinds : collected[r][kind] = 0 /\ ~ inUse[r][kind]
    OBVIOUS
  <2>5. \E n \in 0 .. 5 : todo[r] = LastCalls(n)
    BY <1>2
  <2>6. Exchange(r) > 0 /\ Left(r) \notin 2 .. 4 /\ Left(r) \notin 1 .. 3
    BY <1>2
  <2>7. \A kind \in Kinds :
          collected[r][kind] = IF inUse[r][kind] THEN Started(r, kind) - 1 ELSE Started(r, kind)
    BY <1>2, <2>4
  <2>8. (inUse[r]["full"] <=> Left(r) \in 2 .. 4) /\ (inUse[r]["reduced"] <=> Left(r) \in 1 .. 3)
    BY <2>3, <2>6
  <2> QED BY <2>2, <2>5, <2>6, <2>7, <2>8 DEF CallsInv
<1>4. \A r \in Ranks, kind \in Kinds : BufferInv(r, kind)
  BY <1>2 DEF BufferInv
<1>5. MailInv /\ PostedInv
  BY DEF MailInv, PostedInv
<1>6. \A p, q \in Ranks, kind \in Kinds : PairInv(p, q, kind)
  BY <1>2 DEF PairInv, Got
<1> QED BY <1>1, <1>3, <1>4, <1>5, <1>6 DEF ExchangeInv

-----------------------------------------------------------------------------
(* The invariant, while the mesh is spread                                 *)

\* A mesh as a reader leaves it satisfies the inductive invariant.
LEMMA InitIInv ==
  ASSUME Init
  PROVE  IInv
<1>1. MeshInv
  BY MeshStart DEF Init
<1>2. connector = <<>> /\ CouplerInit
  BY DEF Init, MeshInit
<1> QED BY <1>1, <1>2 DEF IInv, ConnectorInv

\* The mappings are made when the mesh is spread, and the exchange begins.
LEMMA MeshKeepsIInv ==
  ASSUME IInv, MeshNext, UNCHANGED couplerVars
  PROVE  IInv'
<1>1. MeshInv'
  BY MeshStep DEF IInv
<1>2. connector = <<>>
  <2> SUFFICES ASSUME connector # <<>> PROVE FALSE
    OBVIOUS
  <2>1. Job = "none" /\ ring.phase = "idle"
    BY DEF IInv, ConnectorInv, Job
  <2> QED BY <2>1 DEF MeshNext, StartRing, Fill, Number, StartNodeLabeling,
             StartOptimizeDOFDistribution, StartOptimizeDOFLabeling, Collect,
             DistributeElements, CreateNodeMappings
<1>3. CouplerInit
  BY <1>2 DEF IInv
<1>4. CouplerInit'
  BY <1>3 DEF CouplerInit, couplerVars
<1>5. CASE connector' = <<>>
  BY <1>1, <1>4, <1>5 DEF IInv, ConnectorInv
<1>6. CASE connector' # <<>>
  <2>1. CreateNodeMappings
    BY <1>2, <1>6 DEF MeshNext, StartRing, Fill, Number, StartNodeLabeling,
       StartOptimizeDOFDistribution, StartOptimizeDOFLabeling, Collect, DistributeElements
  <2>2. /\ Raising = {} /\ program' = <<>> /\ UNCHANGED <<nodes, elements, dofDist>>
        /\ connector' = [kind \in Kinds |-> [r \in Ranks |-> Connector(kind, r)]]
    BY <1>2, <1>6, <2>1 DEF CreateNodeMappings
  <2>3. Raising' = {} /\ \A kind, r : Connector(kind, r)' = Connector(kind, r)
    BY <2>2, MeshStays
  <2>4. connector' = [kind \in Kinds |-> [r \in Ranks |-> Connector(kind, r)']]
    BY <2>2, <2>3
  <2>5. ring.phase = "idle" /\ UNCHANGED ring
    BY <2>1 DEF CreateNodeMappings, IInv, MeshInv, RingShape, RingJobs, BlockJobs
  <2>6. DistTyped
    <3>1. Job = "mappings"
      BY <2>1 DEF CreateNodeMappings
    <3>2. Known(7, nodes)
      BY <2>5, <3>1 DEF IInv, MeshInv, Level
    <3> QED BY <3>2 DEF Known, DofsNumbered
  <2>7. ConnectorInv'
    BY <2>2, <2>3, <2>4, <2>5, <2>6 DEF ConnectorInv, DistTyped
  <2>8. ExchangeInv'
    <3>1. (CouplerInit => ExchangeInv)'
      BY ExchangeStart, PTL
    <3> QED BY <1>4, <3>1
  <2> QED BY <1>1, <1>6, <2>7, <2>8 DEF IInv
<1> QED BY <1>5, <1>6

-----------------------------------------------------------------------------
(* What the mappings say                                                   *)

\* A set of numbers between two bounds is finite.
LEMMA IntervalFinite ==
  ASSUME NEW a \in Int, NEW b \in Int, NEW S, S \subseteq a .. b
  PROVE  IsFiniteSet(S) /\ S \subseteq Int
<1>1. IsFiniteSet(a .. b)
  BY FS_Interval
<1>2. IsFiniteSet(S)
  BY <1>1, FS_Subset
<1> QED BY <1>2

\* The boundaries of the full and of the reduced degrees of freedom are numbers.
LEMMA DistInts ==
  ASSUME DistTyped, NEW kind
  PROVE  \A p \in 0 .. Size : DistOf(kind)[p] \in Int
<1>1. \A p \in 0 .. Size : dofDist[p] \in Int
  BY DEF DistTyped
<1>2. ASSUME NEW q \in Ranks PROVE IsFiniteSet(ReducedOwn(q)) /\ ReducedOwn(q) \subseteq Int
  <2>1. q \in 0 .. Size /\ q + 1 \in 0 .. Size
    BY SizeAssumption DEF Ranks
  <2>2. PICK a \in Int, b \in Int : a = dofDist[q] /\ b = dofDist[q + 1] - 1
    <3>1. dofDist[q] \in Int /\ dofDist[q + 1] \in Int
      BY <1>1, <2>1
    <3> QED BY <3>1
  <2>3. ReducedOwn(q) \subseteq a .. b
    BY <2>2 DEF ReducedOwn
  <2> QED BY <2>3, IntervalFinite
<1>3. ASSUME NEW p \in 0 .. Size PROVE ReducedDist[p] \in Int
  <2> DEFINE own == [q \in Ranks |-> ReducedOwn(q)]
  <2>1. own \in [Ranks -> SUBSET Int] /\ \A q \in Ranks : IsFiniteSet(own[q])
    BY <1>2
  <2>2. ReducedDist[p] = CountBefore(p, own)
    BY DEF ReducedDist
  <2> HIDE DEF own
  <2>3. CountBefore(p, own) \in Nat
    BY <2>1, CountFacts
  <2> QED BY <2>2, <2>3
<1> QED BY <1>1, <1>3 DEF DistOf

\* A rank lists what it wants of another from its first entry on; it is the
\* other's own.
LEMMA WantedFacts ==
  ASSUME DistTyped, NEW kind, NEW r \in Ranks, NEW p \in Ranks
  PROVE  \E n \in Nat : /\ DOMAIN Wanted(kind, r, p) = 1 .. n
                        /\ Wanted(kind, r, p) = <<>> <=> n = 0
                        /\ \A i \in 1 .. n : Wanted(kind, r, p)[i] \in Own(kind, p)
                        /\ p = r => n = 0
<1>1. CASE p = r \/ p \notin Span(kind, r)
  <2>1. Wanted(kind, r, p) = <<>>
    BY <1>1 DEF Wanted
  <2>2. DOMAIN <<>> = 1 .. 0
    OBVIOUS
  <2>3. \A i \in 1 .. 0 : FALSE
    OBVIOUS
  <2> QED BY <2>1, <2>2, <2>3
<1>2. CASE ~ (p = r \/ p \notin Span(kind, r))
  <2>1. PICK S : S = Present(kind, r) \cap Own(kind, p)
    OBVIOUS
  <2>2. Wanted(kind, r, p) = Ascending(S)
    BY <1>2, <2>1 DEF Wanted
  <2>3. p \in 0 .. Size /\ p + 1 \in 0 .. Size
    BY SizeAssumption DEF Ranks
  <2>4. PICK a \in Int, b \in Int : Own(kind, p) = a .. b
    <3>1. DistOf(kind)[p] \in Int /\ DistOf(kind)[p + 1] \in Int
      BY <2>3, DistInts
    <3> QED BY <3>1 DEF Own
  <2>5. S \subseteq a .. b
    BY <2>1, <2>4
  <2>6. IsFiniteSet(S) /\ S \in SUBSET Int
    BY <2>5, IntervalFinite
  <2>7. PICK n \in Nat : n = Cardinality(S) /\ Ascending(S) \in [1 .. n -> S]
    BY <2>6, AscendingLists
  <2>8. DOMAIN Ascending(S) = 1 .. n /\ \A i \in 1 .. n : Ascending(S)[i] \in Own(kind, p)
    BY <2>1, <2>7
  <2>9. Ascending(S) = <<>> <=> n = 0
    <3>1. PICK s \in Seq(S) : s = Ascending(S)
      BY <2>7
    <3>2. DOMAIN s = 1 .. Len(s) /\ Len(s) \in Nat
      OBVIOUS
    <3>3. Len(s) = n
      BY <2>8, <3>1, <3>2
    <3> QED BY <3>1, <3>3, EmptySeq
  <2> QED BY <1>2, <2>2, <2>8, <2>9
<1> QED BY <1>1, <1>2

\* The exchange goes by the mappings.
LEMMA Connected ==
  ASSUME ConnectorInv, connector # <<>>, NEW kind \in Kinds, NEW r \in Ranks
  PROVE  /\ DistTyped /\ Raising = {}
         /\ connector[kind][r].own = DistOf(kind)[r + 1] - DistOf(kind)[r]
         /\ connector[kind][r].recv = [p \in Ranks |-> Wanted(kind, r, p)]
         /\ connector[kind][r].send = [p \in Ranks |-> [i \in DOMAIN Wanted(kind, p, r) |->
                                         LocalIndex(kind, r, Wanted(kind, p, r)[i])]]
         /\ connector[kind][r].target = NodeTarget(kind, r)
<1>1. connector[kind][r] = Connector(kind, r)
  BY DEF ConnectorInv
<1> QED BY <1>1 DEF ConnectorInv, Connector

\* What a rank wants of another is a list of degrees of freedom of that other
\* rank, and it wants nothing of itself.
LEMMA WantsFacts ==
  ASSUME ConnectorInv, connector # <<>>, NEW kind \in Kinds, NEW p \in Ranks, NEW q \in Ranks
  PROVE  \E n \in Nat : /\ DOMAIN Wants(p, q, kind) = 1 .. n
                        /\ Wants(p, q, kind) = <<>> <=> n = 0
                        /\ \A i \in 1 .. n : Wants(p, q, kind)[i] \in Own(kind, q)
                        /\ p = q => n = 0
<1>1. Wants(p, q, kind) = Wanted(kind, p, q) /\ DistTyped
  <2>1. connector[kind][p].recv = [s \in Ranks |-> Wanted(kind, p, s)] /\ DistTyped
    BY Connected
  <2> QED BY <2>1 DEF Wants
<1> QED BY <1>1, WantedFacts

\* What a rank sends to another are the values the other wants of it.
LEMMA SendFacts ==
  ASSUME ConnectorInv, connector # <<>>, NEW kind \in Kinds, NEW p \in Ranks, NEW q \in Ranks
  PROVE  /\ connector[kind][q].send[p] = <<>> <=> Wants(p, q, kind) = <<>>
         /\ [j \in DOMAIN connector[kind][q].send[p] |-> Value(q, kind, connector[kind][q].send[p][j])]
              = [j \in DOMAIN Wants(p, q, kind) |-> [dof |-> Wants(p, q, kind)[j], round |-> round[q]]]
<1>1. /\ Wants(p, q, kind) = Wanted(kind, p, q) /\ DistTyped
      /\ connector[kind][q].send[p] = [i \in DOMAIN Wanted(kind, p, q) |->
                                         LocalIndex(kind, q, Wanted(kind, p, q)[i])]
  <2>1. connector[kind][p].recv = [s \in Ranks |-> Wanted(kind, p, s)] /\ DistTyped
    BY Connected
  <2>2. connector[kind][q].send = [s \in Ranks |-> [i \in DOMAIN Wanted(kind, s, q) |->
                                         LocalIndex(kind, q, Wanted(kind, s, q)[i])]]
    BY Connected
  <2> QED BY <2>1, <2>2 DEF Wants
<1>2. PICK n \in Nat : /\ DOMAIN Wants(p, q, kind) = 1 .. n
                       /\ Wants(p, q, kind) = <<>> <=> n = 0
                       /\ \A i \in 1 .. n : Wants(p, q, kind)[i] \in Own(kind, q)
  BY WantsFacts
<1>3. PICK s : s = connector[kind][q].send[p]
  OBVIOUS
<1>4. s = [i \in 1 .. n |-> LocalIndex(kind, q, Wants(p, q, kind)[i])]
  BY <1>1, <1>2, <1>3
<1>5. s = <<>> <=> n = 0
  <2>1. PICK T : T = {LocalIndex(kind, q, Wants(p, q, kind)[i]) : i \in 1 .. n}
    OBVIOUS
  <2>2. s \in Seq(T) /\ Len(s) = n
    BY <1>4, <2>1
  <2> QED BY <2>2, EmptySeq
<1>6. ASSUME NEW j \in 1 .. n PROVE Value(q, kind, s[j]) = [dof |-> Wants(p, q, kind)[j], round |-> round[q]]
  <2>1. q \in 0 .. Size /\ q + 1 \in 0 .. Size
    BY SizeAssumption DEF Ranks
  <2>2. DistOf(kind)[q] \in Int /\ DistOf(kind)[q + 1] \in Int
    BY <1>1, <2>1, DistInts
  <2>3. PICK w \in Int : w = Wants(p, q, kind)[j] /\ w \in Own(kind, q)
    BY <1>2, <2>2 DEF Own
  <2>4. s[j] = w - DistOf(kind)[q]
    BY <1>4, <2>3 DEF LocalIndex
  <2>5. DistOf(kind)[q] + s[j] = w
    BY <2>2, <2>4
  <2> QED BY <2>3, <2>5 DEF Value
<1>7. DOMAIN s = 1 .. n
  BY <1>4
<1>8. [j \in DOMAIN s |-> Value(q, kind, s[j])]
        = [j \in 1 .. n |-> [dof |-> Wants(p, q, kind)[j], round |-> round[q]]]
  BY <1>6, <1>7
<1> QED BY <1>2, <1>3, <1>5, <1>8

\* The values of different ranks are received in different places.
LEMMA OffsetFacts ==
  ASSUME ConnectorInv, connector # <<>>, NEW kind \in Kinds, NEW p \in Ranks, NEW recv,
         recv = connector[kind][p].recv
  PROVE  /\ \A q \in 0 .. Size : OffsetInShared(recv, q) \in Nat
         /\ \A q \in Ranks : \A i \in DOMAIN Wants(p, q, kind) :
              /\ i \in Nat \ {0}
              /\ OffsetInShared(recv, q) + i \in 1 .. OffsetInShared(recv, Size)
              /\ \A s \in Ranks : s # q =>
                   (OffsetInShared(recv, q) + i) - OffsetInShared(recv, s) \notin DOMAIN Wants(p, s, kind)
<1> DEFINE places == [q \in Ranks |-> DOMAIN recv[q]]
           at(q) == CountBefore(q, places)
<1>1. \A q : OffsetInShared(recv, q) = at(q)
  BY DEF OffsetInShared
<1>2. \A q \in Ranks : places[q] = DOMAIN Wants(p, q, kind)
  BY DEF Wants
<1>3. ASSUME NEW q \in Ranks
      PROVE  /\ IsFiniteSet(places[q]) /\ places[q] \subseteq Int
             /\ Cardinality(places[q]) \in Nat /\ places[q] = 1 .. Cardinality(places[q])
  <2>1. PICK n \in Nat : places[q] = 1 .. n
    BY <1>2, WantsFacts
  <2>2. IsFiniteSet(1 .. n) /\ Cardinality(1 .. n) = n
    BY FS_Interval
  <2> QED BY <2>1, <2>2
<1>4. places \in [Ranks -> SUBSET Int]
  <2>1. \A q \in Ranks : DOMAIN recv[q] \in SUBSET Int
    BY <1>3
  <2> QED BY <2>1
<1> HIDE DEF places
<1>5. \A q \in 0 .. Size : at(q) \in Nat
  BY <1>3, <1>4, CountFacts
<1>6. \A r \in 0 .. Size : \A q \in Before(r) : at(q) + Cardinality(places[q]) <= at(r)
  BY <1>3, <1>4, CountFacts
<1>7. ASSUME NEW r \in 0 .. Size, NEW q \in Ranks, q < r
      PROVE  at(q) \in Nat /\ at(r) \in Nat /\ at(q) + Cardinality(places[q]) <= at(r)
  <2>1. q \in Before(r) /\ q \in 0 .. Size
    BY <1>7, SizeAssumption DEF Before, Ranks
  <2> QED BY <1>5, <1>6, <2>1
<1> HIDE DEF at
<1>8. ASSUME NEW q \in Ranks, NEW i \in places[q]
      PROVE  /\ i \in Nat \ {0} /\ at(q) + i \in 1 .. at(Size)
             /\ \A s \in Ranks : s # q => (at(q) + i) - at(s) \notin places[s]
  <2>1. PICK n \in Nat : n = Cardinality(places[q]) /\ i \in 1 .. n
    BY <1>3
  <2>2. Size \in 0 .. Size /\ q < Size
    BY SizeAssumption DEF Ranks
  <2>3. at(q) \in Nat /\ at(Size) \in Nat /\ at(q) + n <= at(Size)
    BY <1>7, <2>1, <2>2
  <2>4. ASSUME NEW s \in Ranks, s # q PROVE (at(q) + i) - at(s) \notin places[s]
    <3>1. PICK m \in Nat : m = Cardinality(places[s]) /\ places[s] = 1 .. m
      BY <1>3
    <3>2. s \in 0 .. Size /\ q \in 0 .. Size /\ s \in Int /\ q \in Int
      BY SizeAssumption DEF Ranks
    <3>3. CASE q < s
      <4>1. at(s) \in Nat /\ at(q) + n <= at(s)
        BY <1>7, <2>1, <3>2, <3>3
      <4> QED BY <2>1, <2>3, <3>1, <4>1
    <3>4. CASE s < q
      <4>1. at(s) \in Nat /\ at(s) + m <= at(q)
        BY <1>7, <3>1, <3>2, <3>4
      <4>2. PICK a \in Nat, b \in Nat : a = at(q) /\ b = at(s) /\ b + m <= a
        BY <2>3, <4>1
      <4>3. (a + i) - b > m
        BY <2>1, <4>2
      <4>4. (a + i) - b \notin 1 .. m
        BY <4>3
      <4> QED BY <3>1, <4>2, <4>4
    <3> QED BY <2>4, <3>2, <3>3, <3>4
  <2> QED BY <2>1, <2>3, <2>4
<1> QED BY <1>1, <1>2, <1>5, <1>8

\* No mapping was refused, so every node of a degree of freedom another rank
\* owns looks where that rank's value will be.
LEMMA TargetFacts ==
  ASSUME NodesTyped, ConnectorInv, connector # <<>>, NEW kind \in Kinds, NEW r \in Ranks,
         NEW id \in DOMAIN nodes[r], NEW label, label = LabelOf(kind, r)[id],
         label # Unset, label \notin Own(kind, r)
  PROVE  \E q \in Ranks : \E i \in DOMAIN Wants(r, q, kind) :
           /\ Wants(r, q, kind)[i] = label
           /\ (connector[kind][r].target[id] - connector[kind][r].own) + 1
                = OffsetInShared(connector[kind][r].recv, q) + i
<1>1. PICK recv : recv = connector[kind][r].recv
  OBVIOUS
<1>2. /\ DistTyped /\ Raising = {} /\ recv = [p \in Ranks |-> Wanted(kind, r, p)]
      /\ connector[kind][r].own = DistOf(kind)[r + 1] - DistOf(kind)[r]
      /\ connector[kind][r].target = NodeTarget(kind, r)
  BY <1>1, Connected
<1>3. PICK own \in Int : own = DistOf(kind)[r + 1] - DistOf(kind)[r]
  <2>1. r \in 0 .. Size /\ r + 1 \in 0 .. Size
    BY SizeAssumption DEF Ranks
  <2>2. DistOf(kind)[r + 1] \in Int /\ DistOf(kind)[r] \in Int
    BY <1>2, <2>1, DistInts
  <2> QED BY <2>2
<1>4. \A q \in Ranks : Wants(r, q, kind) = recv[q]
  BY <1>1 DEF Wants
\* what the mapping says of a label the rank does not own
<1>5. ASSUME NEW dof, dof \notin Own(kind, r), \E q \in Ranks : dof \in Range(recv[q])
      PROVE  \E q \in Ranks : \E i \in DOMAIN recv[q] :
               /\ recv[q][i] = dof /\ i \in Nat \ {0} /\ OffsetInShared(recv, q) \in Nat
               /\ LocalIndex(kind, r, dof) = own + (OffsetInShared(recv, q) + i - 1)
  <2>1. PICK q \in Ranks : q = CHOOSE s \in Ranks : dof \in Range(recv[s])
    BY <1>5
  <2>2. dof \in Range(recv[q])
    BY <1>5, <2>1
  <2>3. PICK i \in DOMAIN recv[q] : i = CHOOSE j \in DOMAIN recv[q] : recv[q][j] = dof
    BY <2>2 DEF Range
  <2>4. recv[q][i] = dof
    BY <2>2, <2>3 DEF Range
  <2>5. IndexInShared(recv, dof) = OffsetInShared(recv, q) + i - 1
    BY <2>1, <2>3 DEF IndexInShared
  <2>6. LocalIndex(kind, r, dof) = own + IndexInShared(recv, dof)
    BY <1>2, <1>3, <1>5 DEF LocalIndex
  <2>7. i \in Nat \ {0} /\ OffsetInShared(recv, q) \in Nat
    <3>1. q \in 0 .. Size
      BY SizeAssumption DEF Ranks
    <3>2. i \in DOMAIN Wants(r, q, kind)
      BY <1>4
    <3> QED BY <1>1, <3>1, <3>2, OffsetFacts
  <2> QED BY <2>4, <2>5, <2>6, <2>7
<1>6. \A j \in DOMAIN nodes[r] : NodeTarget(kind, r)[j] =
        IF LabelOf(kind, r)[j] = Unset THEN Unset ELSE LocalIndex(kind, r, LabelOf(kind, r)[j])
  BY DEF NodeTarget
<1>7. CASE \E q \in Ranks : label \in Range(recv[q])
  <2>1. PICK q \in Ranks : \E i \in DOMAIN recv[q] :
               /\ recv[q][i] = label /\ i \in Nat \ {0} /\ OffsetInShared(recv, q) \in Nat
               /\ LocalIndex(kind, r, label) = own + (OffsetInShared(recv, q) + i - 1)
    BY <1>5, <1>7
  <2>2. PICK i \in DOMAIN recv[q] :
               /\ recv[q][i] = label /\ i \in Nat \ {0} /\ OffsetInShared(recv, q) \in Nat
               /\ LocalIndex(kind, r, label) = own + (OffsetInShared(recv, q) + i - 1)
    BY <2>1
  <2>3. connector[kind][r].target[id] = LocalIndex(kind, r, label)
    BY <1>2, <1>6
  <2>4. (connector[kind][r].target[id] - connector[kind][r].own) + 1 = OffsetInShared(recv, q) + i
    BY <1>2, <1>3, <2>2, <2>3
  <2> QED BY <1>1, <1>4, <2>2, <2>4
\* a label nobody is asked for would have been refused
<1>8. CASE ~ (\E q \in Ranks : label \in Range(recv[q]))
  <2> DEFINE target == NodeTarget(kind, r)
             flagged == FlaggedValues(r, target)
  <2>1. label \in Present(kind, r)
    BY DEF Present
  <2>2. target[id] = -2
    <3>1. LocalIndex(kind, r, label) = Unset - 1
      BY <1>2, <1>8, <2>1 DEF LocalIndex
    <3> QED BY <1>6, <3>1 DEF Unset
  <2>3. ASSUME NEW j \in DOMAIN nodes[r]
        PROVE  target[j] \in Int /\ (target[j] >= -2 \/ target[j] >= own)
    <3>1. PICK dof : dof = LabelOf(kind, r)[j]
      OBVIOUS
    <3>2. target[j] = IF dof = Unset THEN Unset ELSE LocalIndex(kind, r, dof)
      BY <1>6, <3>1
    <3>3. CASE dof = Unset
      BY <3>2, <3>3 DEF Unset
    <3>4. CASE dof # Unset /\ dof \in Own(kind, r)
      <4>1. LocalIndex(kind, r, dof) = dof - DistOf(kind)[r]
        BY <3>4 DEF LocalIndex
      <4>2. r \in 0 .. Size /\ r + 1 \in 0 .. Size
        BY SizeAssumption DEF Ranks
      <4>3. DistOf(kind)[r] \in Int /\ DistOf(kind)[r + 1] \in Int
        BY <1>2, <4>2, DistInts
      <4>4. dof \in Int /\ DistOf(kind)[r] <= dof
        BY <3>4, <4>3 DEF Own
      <4> QED BY <3>2, <3>4, <4>1, <4>3, <4>4
    <3>5. CASE dof # Unset /\ dof \notin Own(kind, r) /\ \E q \in Ranks : dof \in Range(recv[q])
      <4>1. PICK q \in Ranks : \E i \in DOMAIN recv[q] :
               /\ i \in Nat \ {0} /\ OffsetInShared(recv, q) \in Nat
               /\ LocalIndex(kind, r, dof) = own + (OffsetInShared(recv, q) + i - 1)
        BY <1>5, <3>5
      <4>2. PICK i : /\ i \in Nat \ {0} /\ OffsetInShared(recv, q) \in Nat
                     /\ LocalIndex(kind, r, dof) = own + (OffsetInShared(recv, q) + i - 1)
        BY <4>1
      <4> QED BY <1>3, <3>2, <3>5, <4>2
    <3>6. CASE dof # Unset /\ dof \notin Own(kind, r) /\ ~ \E q \in Ranks : dof \in Range(recv[q])
      <4>1. LocalIndex(kind, r, dof) = Unset - 1
        BY <1>2, <3>1, <3>6 DEF LocalIndex, Present
      <4> QED BY <3>2, <3>6, <4>1 DEF Unset
    <3> QED BY <3>3, <3>4, <3>5, <3>6
  <2> HIDE DEF target
  <2>4. FirstNode(r) \in DOMAIN nodes[r]
    <3>1. DOMAIN nodes[r] \subseteq Int /\ IsFiniteSet(DOMAIN nodes[r]) /\ DOMAIN nodes[r] # {}
      BY DEF NodesTyped
    <3>2. PICK S : S = DOMAIN nodes[r]
      OBVIOUS
    <3>3. Min(S) \in S
      BY <3>1, <3>2, MinMax
    <3> QED BY <3>2, <3>3 DEF FirstNode
  <2>5. \A x \in flagged : \E j \in DOMAIN nodes[r] : x = target[j]
    BY <2>4 DEF FlaggedValues
  <2>6. -2 \in flagged
    BY <2>2 DEF FlaggedValues, Unset
  <2>7. PICK b \in Int : b <= -2 /\ b <= own
    <3>1. CASE own <= -2
      BY <1>3, <3>1
    <3>2. CASE ~ (own <= -2)
      BY <1>3, <3>2
    <3> QED BY <3>1, <3>2
  <2>8. flagged \subseteq Int /\ \A x \in flagged : b <= x
    <3>1. ASSUME NEW j \in DOMAIN nodes[r] PROVE target[j] \in Int /\ b <= target[j]
      BY <1>3, <2>3, <2>7
    <3> HIDE DEF flagged
    <3> QED BY <2>5, <3>1
  <2>9. Min(flagged) <= -2 /\ Min(flagged) \in Int
    <3>1. PICK S : S = flagged
      OBVIOUS
    <3>2. S \subseteq Int /\ (\A x \in S : b <= x) /\ S # {} /\ -2 \in S
      BY <2>6, <2>8, <3>1
    <3> HIDE DEF flagged
    <3>3. Min(S) \in S /\ \A x \in S : Min(S) <= x
      BY <3>2, MinOfBounded
    <3> QED BY <3>1, <3>2, <3>3
  <2>10. AssignRaises(r, target)
    BY <2>9 DEF AssignRaises
  <2>11. r \in Raising
    <3>1. \E k \in Kinds : AssignRaises(r, NodeTarget(k, r))
      BY <2>10 DEF target
    <3> QED BY <3>1 DEF Raising
  <2> QED BY <1>2, <2>11
<1> QED BY <1>7, <1>8

-----------------------------------------------------------------------------
(* How far a rank is                                                       *)

\* Division with remainder has one result.
LEMMA Remainder ==
  ASSUME NEW a \in Nat, NEW b \in Nat \ {0}, NEW q \in Nat, NEW m \in 0 .. b - 1, a = b * q + m
  PROVE  a % b = m
<1>1. PICK s \in Nat, n \in 0 .. b - 1 : a = b * s + n /\ n = a % b
  BY DivMod
<1>2. b * (q - s) = n - m
  <2>1. b * (q - s) = b * q - b * s /\ b * q \in Int /\ b * s \in Int
    OBVIOUS
  <2> QED BY <1>1, <2>1
<1>3. CASE q - s >= 1
  <2>1. b * (q - s) >= b
    BY <1>3
  <2> QED BY <1>2, <2>1
<1>4. CASE q - s <= -1
  <2>1. b * (s - q) >= b /\ b * (q - s) = - (b * (s - q))
    BY <1>4
  <2> QED BY <1>2, <2>1
<1>5. CASE q = s
  BY <1>1, <1>5
<1> QED BY <1>3, <1>4, <1>5

\* The counter a call of startCollect leaves
LEMMA TagStep ==
  ASSUME NEW c \in Nat
  PROVE  (TagAt(c) + Size) % TagLimit = TagAt(c + 1)
<1>1. Size \in Nat \ {0} /\ TagLimit \in Nat \ {0}
  BY SizeAssumption, TagLimitAssumption
<1>2. PICK a \in Nat : a = c * Size /\ (c + 1) * Size = a + Size
  BY <1>1
<1>3. PICK q \in Nat, m \in 0 .. TagLimit - 1 : a = TagLimit * q + m /\ m = a % TagLimit
  BY <1>1, DivMod
<1>4. PICK s \in Nat, n \in 0 .. TagLimit - 1 : m + Size = TagLimit * s + n /\ n = (m + Size) % TagLimit
  <2>1. m + Size \in Nat
    BY <1>1
  <2> QED BY <1>1, <2>1, DivMod
<1>5. a + Size = TagLimit * (q + s) + n
  <2>1. TagLimit * (q + s) = TagLimit * q + TagLimit * s /\ TagLimit * q \in Int /\ TagLimit * s \in Int
    BY <1>1
  <2> QED BY <1>1, <1>3, <1>4, <2>1
<1>6. (a + Size) % TagLimit = n
  <2>1. a + Size \in Nat /\ q + s \in Nat
    BY <1>1
  <2> QED BY <1>1, <1>5, <2>1, Remainder
<1> QED BY <1>2, <1>3, <1>4, <1>6 DEF TagAt

\* How many exchanges a rank has started follows from its calls.
LEMMA StartedFacts ==
  ASSUME NEW r \in Ranks, ShapeInv, CallsInv(r)
  PROVE  /\ Left(r) \in 0 .. 5 /\ round[r] \in Nat
         /\ Started(r, "full") \in Nat /\ Started(r, "reduced") \in Nat
         /\ Left(r) = 5 => Started(r, "full") = round[r] - 1 /\ Started(r, "reduced") = round[r] - 1
         /\ Left(r) = 4 => Started(r, "full") = round[r] /\ Started(r, "reduced") = round[r] - 1
         /\ Left(r) = 3 => Started(r, "full") = round[r] /\ Started(r, "reduced") = round[r]
         /\ Left(r) < 3 => Started(r, "full") = round[r] - 1 /\ Started(r, "reduced") = round[r] - 1
         /\ inUse[r]["full"] <=> Left(r) \in 2 .. 4
         /\ inUse[r]["reduced"] <=> Left(r) \in 1 .. 3
         /\ \A kind \in Kinds : inUse[r][kind] => Started(r, kind) > 0
         /\ \A kind \in Kinds : Started(r, kind) \in Nat
<1>1. Left(r) \in 0 .. 5
  BY LeftFacts
<1>2. round[r] \in Nat
  BY DEF ShapeInv
<1>3. /\ Exchange(r) > 0
      /\ inUse[r]["full"] <=> Left(r) \in 2 .. 4
      /\ inUse[r]["reduced"] <=> Left(r) \in 1 .. 3
  BY DEF CallsInv
<1>4. /\ Left(r) >= 3 => Exchange(r) = round[r]
      /\ Left(r) < 3 => Exchange(r) = round[r] - 1
  BY <1>1 DEF Exchange
<1>5. /\ Left(r) = 5 => Started(r, "full") = Exchange(r) - 1 /\ Started(r, "reduced") = Exchange(r) - 1
      /\ Left(r) = 4 => Started(r, "full") = Exchange(r) /\ Started(r, "reduced") = Exchange(r) - 1
      /\ Left(r) \in 0 .. 3 => Started(r, "full") = Exchange(r) /\ Started(r, "reduced") = Exchange(r)
  BY <1>1 DEF Started
<1>6. Kinds = {"full", "reduced"}
  BY DEF Kinds
<1>7. Exchange(r) \in Nat
  BY <1>1, <1>2, <1>3, <1>4
<1>8. /\ Started(r, "full") \in Nat /\ Started(r, "reduced") \in Nat
      /\ Left(r) = 5 => Started(r, "full") = round[r] - 1 /\ Started(r, "reduced") = round[r] - 1
      /\ Left(r) = 4 => Started(r, "full") = round[r] /\ Started(r, "reduced") = round[r] - 1
      /\ Left(r) = 3 => Started(r, "full") = round[r] /\ Started(r, "reduced") = round[r]
      /\ Left(r) < 3 => Started(r, "full") = round[r] - 1 /\ Started(r, "reduced") = round[r] - 1
  BY <1>1, <1>2, <1>3, <1>4, <1>5, <1>7
<1>9. inUse[r]["full"] => Started(r, "full") > 0
  BY <1>1, <1>3, <1>5, <1>7
<1>10. inUse[r]["reduced"] => Started(r, "reduced") > 0
  BY <1>1, <1>3, <1>5, <1>7
<1> QED BY <1>1, <1>2, <1>3, <1>6, <1>8, <1>9, <1>10

\* A rank that does nothing stays where it is.
LEMMA RankKept ==
  ASSUME NEW r, todo'[r] = todo[r], round'[r] = round[r]
  PROVE  /\ Left(r)' = Left(r) /\ Exchange(r)' = Exchange(r)
         /\ \A kind : Started(r, kind)' = Started(r, kind)
<1>1. Left(r)' = Left(r)
  BY DEF Left
<1>2. Exchange(r)' = Exchange(r)
  BY <1>1 DEF Exchange
<1> QED BY <1>1, <1>2 DEF Started

\* A rank that has called nothing stands where it stood in its calls.
LEMMA CallsKept ==
  ASSUME NEW r, CallsInv(r), todo'[r] = todo[r], round'[r] = round[r], counter'[r] = counter[r],
         inUse'[r] = inUse[r], collected'[r] = collected[r]
  PROVE  CallsInv(r)'
BY RankKept DEF CallsInv, LastCalls, TagAt

\* startCollect starts the next exchange of its kind, under the counter it had.
LEMMA StartCalls ==
  ASSUME NEW r \in Ranks, NEW kind \in Kinds, ShapeInv, CallsInv(r), StartCollect(r, kind)
  PROVE  /\ CallsInv(r)'
         /\ Started(r, kind)' = Started(r, kind) + 1
         /\ \A k \in Kinds : k # kind => Started(r, k)' = Started(r, k)
         /\ TagOf(kind, Started(r, kind) + 1) = counter[r]
         /\ round[r] = Started(r, kind) + 1
<1> USE DEF StartCollect
<1>1. PICK n \in 0 .. 5 : n = Left(r)
  BY LeftFacts
<1>2. (kind = "full" /\ n = 5) \/ (kind = "reduced" /\ n = 4)
  <2>1. Calls(r, <<"start", kind>>)
    OBVIOUS
  <2>2. kind = "full" \/ kind = "reduced"
    BY DEF Kinds
  <2> QED BY <1>1, <2>1, <2>2, LeftFacts
<1>3. todo'[r] = LastCalls(n - 1)
  <2>1. todo'[r] = Rest(r)
    BY DEF ShapeInv
  <2> QED BY <1>1, <1>2, <2>1, LeftFacts
<1>4. Left(r)' = n - 1 /\ n - 1 \in 3 .. 4
  <2>1. n - 1 \in 0 .. 5 /\ n - 1 \in 3 .. 4
    BY <1>2
  <2>2. Len(LastCalls(n - 1)) = n - 1
    BY <2>1, LastCallsFacts
  <2> QED BY <1>3, <2>1, <2>2 DEF Left
<1>5. round'[r] = round[r] /\ round[r] \in Nat
  BY DEF ShapeInv
<1>6. Exchange(r) = round[r] /\ Exchange(r)' = round[r] /\ round[r] > 0
  <2>1. Exchange(r) = round[r] /\ Exchange(r)' = round[r]
    BY <1>1, <1>2, <1>4, <1>5 DEF Exchange
  <2>2. Exchange(r) > 0
    BY DEF CallsInv
  <2> QED BY <2>1, <2>2
<1>7. /\ kind = "full" => /\ Started(r, "full") = round[r] - 1 /\ Started(r, "full")' = round[r]
                          /\ Started(r, "reduced") = round[r] - 1 /\ Started(r, "reduced")' = round[r] - 1
      /\ kind = "reduced" => /\ Started(r, "full") = round[r] /\ Started(r, "full")' = round[r]
                             /\ Started(r, "reduced") = round[r] - 1 /\ Started(r, "reduced")' = round[r]
  BY <1>1, <1>2, <1>4, <1>6 DEF Started
<1>8. counter[r] = TagAt(Started(r, "full") + Started(r, "reduced"))
  BY DEF CallsInv
<1>9. PICK c \in Nat : c = Started(r, "full") + Started(r, "reduced")
  BY <1>2, <1>5, <1>6, <1>7
<1>10. Started(r, "full")' + Started(r, "reduced")' = c + 1
  BY <1>2, <1>5, <1>7, <1>9
<1>11. counter'[r] = TagAt(c + 1)
  <2>1. counter'[r] = (counter[r] + Size) % TagLimit
    BY DEF ShapeInv
  <2> QED BY <1>8, <1>9, <2>1, TagStep
<1>12. TagOf(kind, Started(r, kind) + 1) = counter[r]
  <2>1. CASE kind = "full"
    <3>1. c = 2 * (Started(r, kind) + 1) - 2
      BY <1>5, <1>7, <1>9, <2>1
    <3> QED BY <1>8, <1>9, <2>1, <3>1 DEF TagOf
  <2>2. CASE kind = "reduced"
    <3>1. c = 2 * (Started(r, kind) + 1) - 1
      BY <1>5, <1>7, <1>9, <2>2
    <3> QED BY <1>8, <1>9, <2>2, <3>1 DEF TagOf
  <2> QED BY <1>2, <2>1, <2>2
<1>13. inUse'[r] = [inUse[r] EXCEPT ![kind] = TRUE] /\ collected'[r] = collected[r]
  BY DEF ShapeInv
<1>14. /\ inUse'[r]["full"] <=> Left(r)' \in 2 .. 4
       /\ inUse'[r]["reduced"] <=> Left(r)' \in 1 .. 3
  <2>1. DOMAIN inUse[r] = Kinds
    BY DEF ShapeInv
  <2>2. /\ inUse[r]["full"] <=> n \in 2 .. 4
        /\ inUse[r]["reduced"] <=> n \in 1 .. 3
    BY <1>1 DEF CallsInv
  <2>3. CASE kind = "full" /\ n = 5
    <3>1. inUse'[r]["full"] /\ inUse'[r]["reduced"] = inUse[r]["reduced"]
      BY <1>13, <2>1, <2>3 DEF Kinds
    <3> QED BY <1>4, <2>2, <2>3, <3>1
  <2>4. CASE kind = "reduced" /\ n = 4
    <3>1. inUse'[r]["reduced"] /\ inUse'[r]["full"] = inUse[r]["full"]
      BY <1>13, <2>1, <2>4 DEF Kinds
    <3> QED BY <1>4, <2>2, <2>4, <3>1
  <2> QED BY <1>2, <2>3, <2>4
<1>15. ASSUME NEW k \in Kinds
       PROVE  collected'[r][k] = IF inUse'[r][k] THEN Started(r, k)' - 1 ELSE Started(r, k)'
  <2>1. collected'[r][k] = collected[r][k]
    BY <1>13
  <2>2. collected[r][k] = IF inUse[r][k] THEN Started(r, k) - 1 ELSE Started(r, k)
    BY DEF CallsInv
  <2>3. CASE k = kind
    <3>1. ~ inUse[r][k] /\ inUse'[r][k]
      BY <1>13, <2>3 DEF ShapeInv
    <3>2. Started(r, k) = Started(r, k)' - 1
      BY <1>2, <1>5, <1>7, <2>3
    <3> QED BY <2>1, <2>2, <3>1, <3>2
  <2>4. CASE k # kind
    <3>1. inUse'[r][k] = inUse[r][k]
      BY <1>13, <2>4 DEF ShapeInv
    <3>2. Started(r, k)' = Started(r, k)
      BY <1>2, <1>7, <2>4 DEF Kinds
    <3> QED BY <2>1, <2>2, <3>1, <3>2
  <2> QED BY <2>3, <2>4
<1>16. CallsInv(r)'
  <2>1. \E m \in 0 .. 5 : todo'[r] = LastCalls(m)
    BY <1>3, <1>4
  <2>2. counter'[r] = TagAt(Started(r, "full")' + Started(r, "reduced")')
    BY <1>10, <1>11
  <2>3. (Exchange(r) > 0)'
    BY <1>6
  <2> QED BY <1>14, <1>15, <2>1, <2>2, <2>3 DEF CallsInv, LastCalls, TagAt
<1>17. \A k \in Kinds : k # kind => Started(r, k)' = Started(r, k)
  BY <1>2, <1>7 DEF Kinds
<1> QED BY <1>2, <1>5, <1>7, <1>12, <1>16, <1>17

\* Computing new values starts nothing.
LEMMA ComputeCalls ==
  ASSUME NEW r \in Ranks, ShapeInv, CallsInv(r), Compute(r)
  PROVE  CallsInv(r)' /\ \A k \in Kinds : Started(r, k)' = Started(r, k)
<1> USE DEF Compute
<1>1. Left(r) = 3
  BY LeftFacts
<1>2. todo'[r] = LastCalls(2)
  <2>1. todo'[r] = Rest(r)
    BY DEF ShapeInv
  <2>2. Rest(r) = LastCalls(2)
    BY <1>1, LeftFacts
  <2> QED BY <2>1, <2>2
<1>3. Left(r)' = 2
  <2>1. Len(LastCalls(2)) = 2
    BY LastCallsFacts
  <2> QED BY <1>2, <2>1 DEF Left
<1>4. round'[r] = round[r] + 1 /\ round[r] \in Nat
  BY DEF ShapeInv
<1>5. Exchange(r) = round[r] /\ Exchange(r)' = round[r]
  BY <1>1, <1>3, <1>4 DEF Exchange
<1>6. \A k \in Kinds : Started(r, k)' = Started(r, k)
  BY <1>1, <1>3, <1>5 DEF Started
<1>7. counter'[r] = counter[r] /\ inUse'[r] = inUse[r] /\ collected'[r] = collected[r]
  OBVIOUS
<1>8. "full" \in Kinds /\ "reduced" \in Kinds
  BY DEF Kinds
<1>9. /\ inUse'[r]["full"] <=> Left(r)' \in 2 .. 4
      /\ inUse'[r]["reduced"] <=> Left(r)' \in 1 .. 3
  BY <1>1, <1>3, <1>7 DEF CallsInv
<1>10. (Exchange(r) > 0)'
  BY <1>5 DEF CallsInv
<1>11. counter'[r] = TagAt(Started(r, "full")' + Started(r, "reduced")')
  BY <1>6, <1>7, <1>8 DEF CallsInv
<1>12. \A k \in Kinds :
         collected'[r][k] = IF inUse'[r][k] THEN Started(r, k)' - 1 ELSE Started(r, k)'
  BY <1>6, <1>7 DEF CallsInv
<1>13. \E m \in 0 .. 5 : todo'[r] = LastCalls(m)
  BY <1>2
<1> QED BY <1>6, <1>9, <1>10, <1>11, <1>12, <1>13 DEF CallsInv, LastCalls, TagAt

\* finishCollect ends the exchange of its kind that startCollect began.
LEMMA FinishCalls ==
  ASSUME NEW r \in Ranks, NEW kind \in Kinds, ShapeInv, CallsInv(r), FinishCollect(r, kind)
  PROVE  CallsInv(r)' /\ \A k \in Kinds : Started(r, k)' = Started(r, k)
<1> USE DEF FinishCollect
<1>1. PICK n \in 0 .. 5 : n = Left(r)
  BY LeftFacts
<1>2. (kind = "full" /\ n = 2) \/ (kind = "reduced" /\ n = 1)
  <2>1. Calls(r, <<"finish", kind>>)
    OBVIOUS
  <2>2. kind = "full" \/ kind = "reduced"
    BY DEF Kinds
  <2> QED BY <1>1, <2>1, <2>2, LeftFacts
<1>3. PICK m \in 0 .. 5 : todo'[r] = LastCalls(m) /\ (m = n - 1 \/ (n = 1 /\ m \in {0, 5}))
  <2>1. todo'[r] = Rest(r)
    BY DEF ShapeInv
  <2> QED BY <1>1, <1>2, <2>1, LeftFacts
<1>4. Left(r)' = m
  BY <1>3, LastCallsFacts DEF Left
<1>5. round'[r] = round[r] /\ round[r] \in Nat
  BY DEF ShapeInv
<1>6. /\ Exchange(r) = round[r] - 1 /\ round[r] - 1 > 0
      /\ Exchange(r)' = IF m = 5 THEN round[r] ELSE round[r] - 1
  <2>1. Exchange(r) = round[r] - 1
    BY <1>1, <1>2 DEF Exchange
  <2>2. Exchange(r) > 0
    BY DEF CallsInv
  <2>3. Exchange(r)' = IF m = 5 THEN round[r] ELSE round[r] - 1
    BY <1>2, <1>3, <1>4, <1>5 DEF Exchange
  <2> QED BY <2>1, <2>2, <2>3
<1>7. \A k \in Kinds : Started(r, k) = round[r] - 1 /\ Started(r, k)' = round[r] - 1
  <2>1. \A k \in Kinds : Started(r, k) = round[r] - 1
    BY <1>1, <1>2, <1>6 DEF Started
  <2>2. CASE m = 5
    BY <1>4, <1>5, <1>6, <2>1, <2>2 DEF Started
  <2>3. CASE m # 5
    <3>1. m # 4
      BY <1>2, <1>3
    <3> QED BY <1>4, <1>6, <2>1, <2>3, <3>1 DEF Started
  <2> QED BY <2>2, <2>3
<1>8. \A k \in Kinds : Started(r, k)' = Started(r, k)
  BY <1>7
<1>9. "full" \in Kinds /\ "reduced" \in Kinds
  BY DEF Kinds
<1>10. /\ inUse'[r] = [inUse[r] EXCEPT ![kind] = FALSE]
       /\ collected'[r] = [collected[r] EXCEPT ![kind] = round[r] - 1]
       /\ counter'[r] = counter[r] /\ DOMAIN inUse[r] = Kinds /\ DOMAIN collected[r] = Kinds
  BY DEF ShapeInv
<1>11. /\ inUse'[r]["full"] <=> Left(r)' \in 2 .. 4
       /\ inUse'[r]["reduced"] <=> Left(r)' \in 1 .. 3
  <2>1. /\ inUse[r]["full"] <=> n \in 2 .. 4
        /\ inUse[r]["reduced"] <=> n \in 1 .. 3
    BY <1>1 DEF CallsInv
  <2>2. CASE kind = "full" /\ n = 2
    <3>1. ~ inUse'[r]["full"] /\ inUse'[r]["reduced"] = inUse[r]["reduced"]
      BY <1>9, <1>10, <2>2
    <3>2. m = 1
      BY <1>3, <2>2
    <3> QED BY <1>4, <2>1, <2>2, <3>1, <3>2
  <2>3. CASE kind = "reduced" /\ n = 1
    <3>1. ~ inUse'[r]["reduced"] /\ inUse'[r]["full"] = inUse[r]["full"]
      BY <1>9, <1>10, <2>3
    <3>2. m = 0 \/ m = 5
      BY <1>3, <2>3
    <3> QED BY <1>4, <2>1, <2>3, <3>1, <3>2
  <2> QED BY <1>2, <2>2, <2>3
<1>12. (Exchange(r) > 0)'
  BY <1>5, <1>6
<1>13. counter'[r] = TagAt(Started(r, "full")' + Started(r, "reduced")')
  BY <1>8, <1>9, <1>10 DEF CallsInv
<1>14. ASSUME NEW k \in Kinds
       PROVE  collected'[r][k] = IF inUse'[r][k] THEN Started(r, k)' - 1 ELSE Started(r, k)'
  <2>1. CASE k = kind
    <3>1. ~ inUse'[r][k] /\ collected'[r][k] = round[r] - 1
      BY <1>10, <2>1
    <3> QED BY <1>7, <3>1
  <2>2. CASE k # kind
    <3>1. inUse'[r][k] = inUse[r][k] /\ collected'[r][k] = collected[r][k]
      BY <1>10, <2>2
    <3>2. collected[r][k] = IF inUse[r][k] THEN Started(r, k) - 1 ELSE Started(r, k)
      BY DEF CallsInv
    <3> QED BY <1>8, <3>1, <3>2
  <2> QED BY <2>1, <2>2
<1>15. \E i \in 0 .. 5 : todo'[r] = LastCalls(i)
  BY <1>3
<1> QED BY <1>8, <1>11, <1>12, <1>13, <1>14, <1>15 DEF CallsInv, LastCalls, TagAt

-----------------------------------------------------------------------------
(* What is between two ranks                                               *)

\* The mesh is at rest while ranks exchange values.
LEMMA MeshAtRest ==
  ASSUME MeshInv, ConnectorInv, UNCHANGED meshVars
  PROVE  MeshInv' /\ ConnectorInv'
<1>1. MeshInv'
  BY MeshUnchanged
<1>2. ConnectorInv'
  <2>1. Raising' = Raising /\ \A kind, r : Connector(kind, r)' = Connector(kind, r)
    BY MeshStays DEF meshVars
  <2> QED BY <2>1 DEF ConnectorInv, DistTyped, meshVars
<1> QED BY <1>1, <1>2

\* Nobody wants other values unless the mesh changes.
LEMMA WantsKept ==
  ASSUME UNCHANGED meshVars
  PROVE  \A p, q, kind : Wants(p, q, kind)' = Wants(p, q, kind)
BY DEF Wants, meshVars

\* What identifies a message and a receive
LEMMA Labels ==
  ASSUME NEW p, NEW q, NEW kind
  PROVE  /\ MessageOf(q, p, kind).from = q /\ MessageOf(q, p, kind).to = p /\ MessageOf(q, p, kind).of = kind
         /\ MessageOf(q, p, kind).tag = TagOf(kind, Started(q, kind)) + q
         /\ ReceiveOf(p, q, kind).at = p /\ ReceiveOf(p, q, kind).from = q /\ ReceiveOf(p, q, kind).of = kind
         /\ ReceiveOf(p, q, kind).tag = TagOf(kind, Started(p, kind)) + q
BY DEF MessageOf, ReceiveOf

\* They stay what they are unless their rank starts another exchange.
LEMMA LabelsKept ==
  ASSUME UNCHANGED meshVars
  PROVE  /\ \A p, q, kind : Started(q, kind)' = Started(q, kind) =>
              MessageOf(q, p, kind)' = MessageOf(q, p, kind)
         /\ \A p, q, kind : Started(p, kind)' = Started(p, kind) =>
              ReceiveOf(p, q, kind)' = ReceiveOf(p, q, kind)
BY WantsKept DEF MessageOf, ReceiveOf, TagOf, TagAt

\* What has arrived stays there until the next exchange of its kind is started.
LEMMA GotKept ==
  ASSUME UNCHANGED meshVars, NEW p, NEW q, NEW kind, Started(p, kind)' = Started(p, kind),
         buffer'[p][kind] = buffer[p][kind]
  PROVE  Got(p, q, kind)' <=> Got(p, q, kind)
<1>1. Wants(p, q, kind)' = Wants(p, q, kind) /\ connector' = connector
  BY WantsKept DEF meshVars
<1>2. OffsetInShared(connector[kind][p].recv, q)' = OffsetInShared(connector[kind][p].recv, q)
  BY <1>1 DEF OffsetInShared, CountBefore, Before
<1> QED BY <1>1, <1>2 DEF Got

\* Two ranks stand as they stood if what is between them is what it was.
LEMMA PairKept ==
  ASSUME UNCHANGED meshVars, NEW p, NEW q, NEW kind, PairInv(p, q, kind),
         Started(p, kind)' = Started(p, kind), Started(q, kind)' = Started(q, kind),
         buffer'[p][kind] = buffer[p][kind],
         MessageOf(q, p, kind) \in mail' <=> MessageOf(q, p, kind) \in mail,
         ReceiveOf(p, q, kind) \in posted' <=> ReceiveOf(p, q, kind) \in posted
  PROVE  PairInv(p, q, kind)'
<1>1. Got(p, q, kind)' <=> Got(p, q, kind)
  BY GotKept
<1>2. MessageOf(q, p, kind)' = MessageOf(q, p, kind) /\ ReceiveOf(p, q, kind)' = ReceiveOf(p, q, kind)
  BY LabelsKept
<1> QED BY <1>1, <1>2 DEF PairInv

\* So do a rank's own buffers.
LEMMA BufferKept ==
  ASSUME UNCHANGED meshVars, NEW r, NEW kind, BufferInv(r, kind),
         Started(r, kind)' = Started(r, kind), DOMAIN buffer'[r][kind] = DOMAIN buffer[r][kind]
  PROVE  BufferInv(r, kind)'
BY DEF BufferInv, OffsetInShared, CountBefore, Before, meshVars

\* A rank starts an exchange: its messages and receives join those under way.
LEMMA StartCollectStep ==
  ASSUME ConnectorInv, ExchangeInv, NEW r \in Ranks, NEW kind \in Kinds, StartCollect(r, kind)
  PROVE  ExchangeInv'
<1>1. /\ UNCHANGED meshVars /\ connector # <<>> /\ connector' = connector
      /\ round' = round /\ collected' = collected /\ ~ inUse[r][kind]
  BY DEF StartCollect, meshVars
<1>2. /\ ShapeInv /\ MailInv /\ PostedInv
      /\ \A q \in Ranks : CallsInv(q)
      /\ \A q \in Ranks, k \in Kinds : BufferInv(q, k)
      /\ \A p, q \in Ranks, k \in Kinds : Wants(p, q, k) # <<>> => PairInv(p, q, k)
  BY DEF ExchangeInv
<1>3. ShapeInv'
  <2>1. counter' \in [Ranks -> Nat]
    <3>1. (counter[r] + Size) % TagLimit \in Nat
      BY <1>2, SizeAssumption, TagLimitAssumption DEF ShapeInv
    <3> QED BY <1>2, <3>1 DEF ShapeInv, StartCollect
  <2>2. inUse' \in [Ranks -> [Kinds -> BOOLEAN]]
    BY <1>2 DEF ShapeInv, StartCollect
  <2>3. DOMAIN todo' = Ranks
    BY <1>2 DEF ShapeInv, StartCollect
  <2>4. DOMAIN buffer' = Ranks /\ \A q \in Ranks : DOMAIN buffer'[q] = Kinds
    BY <1>2 DEF ShapeInv, StartCollect
  <2> QED BY <1>1, <1>2, <2>1, <2>2, <2>3, <2>4 DEF ShapeInv
<1>4. \A q \in Ranks : q # r => /\ todo'[q] = todo[q] /\ counter'[q] = counter[q]
                                /\ inUse'[q] = inUse[q] /\ buffer'[q] = buffer[q]
  BY <1>2 DEF ShapeInv, StartCollect
<1>5. /\ inUse'[r][kind] /\ \A k \in Kinds : k # kind => inUse'[r][k] = inUse[r][k]
      /\ \A k \in Kinds : k # kind => buffer'[r][k] = buffer[r][k]
      /\ DOMAIN buffer'[r][kind] = 1 .. OffsetInShared(connector[kind][r].recv, Size)
  BY <1>2 DEF ShapeInv, StartCollect
<1>6. /\ CallsInv(r)'
      /\ Started(r, kind)' = Started(r, kind) + 1
      /\ \A k \in Kinds : k # kind => Started(r, k)' = Started(r, k)
      /\ TagOf(kind, Started(r, kind) + 1) = counter[r]
      /\ round[r] = Started(r, kind) + 1
  BY <1>2, StartCalls
<1>7. ASSUME NEW q \in Ranks, q # r
      PROVE  CallsInv(q)' /\ \A k : Started(q, k)' = Started(q, k)
  BY <1>1, <1>2, <1>4, <1>7, CallsKept, RankKept
<1>8. \A q \in Ranks, k \in Kinds : q # r \/ k # kind => Started(q, k)' = Started(q, k)
  BY <1>6, <1>7
<1>9. \A p, q \in Ranks, k \in Kinds : Wants(p, q, k)' = Wants(p, q, k)
  BY <1>1, WantsKept
<1>10. \A q \in Ranks, k \in Kinds : Started(q, k) \in Nat
  BY <1>2, StartedFacts
\* The messages and receives are those of the exchange now started.
<1>11. ASSUME NEW p \in Ranks
       PROVE  MessageOf(r, p, kind)'
                = [from |-> r, to |-> p, of |-> kind, tag |-> counter[r] + r,
                   data |-> [j \in DOMAIN connector[kind][r].send[p] |->
                               Value(r, kind, connector[kind][r].send[p][j])]]
  <2>1. [j \in DOMAIN connector[kind][r].send[p] |-> Value(r, kind, connector[kind][r].send[p][j])]
          = [j \in DOMAIN Wants(p, r, kind) |-> [dof |-> Wants(p, r, kind)[j], round |-> round[r]]]
    BY <1>1, SendFacts
  <2>2. PICK n \in Nat : n = Started(r, kind) + 1
    BY <1>10
  <2>3. Started(r, kind)' = n /\ round[r] = n /\ TagOf(kind, n) = counter[r] /\ TagOf(kind, n)' = TagOf(kind, n)
    BY <1>6, <2>2 DEF TagOf, TagAt
  <2>4. MessageOf(r, p, kind)' = [from |-> r, to |-> p, of |-> kind, tag |-> TagOf(kind, n) + r,
          data |-> [j \in DOMAIN Wants(p, r, kind) |-> [dof |-> Wants(p, r, kind)[j], round |-> n]]]
    BY <1>9, <2>3 DEF MessageOf
  <2> QED BY <2>1, <2>3, <2>4
<1>12. ASSUME NEW q \in Ranks
       PROVE  ReceiveOf(r, q, kind)' = [at |-> r, of |-> kind, from |-> q, tag |-> counter[r] + q]
  <2>1. PICK n \in Nat : n = Started(r, kind) + 1
    BY <1>10
  <2>2. Started(r, kind)' = n /\ TagOf(kind, n) = counter[r]
    BY <1>6, <2>1
  <2> QED BY <2>2 DEF ReceiveOf, TagOf, TagAt
<1>13. \A p \in Ranks : connector[kind][r].send[p] # <<>> <=> Wants(p, r, kind) # <<>>
  BY <1>1, SendFacts
<1>14. \A m : m \in mail' <=> m \in mail \/ \E p \in Ranks : m = MessageOf(r, p, kind)' /\ Wants(p, r, kind) # <<>>
  BY <1>11, <1>13 DEF StartCollect, Sends
<1>15. \A x : x \in posted' <=> x \in posted \/ \E q \in Ranks : x = ReceiveOf(r, q, kind)' /\ Wants(r, q, kind) # <<>>
  BY <1>12 DEF StartCollect, Receives, Wants
<1>16. \A p, q \in Ranks, k \in Kinds : q # r \/ k # kind => MessageOf(q, p, k)' = MessageOf(q, p, k)
  BY <1>1, <1>8, LabelsKept
<1>17. \A p, q \in Ranks, k \in Kinds : p # r \/ k # kind => ReceiveOf(p, q, k)' = ReceiveOf(p, q, k)
  BY <1>1, <1>8, LabelsKept
\* Nothing of this rank and kind was under way.
<1>18. ASSUME NEW m \in mail
       PROVE  \E p, q \in Ranks, k \in Kinds :
                /\ m = MessageOf(q, p, k) /\ inUse[q][k] /\ Wants(p, q, k) # <<>>
                /\ (q # r \/ k # kind)
  <2>1. PICK p \in Ranks, q \in Ranks, k \in Kinds :
          m = MessageOf(q, p, k) /\ inUse[q][k] /\ Wants(p, q, k) # <<>>
    BY <1>2 DEF MailInv
  <2> QED BY <1>1, <2>1
<1>19. ASSUME NEW x \in posted
       PROVE  \E p, q \in Ranks, k \in Kinds :
                /\ x = ReceiveOf(p, q, k) /\ inUse[p][k] /\ Wants(p, q, k) # <<>>
                /\ (p # r \/ k # kind)
  <2>1. PICK p \in Ranks, q \in Ranks, k \in Kinds :
          x = ReceiveOf(p, q, k) /\ inUse[p][k] /\ Wants(p, q, k) # <<>>
    BY <1>2 DEF PostedInv
  <2> QED BY <1>1, <2>1
<1>20. \A q \in Ranks, k \in Kinds : (q # r \/ k # kind) => inUse'[q][k] = inUse[q][k]
  BY <1>4, <1>5
<1>21. MailInv'
  <2>1. ASSUME NEW m \in mail'
        PROVE  \E p, q \in Ranks, k \in Kinds :
                 m = MessageOf(q, p, k)' /\ inUse'[q][k] /\ Wants(p, q, k)' # <<>>
    <3>1. CASE m \in mail
      <4>1. PICK p \in Ranks, q \in Ranks, k \in Kinds :
              /\ m = MessageOf(q, p, k) /\ inUse[q][k] /\ Wants(p, q, k) # <<>>
              /\ (q # r \/ k # kind)
        BY <1>18, <3>1
      <4>2. m = MessageOf(q, p, k)' /\ inUse'[q][k] /\ Wants(p, q, k)' # <<>>
        BY <1>9, <1>16, <1>20, <4>1
      <4> QED BY <4>2
    <3>2. CASE \E p \in Ranks : m = MessageOf(r, p, kind)' /\ Wants(p, r, kind) # <<>>
      BY <1>5, <1>9, <3>2
    <3> QED BY <1>14, <2>1, <3>1, <3>2
  <2> QED BY <2>1 DEF MailInv
<1>22. PostedInv'
  <2>1. ASSUME NEW x \in posted'
        PROVE  \E p, q \in Ranks, k \in Kinds :
                 x = ReceiveOf(p, q, k)' /\ inUse'[p][k] /\ Wants(p, q, k)' # <<>>
    <3>1. CASE x \in posted
      <4>1. PICK p \in Ranks, q \in Ranks, k \in Kinds :
              /\ x = ReceiveOf(p, q, k) /\ inUse[p][k] /\ Wants(p, q, k) # <<>>
              /\ (p # r \/ k # kind)
        BY <1>19, <3>1
      <4>2. x = ReceiveOf(p, q, k)' /\ inUse'[p][k] /\ Wants(p, q, k)' # <<>>
        BY <1>9, <1>17, <1>20, <4>1
      <4> QED BY <4>2
    <3>2. CASE \E q \in Ranks : x = ReceiveOf(r, q, kind)' /\ Wants(r, q, kind) # <<>>
      BY <1>5, <1>9, <3>2
    <3> QED BY <1>15, <2>1, <3>1, <3>2
  <2> QED BY <2>1 DEF PostedInv
<1>23. ASSUME NEW q \in Ranks, NEW k \in Kinds PROVE BufferInv(q, k)'
  <2>1. CASE q # r \/ k # kind
    <3>1. Started(q, k)' = Started(q, k) /\ buffer'[q][k] = buffer[q][k]
      BY <1>4, <1>5, <1>8, <2>1
    <3> QED BY <1>1, <1>2, <3>1, BufferKept
  <2>2. CASE q = r /\ k = kind
    BY <1>1, <1>5, <2>2 DEF BufferInv, OffsetInShared, CountBefore, Before
  <2> QED BY <2>1, <2>2
<1>24. ASSUME NEW p \in Ranks, NEW q \in Ranks, NEW k \in Kinds, Wants(p, q, k)' # <<>>
       PROVE  PairInv(p, q, k)'
  <2>1. Wants(p, q, k) # <<>> /\ PairInv(p, q, k)
    BY <1>2, <1>9, <1>24
  <2>2. p # q
    BY <1>1, <2>1, WantsFacts
  \* a message between other ranks or of the other kind
  <2>3. ASSUME q # r \/ k # kind PROVE MessageOf(q, p, k) \in mail' <=> MessageOf(q, p, k) \in mail
    <3>1. \A s \in Ranks : MessageOf(q, p, k) # MessageOf(r, s, kind)'
      <4>1. \A s \in Ranks : MessageOf(r, s, kind)'.from = r /\ MessageOf(r, s, kind)'.of = kind
        BY <1>11
      <4> QED BY <2>3, <4>1, Labels
    <3> QED BY <1>14, <3>1
  <2>4. ASSUME p # r \/ k # kind PROVE ReceiveOf(p, q, k) \in posted' <=> ReceiveOf(p, q, k) \in posted
    <3>1. \A s \in Ranks : ReceiveOf(p, q, k) # ReceiveOf(r, s, kind)'
      <4>1. \A s \in Ranks : ReceiveOf(r, s, kind)'.at = r /\ ReceiveOf(r, s, kind)'.of = kind
        BY <1>12
      <4> QED BY <2>4, <4>1, Labels
    <3> QED BY <1>15, <3>1
  <2>5. CASE k # kind \/ (p # r /\ q # r)
    <3>1. /\ Started(p, k)' = Started(p, k) /\ Started(q, k)' = Started(q, k)
          /\ buffer'[p][k] = buffer[p][k]
      BY <1>4, <1>5, <1>8, <2>5
    <3> QED BY <1>1, <2>1, <2>3, <2>4, <2>5, <3>1, PairKept
  <2>6. CASE k = kind /\ q = r
    <3>1. MessageOf(q, p, k) \notin mail
      <4>1. ASSUME MessageOf(q, p, k) \in mail PROVE FALSE
        <5>1. PICK s \in Ranks, t \in Ranks, l \in Kinds :
                MessageOf(q, p, k) = MessageOf(t, s, l) /\ (t # r \/ l # kind)
          BY <1>18, <4>1
        <5> QED BY <2>6, <5>1, Labels
      <4> QED BY <4>1
    <3>2. MessageOf(q, p, k)' \in mail'
      BY <1>14, <2>1, <2>6
    <3>3. ReceiveOf(p, q, k)' = ReceiveOf(p, q, k) /\ (ReceiveOf(p, q, k) \in posted' <=> ReceiveOf(p, q, k) \in posted)
      BY <1>17, <2>2, <2>4, <2>6
    <3>4. Started(p, k)' = Started(p, k) /\ Started(q, k)' = Started(q, k) + 1
      BY <1>6, <1>8, <2>2, <2>6
    <3>5. Got(p, q, k)' <=> Got(p, q, k)
      <4>1. buffer'[p][k] = buffer[p][k]
        BY <1>4, <2>2, <2>6
      <4> QED BY <1>1, <3>4, <4>1, GotKept
    <3>6. Started(p, k) \in Nat /\ Started(q, k) \in Nat
      BY <1>10
    <3>7. \/ Started(q, k) = Started(p, k) /\ ReceiveOf(p, q, k) \notin posted /\ Got(p, q, k)
          \/ Started(q, k) = Started(p, k) - 1 /\ ReceiveOf(p, q, k) \in posted
      BY <2>1, <3>1 DEF PairInv
    <3>8. CASE Started(q, k) = Started(p, k) /\ ReceiveOf(p, q, k) \notin posted /\ Got(p, q, k)
      BY <3>2, <3>3, <3>4, <3>5, <3>8 DEF PairInv
    <3>9. CASE Started(q, k) = Started(p, k) - 1 /\ ReceiveOf(p, q, k) \in posted
      <4>1. Started(q, k)' = Started(p, k)'
        BY <3>4, <3>6, <3>9
      <4> QED BY <3>2, <3>3, <3>9, <4>1 DEF PairInv
    <3> QED BY <3>7, <3>8, <3>9
  <2>7. CASE k = kind /\ p = r
    <3>1. ReceiveOf(p, q, k) \notin posted
      <4>1. ASSUME ReceiveOf(p, q, k) \in posted PROVE FALSE
        <5>1. PICK s \in Ranks, t \in Ranks, l \in Kinds :
                ReceiveOf(p, q, k) = ReceiveOf(s, t, l) /\ (s # r \/ l # kind)
          BY <1>19, <4>1
        <5> QED BY <2>7, <5>1, Labels
      <4> QED BY <4>1
    <3>2. ReceiveOf(p, q, k)' \in posted'
      BY <1>15, <2>1, <2>7
    <3>3. MessageOf(q, p, k)' = MessageOf(q, p, k) /\ (MessageOf(q, p, k) \in mail' <=> MessageOf(q, p, k) \in mail)
      BY <1>16, <2>2, <2>3, <2>7
    <3>4. Started(q, k)' = Started(q, k) /\ Started(p, k)' = Started(p, k) + 1
      BY <1>6, <1>8, <2>2, <2>7
    <3>5. Started(p, k) \in Nat /\ Started(q, k) \in Nat
      BY <1>10
    <3>6. \/ Started(q, k) = Started(p, k) + 1 /\ MessageOf(q, p, k) \in mail
          \/ Started(q, k) = Started(p, k) /\ MessageOf(q, p, k) \notin mail
      BY <2>1, <3>1 DEF PairInv
    <3>7. CASE Started(q, k) = Started(p, k) + 1 /\ MessageOf(q, p, k) \in mail
      BY <3>2, <3>3, <3>4, <3>7 DEF PairInv
    <3>8. CASE Started(q, k) = Started(p, k) /\ MessageOf(q, p, k) \notin mail
      <4>1. Started(q, k)' = Started(p, k)' - 1
        BY <3>4, <3>5, <3>8
      <4> QED BY <3>2, <3>3, <3>8, <4>1 DEF PairInv
    <3> QED BY <3>6, <3>7, <3>8
  <2> QED BY <2>5, <2>6, <2>7
<1> QED BY <1>3, <1>6, <1>7, <1>21, <1>22, <1>23, <1>24 DEF ExchangeInv

\* Overwriting the local values leaves what was packed as it was.
LEMMA ComputeStep ==
  ASSUME ExchangeInv, NEW r \in Ranks, Compute(r)
  PROVE  ExchangeInv'
<1>1. /\ UNCHANGED meshVars /\ counter' = counter /\ inUse' = inUse /\ posted' = posted
      /\ mail' = mail /\ buffer' = buffer /\ collected' = collected
  BY DEF Compute, meshVars
<1>2. /\ ShapeInv /\ MailInv /\ PostedInv
      /\ \A q \in Ranks : CallsInv(q)
      /\ \A q \in Ranks, k \in Kinds : BufferInv(q, k)
      /\ \A p, q \in Ranks, k \in Kinds : Wants(p, q, k) # <<>> => PairInv(p, q, k)
  BY DEF ExchangeInv
<1>3. ShapeInv'
  <2>1. DOMAIN todo' = Ranks /\ round' \in [Ranks -> Nat]
    BY <1>2 DEF ShapeInv, Compute
  <2> QED BY <1>1, <1>2, <2>1 DEF ShapeInv
<1>4. ASSUME NEW q \in Ranks
      PROVE  CallsInv(q)' /\ \A k \in Kinds : Started(q, k)' = Started(q, k)
  <2>1. CASE q = r
    BY <1>2, <2>1, ComputeCalls
  <2>2. CASE q # r
    <3>1. todo'[q] = todo[q] /\ round'[q] = round[q]
      BY <1>2, <2>2 DEF ShapeInv, Compute
    <3> QED BY <1>1, <1>2, <3>1, CallsKept, RankKept
  <2> QED BY <2>1, <2>2
<1>5. /\ \A p, q \in Ranks, k \in Kinds : Wants(p, q, k)' = Wants(p, q, k)
      /\ \A p, q \in Ranks, k \in Kinds : MessageOf(q, p, k)' = MessageOf(q, p, k)
      /\ \A p, q \in Ranks, k \in Kinds : ReceiveOf(p, q, k)' = ReceiveOf(p, q, k)
  BY <1>1, <1>4, WantsKept, LabelsKept
<1>6. MailInv' /\ PostedInv'
  BY <1>1, <1>2, <1>5 DEF MailInv, PostedInv
<1>7. \A q \in Ranks, k \in Kinds : BufferInv(q, k)'
  BY <1>1, <1>2, <1>4, BufferKept
<1>8. \A p, q \in Ranks, k \in Kinds : Wants(p, q, k)' # <<>> => PairInv(p, q, k)'
  BY <1>1, <1>2, <1>4, <1>5, PairKept
<1> QED BY <1>3, <1>4, <1>6, <1>7, <1>8 DEF ExchangeInv

\* A rank finishes when nothing of the exchange is under way to or from it.
LEMMA FinishCollectStep ==
  ASSUME ExchangeInv, NEW r \in Ranks, NEW kind \in Kinds, FinishCollect(r, kind)
  PROVE  ExchangeInv'
<1>1. /\ UNCHANGED meshVars /\ round' = round /\ counter' = counter /\ posted' = posted
      /\ mail' = mail /\ buffer' = buffer /\ WaitedForAll(r, kind)
  BY DEF FinishCollect, meshVars
<1>2. /\ ShapeInv /\ MailInv /\ PostedInv
      /\ \A q \in Ranks : CallsInv(q)
      /\ \A q \in Ranks, k \in Kinds : BufferInv(q, k)
      /\ \A p, q \in Ranks, k \in Kinds : Wants(p, q, k) # <<>> => PairInv(p, q, k)
  BY DEF ExchangeInv
<1>3. ShapeInv'
  <2>1. DOMAIN todo' = Ranks /\ inUse' \in [Ranks -> [Kinds -> BOOLEAN]]
    BY <1>2 DEF ShapeInv, FinishCollect
  <2>2. round[r] - 1 \in Nat
    <3>1. Calls(r, <<"finish", kind>>) /\ (kind = "full" \/ kind = "reduced")
      BY DEF FinishCollect, Kinds
    <3>2. Left(r) \in 1 .. 2 /\ round[r] \in Nat
      <4>1. CASE kind = "full"
        BY <1>2, <3>1, <4>1, LeftFacts DEF ShapeInv
      <4>2. CASE kind = "reduced"
        BY <1>2, <3>1, <4>2, LeftFacts DEF ShapeInv
      <4> QED BY <3>1, <4>1, <4>2
    <3>3. Exchange(r) = round[r] - 1 /\ Exchange(r) > 0
      BY <1>2, <3>2 DEF Exchange, CallsInv
    <3> QED BY <3>2, <3>3
  <2>3. collected' \in [Ranks -> [Kinds -> Nat]]
    BY <1>2, <2>2 DEF ShapeInv, FinishCollect
  <2> QED BY <1>1, <1>2, <2>1, <2>3 DEF ShapeInv
<1>4. ASSUME NEW q \in Ranks
      PROVE  CallsInv(q)' /\ \A k \in Kinds : Started(q, k)' = Started(q, k)
  <2>1. CASE q = r
    BY <1>2, <2>1, FinishCalls
  <2>2. CASE q # r
    <3>1. todo'[q] = todo[q] /\ inUse'[q] = inUse[q] /\ collected'[q] = collected[q]
      BY <1>2, <2>2 DEF ShapeInv, FinishCollect
    <3> QED BY <1>1, <1>2, <3>1, CallsKept, RankKept
  <2> QED BY <2>1, <2>2
<1>5. /\ \A p, q \in Ranks, k \in Kinds : Wants(p, q, k)' = Wants(p, q, k)
      /\ \A p, q \in Ranks, k \in Kinds : MessageOf(q, p, k)' = MessageOf(q, p, k)
      /\ \A p, q \in Ranks, k \in Kinds : ReceiveOf(p, q, k)' = ReceiveOf(p, q, k)
  BY <1>1, <1>4, WantsKept, LabelsKept
<1>6. \A q \in Ranks, k \in Kinds : q # r \/ k # kind => inUse'[q][k] = inUse[q][k]
  BY <1>2 DEF ShapeInv, FinishCollect
<1>7. MailInv'
  <2>1. ASSUME NEW m \in mail
        PROVE  \E p, q \in Ranks, k \in Kinds :
                 m = MessageOf(q, p, k)' /\ inUse'[q][k] /\ Wants(p, q, k)' # <<>>
    <3>1. PICK p \in Ranks, q \in Ranks, k \in Kinds :
            m = MessageOf(q, p, k) /\ inUse[q][k] /\ Wants(p, q, k) # <<>>
      BY <1>2 DEF MailInv
    <3>2. q # r \/ k # kind
      BY <1>1, <3>1, Labels DEF WaitedForAll
    <3>3. m = MessageOf(q, p, k)' /\ inUse'[q][k] /\ Wants(p, q, k)' # <<>>
      BY <1>5, <1>6, <3>1, <3>2
    <3> QED BY <3>3
  <2> QED BY <1>1, <2>1 DEF MailInv
<1>8. PostedInv'
  <2>1. ASSUME NEW x \in posted
        PROVE  \E p, q \in Ranks, k \in Kinds :
                 x = ReceiveOf(p, q, k)' /\ inUse'[p][k] /\ Wants(p, q, k)' # <<>>
    <3>1. PICK p \in Ranks, q \in Ranks, k \in Kinds :
            x = ReceiveOf(p, q, k) /\ inUse[p][k] /\ Wants(p, q, k) # <<>>
      BY <1>2 DEF PostedInv
    <3>2. p # r \/ k # kind
      BY <1>1, <3>1, Labels DEF WaitedForAll
    <3>3. x = ReceiveOf(p, q, k)' /\ inUse'[p][k] /\ Wants(p, q, k)' # <<>>
      BY <1>5, <1>6, <3>1, <3>2
    <3> QED BY <3>3
  <2> QED BY <1>1, <2>1 DEF PostedInv
<1>9. \A q \in Ranks, k \in Kinds : BufferInv(q, k)'
  BY <1>1, <1>2, <1>4, BufferKept
<1>10. \A p, q \in Ranks, k \in Kinds : Wants(p, q, k)' # <<>> => PairInv(p, q, k)'
  BY <1>1, <1>2, <1>4, <1>5, PairKept
<1> QED BY <1>3, <1>4, <1>7, <1>8, <1>9, <1>10 DEF ExchangeInv

\* Tags tell the collects apart that are under way at the same time.
LEMMA SameKind ==
  ASSUME ExchangeInv, NEW p \in Ranks, NEW q \in Ranks, NEW k \in Kinds, NEW l \in Kinds,
         MessageOf(q, p, k) \in mail, inUse[q][k], Wants(p, q, k) # <<>>,
         ReceiveOf(p, q, l) \in posted, inUse[p][l], Wants(p, q, l) # <<>>,
         TagOf(k, Started(q, k)) + q = TagOf(l, Started(p, l)) + q
  PROVE  k = l
<1>1. /\ ShapeInv /\ CallsInv(p) /\ CallsInv(q)
      /\ PairInv(p, q, k) /\ PairInv(p, q, l)
  BY DEF ExchangeInv
<1>2. PICK sf \in Nat, sr \in Nat, af \in Nat, ar \in Nat :
        /\ sf = Started(q, "full") /\ sr = Started(q, "reduced")
        /\ af = Started(p, "full") /\ ar = Started(p, "reduced")
  BY <1>1, StartedFacts
<1>3. /\ sf = sr \/ sf = sr + 1
      /\ af = ar \/ af = ar + 1
      /\ inUse[q]["reduced"] => sf = sr /\ sr > 0
      /\ inUse[p]["reduced"] => af = ar /\ ar > 0
      /\ inUse[q]["full"] => sf > 0
      /\ inUse[p]["full"] => af > 0
  <2>1. ASSUME NEW r \in Ranks, CallsInv(r), NEW f \in Nat, NEW d \in Nat,
               f = Started(r, "full"), d = Started(r, "reduced")
        PROVE  /\ f = d \/ f = d + 1
               /\ inUse[r]["reduced"] => f = d /\ d > 0
               /\ inUse[r]["full"] => f > 0
    <3>1. /\ Left(r) \in 0 .. 5 /\ round[r] \in Nat
          /\ Left(r) = 5 => f = round[r] - 1 /\ d = round[r] - 1
          /\ Left(r) = 4 => f = round[r] /\ d = round[r] - 1
          /\ Left(r) = 3 => f = round[r] /\ d = round[r]
          /\ Left(r) < 3 => f = round[r] - 1 /\ d = round[r] - 1
          /\ inUse[r]["reduced"] <=> Left(r) \in 1 .. 3
      BY <1>1, <2>1, StartedFacts
    <3>2. /\ inUse[r]["full"] => f > 0
          /\ inUse[r]["reduced"] => d > 0
      BY <1>1, <2>1, StartedFacts DEF Kinds
    <3> QED BY <3>1, <3>2
  <2> QED BY <1>1, <1>2, <2>1
<1>4. ASSUME NEW n \in Nat, NEW m \in Nat, n + 1 = m \/ m + 1 = n
      PROVE  TagAt(n) # TagAt(m) /\ TagAt(n) \in Nat /\ TagAt(m) \in Nat
  BY <1>4, TagsDiffer
<1>5. q \in Int
  BY SizeAssumption DEF Ranks
<1>6. ASSUME k = "full", l = "reduced" PROVE FALSE
  <2>1. sf = af + 1 \/ sf = af
    BY <1>1, <1>2, <1>6 DEF PairInv
  <2>2. af = ar /\ ar > 0 /\ sf > 0
    BY <1>3, <1>6
  <2>3. PICK n \in Nat, m \in Nat : n = 2 * sf - 2 /\ m = 2 * ar - 1
    BY <2>2
  <2>4. n + 1 = m \/ m + 1 = n
    BY <2>1, <2>2, <2>3
  <2>5. TagAt(n) + q = TagAt(m) + q
    BY <1>2, <1>6, <2>3 DEF TagOf
  <2> QED BY <1>4, <1>5, <2>4, <2>5
<1>7. ASSUME k = "reduced", l = "full" PROVE FALSE
  <2>1. sf = af \/ sf = af - 1
    BY <1>1, <1>2, <1>7 DEF PairInv
  <2>2. sf = sr /\ sr > 0 /\ af > 0
    BY <1>3, <1>7
  <2>3. PICK n \in Nat, m \in Nat : n = 2 * sr - 1 /\ m = 2 * af - 2
    BY <2>2
  <2>4. n + 1 = m \/ m + 1 = n
    BY <2>1, <2>2, <2>3
  <2>5. TagAt(n) + q = TagAt(m) + q
    BY <1>2, <1>7, <2>3 DEF TagOf
  <2> QED BY <1>4, <1>5, <2>4, <2>5
<1> QED BY <1>6, <1>7 DEF Kinds

\* A message fills the places of its receive, and no others.
LEMMA DeliverStep ==
  ASSUME ConnectorInv, connector # <<>>, ExchangeInv, Deliver
  PROVE  ExchangeInv'
<1>1. /\ UNCHANGED meshVars /\ todo' = todo /\ round' = round /\ counter' = counter
      /\ inUse' = inUse /\ collected' = collected
  BY DEF Deliver, meshVars
<1>2. /\ ShapeInv /\ MailInv /\ PostedInv
      /\ \A q \in Ranks : CallsInv(q)
      /\ \A q \in Ranks, k \in Kinds : BufferInv(q, k)
      /\ \A p, q \in Ranks, k \in Kinds : Wants(p, q, k) # <<>> => PairInv(p, q, k)
  BY DEF ExchangeInv
<1>3. PICK m \in mail, x \in posted :
        /\ m.to = x.at /\ m.from = x.from /\ m.tag = x.tag
        /\ posted' = posted \ {x} /\ mail' = mail \ {m}
        /\ LET start == OffsetInShared(connector[x.of][x.at].recv, m.from)
           IN buffer' = [buffer EXCEPT ![x.at][x.of] =
                           [i \in DOMAIN @ |-> IF i - start \in DOMAIN m.data
                                               THEN m.data[i - start] ELSE @[i]]]
  BY DEF Deliver
<1>4. PICK p \in Ranks, q \in Ranks, kind \in Kinds :
        /\ m = MessageOf(q, p, kind) /\ inUse[q][kind] /\ Wants(p, q, kind) # <<>>
        /\ x = ReceiveOf(p, q, kind) /\ inUse[p][kind]
  <2>1. PICK p \in Ranks, q \in Ranks, k \in Kinds :
          m = MessageOf(q, p, k) /\ inUse[q][k] /\ Wants(p, q, k) # <<>>
    BY <1>2 DEF MailInv
  <2>2. PICK s \in Ranks, t \in Ranks, l \in Kinds :
          x = ReceiveOf(s, t, l) /\ inUse[s][l] /\ Wants(s, t, l) # <<>>
    BY <1>2 DEF PostedInv
  <2>3. p = s /\ q = t /\ TagOf(k, Started(q, k)) + q = TagOf(l, Started(s, l)) + t
    <3>1. m.from = q /\ m.to = p /\ m.tag = TagOf(k, Started(q, k)) + q
      BY <2>1, Labels
    <3>2. x.at = s /\ x.from = t /\ x.tag = TagOf(l, Started(s, l)) + t
      BY <2>2, Labels
    <3>3. m.to = x.at /\ m.from = x.from /\ m.tag = x.tag
      BY <1>3
    <3> QED BY <3>1, <3>2, <3>3
  <2>4. k = l
    BY <2>1, <2>2, <2>3, SameKind
  <2> QED BY <2>1, <2>2, <2>3, <2>4
<1>5. PICK recv : recv = connector[kind][p].recv
  OBVIOUS
<1>6. PICK n \in Nat : n = Started(p, kind) /\ n > 0
  BY <1>2, <1>4, StartedFacts
<1>7. Started(q, kind) = n
  <2>1. PairInv(p, q, kind) /\ Started(q, kind) \in Nat
    BY <1>2, <1>4, StartedFacts
  <2> QED BY <1>3, <1>4, <1>6, <2>1 DEF PairInv
<1>8. m.data = [j \in DOMAIN Wants(p, q, kind) |-> [dof |-> Wants(p, q, kind)[j], round |-> n]]
  BY <1>4, <1>7 DEF MessageOf
<1>9. buffer' = [buffer EXCEPT ![p][kind] =
                   [i \in DOMAIN @ |-> IF i - OffsetInShared(recv, q) \in DOMAIN m.data
                                       THEN m.data[i - OffsetInShared(recv, q)] ELSE @[i]]]
  <2>1. x.at = p /\ x.of = kind /\ m.from = q
    BY <1>4, Labels
  <2> QED BY <1>3, <1>5, <2>1
<1>10. /\ DOMAIN buffer' = Ranks /\ \A r \in Ranks : DOMAIN buffer'[r] = Kinds
       /\ \A r \in Ranks, k \in Kinds : r # p \/ k # kind => buffer'[r][k] = buffer[r][k]
       /\ buffer'[p][kind] = [i \in DOMAIN buffer[p][kind] |->
                                IF i - OffsetInShared(recv, q) \in DOMAIN m.data
                                THEN m.data[i - OffsetInShared(recv, q)] ELSE buffer[p][kind][i]]
  BY <1>2, <1>9 DEF ShapeInv
<1>11. DOMAIN buffer[p][kind] = 1 .. OffsetInShared(recv, Size)
  BY <1>2, <1>5, <1>6 DEF BufferInv
<1>12. ASSUME NEW r \in Ranks
       PROVE  CallsInv(r)' /\ \A k : Started(r, k)' = Started(r, k)
  BY <1>1, <1>2, CallsKept, RankKept
<1>13. /\ \A r, s \in Ranks, k \in Kinds : Wants(r, s, k)' = Wants(r, s, k)
       /\ \A r, s \in Ranks, k \in Kinds : MessageOf(s, r, k)' = MessageOf(s, r, k)
       /\ \A r, s \in Ranks, k \in Kinds : ReceiveOf(r, s, k)' = ReceiveOf(r, s, k)
  BY <1>1, <1>12, WantsKept, LabelsKept
<1>14. ShapeInv'
  BY <1>1, <1>2, <1>10 DEF ShapeInv
<1>15. MailInv' /\ PostedInv'
  BY <1>1, <1>2, <1>3, <1>13 DEF MailInv, PostedInv
<1>16. ASSUME NEW r \in Ranks, NEW k \in Kinds PROVE BufferInv(r, k)'
  <2>1. DOMAIN buffer'[r][k] = DOMAIN buffer[r][k]
    BY <1>10
  <2> QED BY <1>1, <1>2, <1>12, <2>1, BufferKept
<1>17. \A s \in Ranks : \A i \in DOMAIN Wants(p, s, kind) :
         /\ i \in Nat \ {0} /\ OffsetInShared(recv, s) \in Nat
         /\ OffsetInShared(recv, s) + i \in DOMAIN buffer[p][kind]
         /\ s # q => (OffsetInShared(recv, s) + i) - OffsetInShared(recv, q) \notin DOMAIN m.data
  <2>1. DOMAIN m.data = DOMAIN Wants(p, q, kind)
    BY <1>8
  <2>2. \A s \in Ranks : s \in 0 .. Size
    BY SizeAssumption DEF Ranks
  <2> QED BY <1>5, <1>11, <2>1, <2>2, OffsetFacts
\* the values that came
<1>18. Got(p, q, kind)'
  <2>1. ASSUME NEW i \in DOMAIN Wants(p, q, kind)
        PROVE  buffer'[p][kind][OffsetInShared(recv, q) + i] = [dof |-> Wants(p, q, kind)[i], round |-> n]
    <3>1. PICK a \in Nat : a = OffsetInShared(recv, q) /\ (a + i) - a = i
      BY <1>17
    <3>2. a + i \in DOMAIN buffer[p][kind] /\ (a + i) - a \in DOMAIN m.data
      BY <1>8, <1>17, <3>1
    <3>3. buffer'[p][kind][a + i] = m.data[i]
      BY <1>10, <3>1, <3>2
    <3> QED BY <1>8, <3>1, <3>3
  <2>2. Started(p, kind)' = n
    BY <1>6, <1>12
  <2>3. OffsetInShared(connector[kind][p].recv, q)' = OffsetInShared(recv, q)
    BY <1>1, <1>5 DEF OffsetInShared, CountBefore, Before, meshVars
  <2> QED BY <1>13, <2>1, <2>2, <2>3 DEF Got
\* and those of another rank
<1>19. ASSUME NEW s \in Ranks, s # q PROVE Got(p, s, kind)' <=> Got(p, s, kind)
  <2>1. ASSUME NEW i \in DOMAIN Wants(p, s, kind)
        PROVE  buffer'[p][kind][OffsetInShared(recv, s) + i] = buffer[p][kind][OffsetInShared(recv, s) + i]
    BY <1>10, <1>17, <1>19
  <2>2. Started(p, kind)' = Started(p, kind)
    BY <1>12
  <2>3. OffsetInShared(connector[kind][p].recv, s)' = OffsetInShared(recv, s)
    BY <1>1, <1>5 DEF OffsetInShared, CountBefore, Before, meshVars
  <2> QED BY <1>5, <1>13, <2>1, <2>2, <2>3 DEF Got
<1>20. ASSUME NEW r \in Ranks, NEW s \in Ranks, NEW k \in Kinds, Wants(r, s, k)' # <<>>
       PROVE  PairInv(r, s, k)'
  <2>1. Wants(r, s, k) # <<>> /\ PairInv(r, s, k)
    BY <1>2, <1>13, <1>20
  <2>2. CASE r = p /\ s = q /\ k = kind
    <3>1. MessageOf(s, r, k) \notin mail' /\ ReceiveOf(r, s, k) \notin posted'
      BY <1>3, <1>4, <2>2
    <3>2. Started(s, k)' = Started(r, k)'
      BY <1>6, <1>7, <1>12, <2>2
    <3> QED BY <1>13, <1>18, <2>2, <3>1, <3>2 DEF PairInv
  <2>3. CASE ~ (r = p /\ s = q /\ k = kind)
    <3>1. MessageOf(s, r, k) # m /\ ReceiveOf(r, s, k) # x
      BY <1>4, <2>3, Labels
    <3>2. /\ MessageOf(s, r, k) \in mail' <=> MessageOf(s, r, k) \in mail
          /\ ReceiveOf(r, s, k) \in posted' <=> ReceiveOf(r, s, k) \in posted
      BY <1>3, <3>1
    <3>3. Started(r, k)' = Started(r, k) /\ Started(s, k)' = Started(s, k)
      BY <1>12
    <3>4. Got(r, s, k)' <=> Got(r, s, k)
      <4>1. CASE r = p /\ k = kind
        BY <1>19, <2>3, <4>1
      <4>2. CASE ~ (r = p /\ k = kind)
        <5>1. buffer'[r][k] = buffer[r][k]
          BY <1>10, <4>2
        <5> QED BY <1>1, <3>3, <5>1, GotKept
      <4> QED BY <4>1, <4>2
    <3> QED BY <1>13, <2>1, <3>2, <3>3, <3>4 DEF PairInv
  <2> QED BY <2>2, <2>3
<1> QED BY <1>12, <1>14, <1>15, <1>16, <1>20 DEF ExchangeInv

-----------------------------------------------------------------------------
(* The theorems                                                            *)

\* Every step of the mesh, of a coupler, of the program between its calls and
\* of the delivery keeps the inductive invariant.
LEMMA StepIInv ==
  ASSUME IInv, [Next]_allVars
  PROVE  IInv'
<1>1. CASE MeshNext /\ UNCHANGED couplerVars
  BY <1>1, MeshKeepsIInv
<1>2. CASE UNCHANGED allVars
  <2>1. UNCHANGED meshVars /\ UNCHANGED couplerVars
    BY <1>2 DEF allVars
  <2>2. MeshInv' /\ ConnectorInv'
    BY <2>1, MeshAtRest DEF IInv
  <2>3. connector' = connector
    BY <2>1 DEF meshVars
  <2>4. CASE connector = <<>>
    BY <2>1, <2>2, <2>3, <2>4 DEF IInv, CouplerInit, couplerVars
  <2>5. CASE connector # <<>>
    <3>1. ExchangeInv
      BY <2>5 DEF IInv
    <3>2. ExchangeInv'
      <4>1. \A r \in Ranks : CallsInv(r)' /\ \A k : Started(r, k)' = Started(r, k)
        BY <2>1, <3>1, CallsKept, RankKept DEF couplerVars, ExchangeInv
      <4>2. /\ \A p, q \in Ranks, k \in Kinds : Wants(p, q, k)' = Wants(p, q, k)
            /\ \A p, q \in Ranks, k \in Kinds : MessageOf(q, p, k)' = MessageOf(q, p, k)
            /\ \A p, q \in Ranks, k \in Kinds : ReceiveOf(p, q, k)' = ReceiveOf(p, q, k)
        BY <2>1, <4>1, WantsKept, LabelsKept
      <4>3. ShapeInv' /\ MailInv' /\ PostedInv'
        BY <2>1, <3>1, <4>2 DEF couplerVars, ExchangeInv, ShapeInv, MailInv, PostedInv
      <4>4. \A q \in Ranks, k \in Kinds : BufferInv(q, k)'
        BY <2>1, <3>1, <4>1, BufferKept DEF couplerVars, ExchangeInv
      <4>5. \A p, q \in Ranks, k \in Kinds : Wants(p, q, k)' # <<>> => PairInv(p, q, k)'
        BY <2>1, <3>1, <4>1, <4>2, PairKept DEF couplerVars, ExchangeInv
      <4> QED BY <4>1, <4>3, <4>4, <4>5 DEF ExchangeInv
    <3> QED BY <2>2, <2>3, <2>5, <3>2 DEF IInv
  <2> QED BY <2>4, <2>5
<1>3. ASSUME \/ \E r \in Ranks, kind \in Kinds : StartCollect(r, kind)
             \/ \E r \in Ranks : Compute(r)
             \/ Deliver
             \/ \E r \in Ranks, kind \in Kinds : FinishCollect(r, kind)
      PROVE  IInv'
  <2>1. UNCHANGED meshVars
    BY <1>3 DEF StartCollect, Compute, Deliver, FinishCollect
  <2>2. MeshInv' /\ ConnectorInv'
    BY <2>1, MeshAtRest DEF IInv
  <2>3. connector # <<>>
    <3> SUFFICES ASSUME connector = <<>> PROVE FALSE
      OBVIOUS
    <3>1. CouplerInit
      BY DEF IInv
    <3>2. CASE \E r \in Ranks, kind \in Kinds : StartCollect(r, kind)
      BY <3>2 DEF StartCollect
    <3>3. CASE \E r \in Ranks : Compute(r)
      <4>1. PICK r \in Ranks : Calls(r, <<"compute">>)
        BY <3>3 DEF Compute
      <4>2. CallsInv(r) /\ Left(r) = 5
        <5>1. ExchangeInv
          BY <3>1, ExchangeStart
        <5>2. todo[r] = Round
          BY <3>1 DEF CouplerInit
        <5> QED BY <5>1, <5>2, RoundFacts DEF ExchangeInv, Left
      <4> QED BY <4>1, <4>2, LeftFacts
    <3>4. CASE Deliver
      BY <3>1, <3>4 DEF Deliver, CouplerInit
    <3>5. CASE \E r \in Ranks, kind \in Kinds : FinishCollect(r, kind)
      BY <3>1, <3>5 DEF FinishCollect, CouplerInit
    <3> QED BY <1>3, <3>2, <3>3, <3>4, <3>5
  <2>4. ConnectorInv /\ ExchangeInv
    BY <2>3 DEF IInv
  <2>5. ExchangeInv'
    BY <1>3, <2>3, <2>4, StartCollectStep, ComputeStep, DeliverStep, FinishCollectStep
  <2>6. connector' # <<>>
    BY <2>1, <2>3 DEF meshVars
  <2> QED BY <2>2, <2>5, <2>6 DEF IInv
<1> QED BY <1>1, <1>2, <1>3 DEF Next

\* For any number of ranks, any mesh and any number of exchanges: what the
\* mappings, the tags and the buffers of Coupler.cpp keep true at every step.
THEOREM Invariance == Spec => []IInv
<1>1. Init => IInv
  BY InitIInv
<1>2. IInv /\ [Next]_allVars => IInv'
  BY StepIInv
<1> QED BY <1>1, <1>2, PTL DEF Spec

\* For any number of ranks and any mesh: when prepare comes to the mappings the
\* labels have no gaps, name the same thing on every rank that has it, and the
\* blocks of the reduced degrees of freedom are those of the full ones, as
\* createDOFMappingAndCoupling will assume (NodeFile.cpp:524-769, 1003-1055).
THEOREM LabelsAgreeAlways == Spec => []LabelsAgree
<1>1. IInv => LabelsAgree
  BY MeshAgrees DEF IInv
<1> QED BY <1>1, Invariance, PTL

\* When finishCollect returns, every local node of a degree of freedom another
\* rank owns finds the value that rank had when it started the same collect
\* (Coupler.cpp:66-128).
THEOREM FindsOwnersValue == Spec => []SeesOwnersValue
<1>1. ASSUME IInv PROVE SeesOwnersValue
  <2> SUFFICES ASSUME NEW r \in Ranks, NEW kind \in Kinds,
                      collected[r][kind] > 0, ~ inUse[r][kind],
                      NEW id \in DOMAIN nodes[r], NEW label, label = LabelOf(kind, r)[id],
                      label # Unset, label \notin Own(kind, r)
               PROVE  buffer[r][kind][(connector[kind][r].target[id] - connector[kind][r].own) + 1]
                        = [dof |-> label, round |-> collected[r][kind]]
    BY DEF SeesOwnersValue
  <2>1. connector # <<>>
    <3> SUFFICES ASSUME connector = <<>> PROVE FALSE
      OBVIOUS
    <3>1. CouplerInit
      BY <1>1 DEF IInv
    <3> QED BY <3>1 DEF CouplerInit
  <2>2. NodesTyped /\ ConnectorInv /\ ExchangeInv
    BY <1>1, <2>1 DEF IInv, MeshInv
  <2>3. PICK q \in Ranks : \E i \in DOMAIN Wants(r, q, kind) :
           /\ Wants(r, q, kind)[i] = label
           /\ (connector[kind][r].target[id] - connector[kind][r].own) + 1
                = OffsetInShared(connector[kind][r].recv, q) + i
    BY <2>1, <2>2, TargetFacts
  <2>4. PICK i \in DOMAIN Wants(r, q, kind) :
           /\ Wants(r, q, kind)[i] = label
           /\ (connector[kind][r].target[id] - connector[kind][r].own) + 1
                = OffsetInShared(connector[kind][r].recv, q) + i
    BY <2>3
  <2>5. collected[r][kind] = Started(r, kind)
    BY <2>2 DEF ExchangeInv, CallsInv
  <2>6. Wants(r, q, kind) # <<>>
    <3>1. PICK n \in Nat : DOMAIN Wants(r, q, kind) = 1 .. n /\ (Wants(r, q, kind) = <<>> <=> n = 0)
      BY <2>1, <2>2, WantsFacts
    <3>2. i \in 1 .. n
      BY <3>1
    <3> QED BY <3>1, <3>2
  <2>7. ReceiveOf(r, q, kind) \notin posted
    <3>1. ASSUME ReceiveOf(r, q, kind) \in posted PROVE FALSE
      <4>1. PICK s \in Ranks, t \in Ranks, k \in Kinds :
              ReceiveOf(r, q, kind) = ReceiveOf(s, t, k) /\ inUse[s][k]
        BY <2>2, <3>1 DEF ExchangeInv, PostedInv
      <4> QED BY <4>1, Labels
    <3> QED BY <3>1
  <2>8. Got(r, q, kind)
    BY <2>2, <2>6, <2>7 DEF ExchangeInv, PairInv
  <2> QED BY <2>4, <2>5, <2>8 DEF Got
<1> QED BY <1>1, Invariance, PTL

-----------------------------------------------------------------------------
(* No rank refuses its mappings                                            *)

\* The boundaries of the reduced degrees of freedom
LEMMA ReducedCounts ==
  ASSUME NodesTyped, ElementsTyped, Known(7, nodes)
  PROVE  /\ ReducedDist \in [0 .. Size -> Int] /\ Ordered(ReducedDist) /\ ReducedDist[0] = 0
         /\ \A p \in 0 .. Size : ReducedDist[p] = Place(ReducedDofs(nodes), dofDist[p])
<1>1. PICK S : S = ReducedDofs(nodes)
  OBVIOUS
<1>2. S \in SUBSET Int /\ IsFiniteSet(S) /\ \A r \in Ranks : ReducedNodes(r) \subseteq DOMAIN nodes[r]
  BY <1>1, ReducedFinite
<1>3. DofsNumbered(nodes)
  BY DEF Known
<1>4. dofDist \in [0 .. Size -> Int] /\ Ordered(dofDist) /\ dofDist[0] = 0
  BY <1>3 DEF DofsNumbered, DistTyped
<1>5. \A m \in S : dofDist[0] <= m
  <2>1. ASSUME NEW m \in S PROVE 0 <= m
    <3>1. PICK r \in Ranks : \E id \in ReducedNodes(r) : m = nodes[r][id].dof
      BY <1>1 DEF ReducedDofs
    <3>2. PICK id \in DOMAIN nodes[r] : m = nodes[r][id].dof
      BY <1>2, <3>1
    <3>3. m \in 0 .. dofDist[Size] - 1
      BY <1>3, <3>2 DEF DofsNumbered
    <3> QED BY <1>2, <3>3
  <2> QED BY <1>4, <2>1
<1>6. PICK own : own = [p \in Ranks |-> ReducedOwn(p)]
  OBVIOUS
<1>7. own \in [Ranks -> SUBSET Int] /\ \A p \in Ranks : own[p] = ReducedOwn(p)
  <2>1. ASSUME NEW p \in Ranks PROVE ReducedOwn(p) \subseteq Int
    BY DEF ReducedOwn
  <2> QED BY <1>6, <2>1
<1>8. PICK shift \in [Ranks -> Int] : \A p \in Ranks : shift[p] = 0
  <2>1. [p \in Ranks |-> 0] \in [Ranks -> Int]
    OBVIOUS
  <2> QED BY <2>1
<1>9. \A p \in Ranks : \A k \in Int :
        k \in own[p] <=> shift[p] + k \in S /\ InBlock(shift[p] + k, dofDist, p)
  <2>1. ASSUME NEW p \in Ranks, NEW k \in Int
        PROVE  k \in own[p] <=> shift[p] + k \in S /\ InBlock(shift[p] + k, dofDist, p)
    <3>1. shift[p] + k = k
      BY <1>8
    <3> QED BY <1>1, <1>7, <3>1, OwnReduced
  <2> QED BY <2>1
<1>10. /\ \A p \in Ranks : IsFiniteSet(own[p])
       /\ \A p \in 0 .. Size : CountBefore(p, own) = Place(S, dofDist[p])
  BY <1>2, <1>4, <1>5, <1>7, <1>8, <1>9, CountPlaces
<1>f. \A p \in Ranks : IsFiniteSet(own[p])
  BY <1>10
<1>c. ReducedDist = [p \in 0 .. Size |-> CountBefore(p, own)]
  BY <1>6 DEF ReducedDist
<1>11. PICK bound : bound = [p \in 0 .. Size |-> CountBefore(p, own)] /\ bound = ReducedDist
  BY <1>c
<1>12. bound \in [0 .. Size -> Int]
  <2>1. \A p \in 0 .. Size : CountBefore(p, own) \in Nat
    BY <1>7, <1>f, CountSteps
  <2> QED BY <1>11, <2>1
<1>13. Ordered(bound) /\ bound[0] = 0
  <2>1. \A p \in 0 .. Size : bound[p] = CountBefore(p, own)
    BY <1>11
  <2> QED BY <1>7, <1>f, <1>12, <2>1, GroupLabels
<1> QED BY <1>1, <1>10, <1>11, <1>12, <1>13

\* A rank's first node ends an element.
LEMMA FirstEnds ==
  ASSUME NodesTyped, ElementsTyped, Known(7, nodes), LowEnds, NEW r \in Ranks, DOMAIN nodes[r] # {}
  PROVE  /\ FirstNode(r) \in DOMAIN nodes[r] /\ FirstNode(r) \in ReducedNodes(r)
         /\ \A id \in DOMAIN nodes[r] : FirstNode(r) <= id
<1>1. PICK S : S = DOMAIN nodes[r]
  OBVIOUS
<1>2. S \subseteq Int /\ IsFiniteSet(S) /\ S # {} /\ S = UsedNodes(r)
  BY <1>1 DEF NodesTyped, Known
<1>3. PICK first \in S : first = FirstNode(r) /\ \A id \in S : first <= id
  <2>1. Min(S) \in S /\ \A id \in S : Min(S) <= id
    BY <1>2, MinMax
  <2> QED BY <1>1, <2>1 DEF FirstNode
<1>4. PICK e \in elements[r] : first \in e.nodes
  BY <1>2 DEF UsedNodes
<1>5. PICK id \in e.linear : id <= first
  BY <1>4 DEF LowEnds, LowEnd
<1>6. id \in S
  <2>1. id \in e.nodes
    BY DEF ElementsTyped
  <2> QED BY <1>2, <2>1 DEF UsedNodes
<1>7. id = first
  <2>1. id \in Int /\ first \in Int /\ first <= id
    BY <1>2, <1>3, <1>6
  <2> QED BY <1>5, <2>1
<1> QED BY <1>1, <1>3, <1>7 DEF ReducedNodes

\* The full labels
LEMMA CoveredFull ==
  ASSUME NodesTyped, ElementsTyped, Known(7, nodes), LowEnds
  PROVE  Covered("full")
<1>1. /\ SameDofs(nodes) /\ Gathered(nodes) /\ (\A r \in Ranks : DOMAIN nodes[r] = UsedNodes(r))
      /\ DofsNumbered(nodes)
  BY DEF Known
<1>2. DistOf("full") = dofDist /\ \A r : LabelOf("full", r) = [id \in DOMAIN nodes[r] |-> nodes[r][id].dof]
  BY DEF DistOf, LabelOf
<1>3. dofDist \in [0 .. Size -> Int] /\ Ordered(dofDist) /\ dofDist[0] = 0
  BY <1>1 DEF DofsNumbered, DistTyped
<1>4. \A r \in Ranks : \A id \in DOMAIN nodes[r] :
        LabelOf("full", r)[id] = nodes[r][id].dof /\ nodes[r][id].dof \in 0 .. dofDist[Size] - 1
  BY <1>1, <1>2 DEF DofsNumbered
<1>5. dofDist[Size] \in Int /\ \A x \in 0 .. dofDist[Size] - 1 : x # Unset
  <2>1. Size \in 0 .. Size
    BY RanksFacts
  <2> QED BY <1>3, <2>1 DEF Unset
<1>6. ASSUME NEW b \in Ranks, NEW d \in Own("full", b)
      PROVE  \E id \in DOMAIN nodes[b] : LabelOf("full", b)[id] = d
  <2>1. b \in 0 .. Size /\ b + 1 \in 0 .. Size /\ 0 \in 0 .. Size /\ Size \in 0 .. Size
          /\ 0 <= b /\ b + 1 <= Size
    BY RanksFacts
  <2>2. PICK x \in Int, y \in Int : x = dofDist[b] /\ y = dofDist[b + 1]
    BY <1>3, <2>1
  <2>3. 0 <= x /\ y <= dofDist[Size]
    BY <1>3, <2>1, <2>2 DEF Ordered
  <2>4. d \in x .. y - 1
    BY <1>2, <2>2 DEF Own
  <2>5. d \in 0 .. dofDist[Size] - 1 /\ d \in Int /\ InBlock(d, dofDist, b)
    BY <1>5, <2>2, <2>3, <2>4 DEF InBlock
  <2>6. PICK r \in Ranks : \E id \in DOMAIN nodes[r] : nodes[r][id].dof = d
    BY <1>1, <2>5 DEF DofsNumbered
  <2>7. PICK id \in DOMAIN nodes[r] : nodes[r][id].dof = d
    BY <2>6
  <2>8. PICK c \in Ranks : InBlock(d, dofDist, c) /\ id \in DOMAIN nodes[c] /\ nodes[c][id].dof = d
    BY <1>1, <2>5, <2>7, OwnerHas
  <2>9. c = b
    BY <1>3, <2>5, <2>8, BlockUnique
  <2> QED BY <1>4, <2>8, <2>9
<1>7. \A r \in Ranks : DOMAIN nodes[r] # {} => FirstNode(r) \in DOMAIN nodes[r] /\ FirstNode(r) \in ReducedNodes(r)
  BY FirstEnds
<1> QED BY <1>2, <1>3, <1>4, <1>5, <1>6, <1>7 DEF Covered

\* The reduced labels
LEMMA CoveredReduced ==
  ASSUME NodesTyped, ElementsTyped, Known(7, nodes), LowEnds
  PROVE  Covered("reduced")
<1>1. PICK S : S = ReducedDofs(nodes)
  OBVIOUS
<1>2. S \in SUBSET Int /\ IsFiniteSet(S) /\ \A r \in Ranks : ReducedNodes(r) \subseteq DOMAIN nodes[r]
  BY <1>1, ReducedFinite
<1>3. DistOf("reduced") = ReducedDist /\ \A r : LabelOf("reduced", r) = [id \in DOMAIN nodes[r] |-> nodes[r][id].rdof]
  BY DEF DistOf, LabelOf
<1>4. PICK dist \in [0 .. Size -> Int] :
        /\ dist = ReducedDist /\ Ordered(dist) /\ dist[0] = 0
        /\ \A p \in 0 .. Size : dist[p] = Place(S, dofDist[p])
  BY <1>1, ReducedCounts
<1>5. DofsNumbered(nodes) /\ dofDist \in [0 .. Size -> Int] /\ dofDist[0] = 0
  BY DEF Known, DofsNumbered, DistTyped
<1>6. \A b \in Ranks : b \in 0 .. Size /\ b + 1 \in 0 .. Size /\ 0 \in 0 .. Size /\ Size \in 0 .. Size
                         /\ 0 <= b /\ b + 1 <= Size
  BY RanksFacts
<1>7. ASSUME NEW d \in S, NEW b \in Ranks
      PROVE  InBlock(d, dofDist, b) <=> InBlock(Place(S, d), dist, b)
  BY <1>1, <1>4, <1>7, ReducedBlocks
<1>8. \A r \in Ranks : \A id \in DOMAIN nodes[r] :
        /\ LabelOf("reduced", r)[id] = nodes[r][id].rdof
        /\ id \in ReducedNodes(r) => /\ nodes[r][id].dof \in S /\ nodes[r][id].rdof = Place(S, nodes[r][id].dof)
                                     /\ nodes[r][id].rdof \in Nat
        /\ id \notin ReducedNodes(r) => nodes[r][id].rdof = Unset
  BY <1>1, <1>3, ReducedPlaces
<1>9. ASSUME NEW r \in Ranks, NEW id \in DOMAIN nodes[r], id \in ReducedNodes(r)
      PROVE  nodes[r][id].rdof \in 0 .. dist[Size] - 1
  <2>1. PICK d \in S : d = nodes[r][id].dof /\ nodes[r][id].rdof = Place(S, d) /\ Place(S, d) \in Nat
    BY <1>8, <1>9
  <2>2. d \in Int /\ dofDist[0] <= d /\ d < dofDist[Size]
    <3>1. d \in 0 .. dofDist[Size] - 1 /\ dofDist[Size] \in Int
      BY <1>5, <1>6, <2>1 DEF DofsNumbered
    <3> QED BY <1>5, <3>1
  <2>3. PICK b \in Ranks : InBlock(d, dofDist, b)
    BY <1>5, <2>2, BlockExists
  <2>4. Place(S, d) < dist[b + 1]
    BY <1>7, <2>3 DEF InBlock
  <2>5. dist[b + 1] <= dist[Size] /\ dist[b + 1] \in Int /\ dist[Size] \in Int
    BY <1>4, <1>6 DEF Ordered
  <2> QED BY <2>1, <2>4, <2>5
<1>10. ASSUME NEW b \in Ranks, NEW d \in Own("reduced", b)
       PROVE  \E id \in DOMAIN nodes[b] : LabelOf("reduced", b)[id] = d
  <2>1. PICK x \in Int, y \in Int, z \in Int : x = dist[b] /\ y = dist[b + 1] /\ z = dist[Size]
    BY <1>4, <1>6
  <2>2. 0 <= x /\ y <= z
    BY <1>4, <1>6, <2>1 DEF Ordered
  <2>3. d \in x .. y - 1
    BY <1>3, <1>4, <2>1 DEF Own
  <2>4. PICK n \in Nat : n = Cardinality(S) /\ z <= n
    <3>1. Cardinality(S) \in Nat /\ \A m \in Int : Place(S, m) \in 0 .. Cardinality(S)
      BY <1>2, Places
    <3>2. z = Place(S, dofDist[Size]) /\ dofDist[Size] \in Int
      BY <1>4, <1>5, <1>6, <2>1
    <3> QED BY <3>1, <3>2
  <2>5. d \in 0 .. n - 1 /\ InBlock(d, dist, b)
    BY <2>1, <2>2, <2>3, <2>4 DEF InBlock
  <2>6. PICK m \in S : Place(S, m) = d
    BY <1>2, <2>4, <2>5, Places
  <2>7. InBlock(m, dofDist, b)
    BY <1>7, <2>5, <2>6
  <2>8. m \in ReducedOwn(b)
    BY <1>1, <1>2, <2>7, OwnReduced
  <2>9. PICK id \in ReducedNodes(b) : nodes[b][id].dof = m
    BY <2>8 DEF ReducedOwn
  <2>10. id \in DOMAIN nodes[b]
    BY <1>2
  <2> QED BY <1>8, <2>6, <2>9, <2>10
<1>11. \A r \in Ranks : DOMAIN nodes[r] # {} =>
         /\ FirstNode(r) \in DOMAIN nodes[r] /\ FirstNode(r) \in ReducedNodes(r)
         /\ LabelOf("reduced", r)[FirstNode(r)] # Unset
  <2>1. \A n \in Nat : n # Unset
    BY DEF Unset
  <2> QED BY <1>8, <2>1, FirstEnds
<1>12. \A r \in Ranks : \A id \in DOMAIN nodes[r] :
         LabelOf("reduced", r)[id] = Unset \/ LabelOf("reduced", r)[id] \in 0 .. dist[Size] - 1
  BY <1>8, <1>9
<1>13. DistOf("reduced") = dist
  BY <1>3, <1>4
<1> QED BY <1>4, <1>10, <1>11, <1>12, <1>13 DEF Covered

\* What getFlaggedMinMaxInt looks at, when the first value is flagged
LEMMA Flagged ==
  ASSUME NEW r \in Ranks, NEW t, DOMAIN t = DOMAIN nodes[r],
         FirstNode(r) \in DOMAIN nodes[r], t[FirstNode(r)] # Unset
  PROVE  FlaggedValues(r, t) = {t[id] : id \in DOMAIN nodes[r]} \ {Unset}
<1>1. PICK first : first = FirstNode(r)
  OBVIOUS
<1>2. FlaggedValues(r, t) = {t[first]} \cup {t[id] : id \in {j \in DOMAIN nodes[r] : t[j] # Unset}}
  BY <1>1 DEF FlaggedValues
<1> QED BY <1>1, <1>2

\* A mapping that leaves no index out is accepted.
LEMMA AssignAccepts ==
  ASSUME NEW r \in Ranks, NEW t, DOMAIN t = DOMAIN nodes[r], NEW n \in Int,
         DOMAIN nodes[r] # {} => FirstNode(r) \in DOMAIN nodes[r] /\ t[FirstNode(r)] # Unset,
         \A id \in DOMAIN nodes[r] : t[id] = Unset \/ t[id] \in 0 .. n - 1,
         \A i \in 0 .. n - 1 : \E id \in DOMAIN nodes[r] : t[id] = i
  PROVE  ~ AssignRaises(r, t)
<1> SUFFICES ASSUME DOMAIN nodes[r] # {}
             PROVE  /\ Min(FlaggedValues(r, t)) >= 0
                    /\ 0 .. Max(FlaggedValues(r, t)) \subseteq FlaggedValues(r, t)
                    /\ Min(FlaggedValues(r, t)) \in Int
  BY DEF AssignRaises
<1>1. PICK S : S = FlaggedValues(r, t)
  OBVIOUS
<1>2. S = {t[id] : id \in DOMAIN nodes[r]} \ {Unset}
  BY <1>1, Flagged
<1>3. ASSUME NEW i \in 0 .. n - 1 PROVE i \in S
  BY <1>2, <1>3 DEF Unset
<1>4. S \subseteq 0 .. n - 1
  BY <1>2
<1>5. S # {}
  BY <1>2
<1>6. IsFiniteSet(S) /\ S \subseteq Int
  <2>1. 0 \in Int /\ n - 1 \in Int
    OBVIOUS
  <2> QED BY <1>4, <2>1, IntervalFinite
<1>7. PICK lo \in S, hi \in S : lo = Min(S) /\ hi = Max(S)
  BY <1>5, <1>6, MinMax
<1>8. lo >= 0 /\ lo \in Int /\ hi \in 0 .. n - 1
  BY <1>4
<1>9. 0 .. hi \subseteq S
  <2>1. \A i \in 0 .. hi : i \in 0 .. n - 1
    BY <1>8
  <2> QED BY <1>3, <2>1
<1> QED BY <1>1, <1>7, <1>8, <1>9

\* The reduced nodes of a rank are numbered by Id.
LEMMA ReducedAccepted ==
  ASSUME NodesTyped, ElementsTyped, Known(7, nodes), Covered("full"), NEW r \in Ranks
  PROVE  ~ AssignRaises(r, ReducedNodesTarget(r))
<1>1. PICK S : S = ReducedNodes(r)
  OBVIOUS
<1>2. S \in SUBSET Int /\ IsFiniteSet(S) /\ S \subseteq DOMAIN nodes[r]
  <2>1. S \subseteq DOMAIN nodes[r]
    BY <1>1, ReducedFinite
  <2> QED BY <2>1, FS_Subset DEF NodesTyped
<1>3. PICK n \in Nat : n = Cardinality(S)
  BY <1>2, Places
<1>4. PICK t : t = ReducedNodesTarget(r)
  OBVIOUS
<1>5. DOMAIN t = DOMAIN nodes[r] /\ \A id \in DOMAIN nodes[r] : t[id] = IF id \in S THEN Place(S, id) ELSE Unset
  BY <1>1, <1>4 DEF ReducedNodesTarget, Place
<1>6. /\ \A id \in S : Place(S, id) \in 0 .. n - 1
      /\ \A i \in 0 .. n - 1 : \E id \in S : Place(S, id) = i
  BY <1>2, <1>3, Places
<1>7. \A id \in DOMAIN nodes[r] : t[id] = Unset \/ t[id] \in 0 .. n - 1
  BY <1>5, <1>6
<1>8. \A i \in 0 .. n - 1 : \E id \in DOMAIN nodes[r] : t[id] = i
  BY <1>2, <1>5, <1>6
<1>9. \A i \in 0 .. n - 1 : i # Unset
  BY DEF Unset
<1>10. DOMAIN nodes[r] # {} => FirstNode(r) \in DOMAIN nodes[r] /\ t[FirstNode(r)] # Unset
  BY <1>1, <1>5, <1>6, <1>9 DEF Covered
<1>11. ~ AssignRaises(r, t)
  BY <1>5, <1>7, <1>8, <1>10, AssignAccepts
<1> QED BY <1>4, <1>11

\* The range of the labels of a rank
LEMMA RangeFacts ==
  ASSUME NEW kind \in Kinds, Covered(kind), NEW r \in Ranks, DOMAIN nodes[r] # {}
  PROVE  \E lo, hi \in Present(kind, r) :
           /\ LocalRange(kind, r) = <<lo, hi>>
           /\ lo \in Int /\ hi \in Int /\ 0 <= lo
           /\ \A d \in Present(kind, r) : d \in Int /\ lo <= d /\ d <= hi
<1>1. PICK S, t : S = Present(kind, r) /\ t = LabelOf(kind, r)
  OBVIOUS
<1>2. DOMAIN t = DOMAIN nodes[r]
  BY <1>1 DEF LabelOf
<1>3. FirstNode(r) \in DOMAIN nodes[r] /\ t[FirstNode(r)] # Unset
  BY <1>1 DEF Covered
<1>4. FlaggedValues(r, t) = S
  <2>1. S = {t[id] : id \in DOMAIN nodes[r]} \ {Unset}
    BY <1>1 DEF Present
  <2> QED BY <1>2, <1>3, <2>1, Flagged
<1>5. PICK n \in Int : n = DistOf(kind)[Size]
  <2>1. Size \in 0 .. Size
    BY RanksFacts
  <2> QED BY <2>1 DEF Covered
<1>6. S \subseteq 0 .. n - 1
  BY <1>1, <1>5 DEF Present, Covered
<1>7. S # {}
  BY <1>1, <1>3 DEF Present
<1>8. IsFiniteSet(S) /\ S \subseteq Int
  <2>1. 0 \in Int /\ n - 1 \in Int
    OBVIOUS
  <2> QED BY <1>6, <2>1, IntervalFinite
<1>9. PICK lo \in S, hi \in S : lo = Min(S) /\ hi = Max(S) /\ \A d \in S : lo <= d /\ d <= hi
  BY <1>7, <1>8, MinMax
<1>10. LocalRange(kind, r) = <<lo, hi>>
  BY <1>1, <1>4, <1>9 DEF LocalRange
<1>11. 0 <= lo
  BY <1>6
<1> QED BY <1>1, <1>8, <1>9, <1>10, <1>11

\* The labels of a rank span its own block.
LEMMA SpanAccepted ==
  ASSUME NEW kind \in Kinds, Covered(kind), NEW r \in Ranks
  PROVE  ~ SpanRaises(kind, r)
<1> SUFFICES ASSUME DistOf(kind)[r] < DistOf(kind)[r + 1]
             PROVE  /\ LocalRange(kind, r)[1] <= DistOf(kind)[r]
                    /\ DistOf(kind)[r + 1] - 1 <= LocalRange(kind, r)[2]
  BY DEF SpanRaises
<1>1. PICK x \in Int, y \in Int : x = DistOf(kind)[r] /\ y = DistOf(kind)[r + 1]
  <2>1. r \in 0 .. Size /\ r + 1 \in 0 .. Size
    BY RanksFacts
  <2> QED BY <2>1 DEF Covered
<1>2. x \in Own(kind, r) /\ y - 1 \in Own(kind, r)
  BY <1>1 DEF Own
<1>3. \A d \in Own(kind, r) : \E id \in DOMAIN nodes[r] : LabelOf(kind, r)[id] = d
  BY DEF Covered
<1>4. x # Unset /\ y - 1 # Unset
  <2>1. 0 \in 0 .. Size /\ r \in 0 .. Size /\ 0 <= r
    BY RanksFacts
  <2>2. 0 <= x
    BY <1>1, <2>1 DEF Covered, Ordered
  <2> QED BY <1>1, <2>2 DEF Unset
<1>5. x \in Present(kind, r) /\ y - 1 \in Present(kind, r) /\ DOMAIN nodes[r] # {}
  BY <1>2, <1>3, <1>4 DEF Present
<1>6. PICK lo \in Int, hi \in Int :
        LocalRange(kind, r) = <<lo, hi>> /\ \A d \in Present(kind, r) : lo <= d /\ d <= hi
  BY <1>5, RangeFacts
<1> QED BY <1>1, <1>5, <1>6

\* A rank asks the owner of every label it has, which lists it.
LEMMA Listed ==
  ASSUME NEW kind \in Kinds, Covered(kind), NEW r \in Ranks, NEW p \in Ranks, p # r
  PROVE  \E n \in Nat :
           /\ DOMAIN Wanted(kind, r, p) = 1 .. n
           /\ \A i \in 1 .. n : Wanted(kind, r, p)[i] \in Present(kind, r) \cap Own(kind, p)
           /\ \A d \in Present(kind, r) \cap Own(kind, p) : \E i \in 1 .. n : Wanted(kind, r, p)[i] = d
           /\ \A i, j \in 1 .. n : Wanted(kind, r, p)[i] = Wanted(kind, r, p)[j] => i = j
<1>1. PICK S : S = Present(kind, r) \cap Own(kind, p)
  OBVIOUS
<1>2. PICK dist \in [0 .. Size -> Int] : dist = DistOf(kind) /\ Ordered(dist) /\ dist[0] = 0
  BY DEF Covered
<1>3. /\ p \in 0 .. Size /\ p + 1 \in 0 .. Size /\ p \in Int /\ 0 \in Ranks /\ 0 \in 0 .. Size
      /\ \A q \in Ranks : q \in 0 .. Size /\ q \in Int /\ (p < q => p + 1 <= q)
  BY RanksFacts
<1>4. PICK x \in Int, y \in Int : x = dist[p] /\ y = dist[p + 1] /\ Own(kind, p) = x .. y - 1
  BY <1>2, <1>3 DEF Own
<1>5. IsFiniteSet(S) /\ S \in SUBSET Int
  <2>1. S \subseteq x .. y - 1 /\ y - 1 \in Int
    BY <1>1, <1>4
  <2> QED BY <2>1, IntervalFinite
<1>6. CASE S = {}
  <2>1. Ascending(S) \in [1 .. 0 -> S]
    <3>1. Cardinality(S) = 0
      BY <1>6, FS_EmptySet
    <3> QED BY <1>5, <3>1, AscendingLists
  <2>2. Wanted(kind, r, p) \in {<<>>, Ascending(S)}
    BY <1>1 DEF Wanted
  <2>3. DOMAIN Wanted(kind, r, p) = 1 .. 0
    BY <2>1, <2>2
  <2> QED BY <1>1, <1>6, <2>3
<1>7. CASE S # {}
  <2>1. PICK d \in Int : d \in S
    BY <1>5, <1>7
  <2>2. DOMAIN nodes[r] # {}
    BY <1>1, <2>1 DEF Present
  <2>3. PICK lo \in Int, hi \in Int :
          /\ LocalRange(kind, r) = <<lo, hi>> /\ 0 <= lo
          /\ \A e \in Present(kind, r) : lo <= e /\ e <= hi
    BY <2>2, RangeFacts
  <2>4. lo <= d /\ d <= hi /\ x <= d /\ d < y
    BY <1>1, <1>4, <2>1, <2>3
  <2>5. PICK from, to : from = {q \in Ranks : dist[q] <= lo} /\ to = {q \in Ranks : dist[q] <= hi}
    OBVIOUS
  <2>6. 0 \in from /\ p \in to
    BY <1>2, <1>3, <1>4, <2>3, <2>4, <2>5
  <2>7. Span(kind, r) = Max(from) .. Max(to)
    <3>1. ~ (hi < lo) /\ from # {}
      BY <2>4, <2>6
    <3> QED BY <1>2, <2>3, <2>5, <3>1 DEF Span
  <2>8. IsFiniteSet(from) /\ IsFiniteSet(to) /\ from \subseteq Ranks /\ to \subseteq Ranks /\ Ranks \subseteq Int
    <3>1. from \subseteq Ranks /\ to \subseteq Ranks
      BY <2>5
    <3>2. IsFiniteSet(Ranks) /\ Ranks \subseteq Int
      BY RanksFacts
    <3>3. IsFiniteSet(from)
      BY <3>1, <3>2, FS_Subset
    <3>4. IsFiniteSet(to)
      BY <3>1, <3>2, FS_Subset
    <3> QED BY <3>1, <3>2, <3>3, <3>4
  <2>9. PICK a \in from, b \in to : a = Max(from) /\ b = Max(to) /\ p <= b
    <3>1. from \subseteq Int /\ to \subseteq Int /\ from # {} /\ to # {}
      BY <2>6, <2>8
    <3>2. Max(from) \in from
      BY <2>8, <3>1, MinMax
    <3>3. Max(to) \in to /\ p <= Max(to)
      BY <2>6, <2>8, <3>1, MinMax
    <3> QED BY <3>2, <3>3
  <2>10. a <= p
    <3> SUFFICES ASSUME p < a PROVE FALSE
      BY <1>3, <2>8
    <3>1. a \in Ranks /\ dist[a] <= lo
      BY <2>5
    <3>2. y <= dist[a] /\ dist[a] \in Int
      BY <1>2, <1>3, <1>4, <3>1 DEF Ordered
    <3> QED BY <2>4, <3>1, <3>2
  <2>11. p \in Span(kind, r)
    BY <1>3, <2>7, <2>8, <2>9, <2>10
  <2>12. Wanted(kind, r, p) = Ascending(S)
    BY <1>1, <2>11 DEF Wanted
  <2>13. PICK n \in Nat : /\ n = Cardinality(S) /\ Ascending(S) \in [1 .. n -> S]
                          /\ \A e \in S : \E i \in 1 .. n : Ascending(S)[i] = e
    BY <1>5, AscendingLists
  <2>14. ASSUME NEW i \in 1 .. n PROVE Place(S, Ascending(S)[i]) = i - 1
    <3>1. i - 1 \in 0 .. n - 1
      OBVIOUS
    <3>2. \E e \in S : Cardinality({f \in S : f < e}) = i - 1
      BY <1>5, <2>13, <3>1, Places DEF Place
    <3>3. Ascending(S)[i] = CHOOSE e \in S : Cardinality({f \in S : f < e}) = i - 1
      BY <2>13 DEF Ascending
    <3> QED BY <3>2, <3>3 DEF Place
  <2>15. \A i, j \in 1 .. n : Ascending(S)[i] = Ascending(S)[j] => i = j
    <3>1. ASSUME NEW i \in 1 .. n, NEW j \in 1 .. n, Ascending(S)[i] = Ascending(S)[j] PROVE i = j
      <4>1. i - 1 = j - 1
        BY <2>14, <3>1
      <4> QED BY <4>1
    <3> QED BY <3>1
  <2>16. DOMAIN Ascending(S) = 1 .. n /\ \A i \in 1 .. n : Ascending(S)[i] \in S
    BY <2>13
  <2>17. PICK w : w = Wanted(kind, r, p) /\ w = Ascending(S)
    BY <2>12
  <2>18. /\ DOMAIN w = 1 .. n /\ \A i \in 1 .. n : w[i] \in S
         /\ \A e \in S : \E i \in 1 .. n : w[i] = e
         /\ \A i, j \in 1 .. n : w[i] = w[j] => i = j
    BY <2>13, <2>15, <2>16, <2>17
  <2> QED BY <1>1, <2>17, <2>18
<1> QED BY <1>6, <1>7

\* A list that begins with 1 says of each entry how many come before.
LEMMA PlaceInList ==
  ASSUME NEW n \in Nat, NEW i \in 1 .. n
  PROVE  Place(1 .. n, i) = i - 1
<1>1. {y \in 1 .. n : y < i} = 1 .. i - 1
  OBVIOUS
<1>2. Cardinality(1 .. i - 1) = i - 1
  <2>1. 1 \in Int /\ i - 1 \in Int
    OBVIOUS
  <2>2. Cardinality(1 .. i - 1) = IF 1 > i - 1 THEN 0 ELSE (i - 1) - 1 + 1
    BY <2>1, FS_Interval
  <2> QED BY <2>2
<1> QED BY <1>1, <1>2 DEF Place

\* The local indices of the labels of a rank: its own, then those of others,
\* none left out.
LEMMA IndexFacts ==
  ASSUME NEW kind \in Kinds, Covered(kind), NEW r \in Ranks
  PROVE  \E n \in Int :
           /\ \A d \in Present(kind, r) : LocalIndex(kind, r, d) \in 0 .. n - 1
           /\ \A i \in 0 .. n - 1 : \E d \in Present(kind, r) : LocalIndex(kind, r, d) = i
<1>1. PICK dist \in [0 .. Size -> Int] : dist = DistOf(kind) /\ Ordered(dist) /\ dist[0] = 0
  BY DEF Covered
<1>2. \A q \in Ranks : q \in 0 .. Size /\ q + 1 \in 0 .. Size /\ 0 <= q /\ q <= q + 1
  BY RanksFacts
<1>3. PICK x \in Int, y \in Int : x = dist[r] /\ y = dist[r + 1] /\ Own(kind, r) = x .. y - 1
  BY <1>1, <1>2 DEF Own
<1>4. 0 <= x /\ x <= y
  <2>1. 0 \in 0 .. Size
    BY RanksFacts
  <2> QED BY <1>1, <1>2, <1>3, <2>1 DEF Ordered
<1>5. PICK own \in Nat : own = y - x
  BY <1>4
<1>6. PICK recv : recv = [p \in Ranks |-> Wanted(kind, r, p)]
  OBVIOUS
<1>7. PICK P : P = Present(kind, r)
  OBVIOUS
\* what the rank wants of each other
<1>8. ASSUME NEW p \in Ranks
      PROVE  \E n \in Nat :
               /\ DOMAIN recv[p] = 1 .. n
               /\ \A i \in 1 .. n : p # r /\ recv[p][i] \in P /\ recv[p][i] \in Own(kind, p)
               /\ p # r => \A d \in P \cap Own(kind, p) : \E i \in 1 .. n : recv[p][i] = d
               /\ \A i, j \in 1 .. n : recv[p][i] = recv[p][j] => i = j
  <2>1. CASE p = r
    <3>1. recv[p] = <<>>
      BY <1>6, <2>1 DEF Wanted
    <3>2. DOMAIN <<>> = 1 .. 0 /\ \A i \in 1 .. 0 : FALSE
      OBVIOUS
    <3> QED BY <2>1, <3>1, <3>2
  <2>2. CASE p # r
    BY <1>6, <1>7, <2>2, Listed
  <2> QED BY <2>1, <2>2
<1>9. PICK things : things = [p \in Ranks |-> DOMAIN recv[p]]
  OBVIOUS
<1>10. things \in [Ranks -> SUBSET Int] /\ (\A p \in Ranks : IsFiniteSet(things[p]) /\ things[p] = DOMAIN recv[p])
  <2>1. ASSUME NEW p \in Ranks PROVE DOMAIN recv[p] \in SUBSET Int /\ IsFiniteSet(DOMAIN recv[p])
    <3>1. PICK n \in Nat : DOMAIN recv[p] = 1 .. n
      BY <1>8
    <3> QED BY <3>1, FS_Interval
  <2> QED BY <1>9, <2>1
<1>f. things \in [Ranks -> SUBSET Int] /\ \A p \in Ranks : IsFiniteSet(things[p])
  BY <1>10
<1>11. PICK bound : bound = [p \in 0 .. Size |-> CountBefore(p, things)]
  OBVIOUS
<1>12. \A p \in 0 .. Size : bound[p] = CountBefore(p, things) /\ bound[p] = OffsetInShared(recv, p)
  BY <1>9, <1>11 DEF OffsetInShared
<1>13. bound \in [0 .. Size -> Int]
  <2>1. \A p \in 0 .. Size : CountBefore(p, things) \in Nat
    BY <1>10, CountSteps
  <2> QED BY <1>11, <2>1
<1>14. PICK total \in Int : total = bound[Size]
  <2>1. Size \in 0 .. Size
    BY RanksFacts
  <2> QED BY <1>13, <2>1
<1>15. /\ \A q \in Ranks : \A i \in things[q] : bound[q] + Place(things[q], i) \in 0 .. total - 1
       /\ \A k \in 0 .. total - 1 : \E q \in Ranks : \E i \in things[q] : bound[q] + Place(things[q], i) = k
       /\ 0 <= total
  <2>1. \A p \in 0 .. Size : bound[p] = CountBefore(p, things)
    BY <1>12
  <2>2. /\ bound \in [0 .. Size -> Nat]
        /\ \A q \in Ranks : \A i \in things[q] : bound[q] + Place(things[q], i) \in 0 .. bound[Size] - 1
        /\ \A k \in 0 .. bound[Size] - 1 : \E q \in Ranks : \E i \in things[q] : bound[q] + Place(things[q], i) = k
    BY <1>f, <1>13, <2>1, GroupLabels
  <2>3. Size \in 0 .. Size
    BY RanksFacts
  <2> QED BY <1>14, <2>2, <2>3
<1>16. ASSUME NEW q \in Ranks, NEW i \in things[q]
       PROVE  /\ i \in Int /\ bound[q] + Place(things[q], i) = bound[q] + (i - 1)
              /\ recv[q][i] \in P /\ recv[q][i] \in Own(kind, q) /\ q # r
              /\ \A j \in things[q] : recv[q][i] = recv[q][j] => i = j
  <2>1. PICK n \in Nat :
               /\ things[q] = 1 .. n
               /\ \A j \in 1 .. n : q # r /\ recv[q][j] \in P /\ recv[q][j] \in Own(kind, q)
               /\ \A j, k \in 1 .. n : recv[q][j] = recv[q][k] => j = k
    BY <1>8, <1>10
  <2>2. Place(things[q], i) = i - 1
    BY <2>1, PlaceInList
  <2> QED BY <2>1, <2>2
\* no label is of two ranks
<1>17. ASSUME NEW d \in Int, NEW p \in Ranks, NEW q \in Ranks, d \in Own(kind, p), d \in Own(kind, q)
       PROVE  p = q
  <2>1. InBlock(d, dist, p) /\ InBlock(d, dist, q)
    <3>1. dist[p] \in Int /\ dist[p + 1] \in Int /\ dist[q] \in Int /\ dist[q + 1] \in Int
      BY <1>1, <1>2
    <3> QED BY <1>1, <1>17, <3>1 DEF Own, InBlock
  <2> QED BY <1>1, <2>1, BlockUnique
<1>18. \A p \in Ranks : Own(kind, p) \subseteq Int
  BY DEF Own
<1>19. ASSUME NEW q \in Ranks, NEW i \in things[q]
       PROVE  LocalIndex(kind, r, recv[q][i]) = own + (bound[q] + Place(things[q], i))
  <2>1. PICK d \in Int : d = recv[q][i] /\ d \in Own(kind, q) /\ q # r
    BY <1>16, <1>18
  <2>2. d \notin Own(kind, r)
    BY <1>17, <2>1
  <2>3. d \in Range(recv[q])
    BY <1>10, <2>1 DEF Range
  <2>4. \A p \in Ranks : d \in Range(recv[p]) => p = q
    <3>1. ASSUME NEW p \in Ranks, d \in Range(recv[p]) PROVE p = q
      <4>1. PICK j \in things[p] : d = recv[p][j]
        BY <1>10, <3>1 DEF Range
      <4>2. d \in Own(kind, p)
        BY <1>16, <4>1
      <4> QED BY <1>17, <2>1, <4>2
    <3> QED BY <3>1
  <2>5. q = CHOOSE p \in Ranks : d \in Range(recv[p])
    BY <2>3, <2>4
  <2>6. i = CHOOSE j \in DOMAIN recv[q] : recv[q][j] = d
    <3>1. \A j \in things[q] : recv[q][j] = d => j = i
      BY <1>16, <2>1
    <3> QED BY <1>10, <2>1, <3>1
  <2>7. IndexInShared(recv, d) = OffsetInShared(recv, q) + i - 1
    BY <2>5, <2>6 DEF IndexInShared
  <2>8. LocalIndex(kind, r, d) = own + IndexInShared(recv, d)
    BY <1>1, <1>3, <1>5, <1>6, <2>2, <2>3 DEF LocalIndex
  <2>9. OffsetInShared(recv, q) = bound[q] /\ bound[q] \in Int
    BY <1>2, <1>12, <1>13
  <2>10. i \in Int /\ bound[q] + Place(things[q], i) = bound[q] + (i - 1)
    BY <1>16
  <2> QED BY <2>1, <2>7, <2>8, <2>9, <2>10
<1>20. ASSUME NEW d \in Own(kind, r) PROVE LocalIndex(kind, r, d) = d - x
  BY <1>1, <1>3 DEF LocalIndex
<1>21. PICK n \in Int : n = own + total
  OBVIOUS
<1>22. ASSUME NEW d \in P PROVE LocalIndex(kind, r, d) \in 0 .. n - 1
  <2>1. PICK last \in Int : last = dist[Size] /\ d \in 0 .. last - 1
    <3>1. Size \in 0 .. Size
      BY RanksFacts
    <3> QED BY <1>1, <1>7, <3>1 DEF Covered, Present
  <2>2. PICK p \in Ranks : d \in Own(kind, p)
    <3>1. d \in Int /\ dist[0] <= d /\ d < dist[Size]
      BY <1>1, <2>1
    <3>2. PICK p \in Ranks : InBlock(d, dist, p)
      BY <3>1, BlockExists
    <3>3. dist[p] \in Int /\ dist[p + 1] \in Int
      BY <1>1, <1>2
    <3> QED BY <1>1, <3>1, <3>2, <3>3 DEF InBlock, Own
  <2>3. CASE p = r
    <3>1. d \in x .. y - 1 /\ LocalIndex(kind, r, d) = d - x
      BY <1>3, <1>20, <2>2, <2>3
    <3> QED BY <1>5, <1>15, <1>21, <3>1
  <2>4. CASE p # r
    <3>1. PICK i \in things[p] : recv[p][i] = d
      BY <1>8, <1>10, <2>2, <2>4
    <3>2. PICK k \in 0 .. total - 1 : k = bound[p] + Place(things[p], i)
      BY <1>15
    <3>3. LocalIndex(kind, r, d) = own + k
      BY <1>19, <3>1, <3>2
    <3> QED BY <1>21, <3>2, <3>3
  <2> QED BY <2>3, <2>4
<1>23. ASSUME NEW i \in 0 .. n - 1 PROVE \E d \in P : LocalIndex(kind, r, d) = i
  <2>1. CASE i < own
    <3>1. PICK d \in Own(kind, r) : d = x + i /\ d # Unset
      <4>1. x + i \in x .. y - 1 /\ x + i # Unset
        BY <1>4, <1>5, <2>1 DEF Unset
      <4> QED BY <1>3, <4>1
    <3>2. d \in P
      <4>1. PICK id \in DOMAIN nodes[r] : LabelOf(kind, r)[id] = d
        BY DEF Covered
      <4> QED BY <1>7, <3>1, <4>1 DEF Present
    <3>3. LocalIndex(kind, r, d) = i
      BY <1>20, <3>1
    <3> QED BY <3>2, <3>3
  <2>2. CASE own <= i
    <3>1. PICK k \in 0 .. total - 1 : i = own + k
      <4>1. i - own \in 0 .. total - 1 /\ i = own + (i - own)
        BY <1>21, <2>2
      <4> QED BY <4>1
    <3>2. PICK q \in Ranks : \E j \in things[q] : bound[q] + Place(things[q], j) = k
      BY <1>15
    <3>3. PICK j \in things[q] : bound[q] + Place(things[q], j) = k
      BY <3>2
    <3>4. recv[q][j] \in P /\ LocalIndex(kind, r, recv[q][j]) = i
      BY <1>16, <1>19, <3>1, <3>3
    <3> QED BY <3>4
  <2> QED BY <2>1, <2>2
<1> QED BY <1>7, <1>22, <1>23

\* So no rank refuses the mapping of its nodes.
LEMMA TargetAccepted ==
  ASSUME NEW kind \in Kinds, Covered(kind), NEW r \in Ranks
  PROVE  ~ AssignRaises(r, NodeTarget(kind, r))
<1>1. PICK t : t = NodeTarget(kind, r)
  OBVIOUS
<1>2. PICK n \in Int :
        /\ \A d \in Present(kind, r) : LocalIndex(kind, r, d) \in 0 .. n - 1
        /\ \A i \in 0 .. n - 1 : \E d \in Present(kind, r) : LocalIndex(kind, r, d) = i
  BY IndexFacts
<1>3. /\ DOMAIN t = DOMAIN nodes[r]
      /\ \A id \in DOMAIN nodes[r] :
           t[id] = IF LabelOf(kind, r)[id] = Unset THEN Unset ELSE LocalIndex(kind, r, LabelOf(kind, r)[id])
  BY <1>1 DEF NodeTarget
<1>4. ASSUME NEW id \in DOMAIN nodes[r], LabelOf(kind, r)[id] # Unset PROVE t[id] \in 0 .. n - 1
  <2>1. LabelOf(kind, r)[id] \in Present(kind, r)
    BY <1>4 DEF Present
  <2> QED BY <1>2, <1>3, <1>4, <2>1
<1>5. \A id \in DOMAIN nodes[r] : t[id] = Unset \/ t[id] \in 0 .. n - 1
  BY <1>3, <1>4
<1>6. ASSUME NEW i \in 0 .. n - 1 PROVE \E id \in DOMAIN nodes[r] : t[id] = i
  <2>1. PICK d \in Present(kind, r) : LocalIndex(kind, r, d) = i
    BY <1>2
  <2>2. PICK id \in DOMAIN nodes[r] : LabelOf(kind, r)[id] = d /\ d # Unset
    BY <2>1 DEF Present
  <2> QED BY <1>3, <2>1, <2>2
<1>7. \A i \in 0 .. n - 1 : i # Unset
  BY DEF Unset
<1>8. DOMAIN nodes[r] # {} => FirstNode(r) \in DOMAIN nodes[r] /\ t[FirstNode(r)] # Unset
  BY <1>4, <1>7 DEF Covered
<1>9. ~ AssignRaises(r, t)
  BY <1>3, <1>5, <1>6, <1>8, AssignAccepts
<1> QED BY <1>1, <1>9

\* When the ranks make their mappings, none refuses one.
LEMMA NoneRaises ==
  ASSUME MeshInv, LowEnds, Job = "mappings"
  PROVE  Raising = {}
<1>1. NodesTyped /\ ElementsTyped /\ ring.phase = "idle"
  BY DEF MeshInv, RingShape, RingJobs, BlockJobs
<1>2. Known(7, nodes)
  BY <1>1 DEF MeshInv, Level
<1>3. \A kind \in Kinds : Covered(kind)
  BY <1>1, <1>2, CoveredFull, CoveredReduced DEF Kinds
<1>4. \A r \in Ranks, kind \in Kinds : ~ SpanRaises(kind, r)
  BY <1>3, SpanAccepted
<1>5. \A r \in Ranks, kind \in Kinds : ~ AssignRaises(r, NodeTarget(kind, r))
  BY <1>3, TargetAccepted
<1>6. \A r \in Ranks : ~ AssignRaises(r, ReducedNodesTarget(r))
  BY <1>1, <1>2, <1>3, ReducedAccepted DEF Kinds
<1> QED BY <1>4, <1>5, <1>6 DEF Raising

\* An element keeps its nodes and its ends.
LEMMA LowEndsKept ==
  ASSUME ElementsTyped, LowEnds, MeshNext
  PROVE  LowEnds'
<1>1. CASE DistributeElements
  <2>1. ASSUME NEW p \in Ranks, NEW f \in elements'[p] PROVE LowEnd(f)
    <3>1. PICK s \in Ranks : \E e \in elements[s] : f = [e EXCEPT !.owner = NewOwner(s, e)]
      BY <1>1, SentElements
    <3>2. PICK e \in elements[s] : f = [e EXCEPT !.owner = NewOwner(s, e)]
      BY <3>1
    <3>3. Alike(e, f)
      BY <3>2, SentAlike
    <3> QED BY <3>3 DEF Alike, LowEnds, LowEnd
  <2> QED BY <2>1 DEF LowEnds, LowEnd
<1>2. CASE UNCHANGED elements
  BY <1>2 DEF LowEnds, LowEnd
<1> QED BY <1>1, <1>2 DEF MeshNext, StartRing, Fill, Number, StartNodeLabeling, StartOptimizeDOFDistribution,
       StartOptimizeDOFLabeling, Collect, CreateNodeMappings

\* Where the reader puts an end of an element first, no rank refuses its
\* mappings: createNodeMappings raises nowhere.
THEOREM MappingsAcceptedAlways ==
  ASSUME EndsFirst
  PROVE  Spec => []MappingsAccepted
<1> DEFINE Accepted == IInv /\ LowEnds /\ MappingsAccepted
<1>1. Init => Accepted
  <2> SUFFICES ASSUME Init PROVE Accepted
    OBVIOUS
  <2>1. IInv
    BY InitIInv
  <2>2. LowEnds
    <3>1. PICK mesh \in Meshes : elements = mesh.elements
      BY DEF Init, MeshInit
    <3> QED BY <3>1 DEF EndsFirst, LowEnds
  <2>3. MappingsAccepted
    BY DEF Init, MeshInit, MappingsAccepted
  <2> QED BY <2>1, <2>2, <2>3
<1>2. Accepted /\ [Next]_allVars => Accepted'
  <2> SUFFICES ASSUME Accepted, [Next]_allVars PROVE Accepted'
    OBVIOUS
  <2>1. IInv'
    BY StepIInv
  <2>2. CASE MeshNext
    <3>1. LowEnds'
      BY <2>2, LowEndsKept DEF IInv, MeshInv
    <3>2. MappingsAccepted'
      <4>1. CASE CreateNodeMappings
        BY <4>1, NoneRaises DEF CreateNodeMappings, MappingsAccepted, IInv
      <4>2. CASE UNCHANGED raised
        BY <4>2 DEF MappingsAccepted
      <4> QED BY <2>2, <4>1, <4>2 DEF MeshNext, StartRing, Fill, Number, StartNodeLabeling,
           StartOptimizeDOFDistribution, StartOptimizeDOFLabeling, Collect, DistributeElements
    <3> QED BY <2>1, <3>1, <3>2
  <2>3. CASE UNCHANGED meshVars
    <3>1. LowEnds' /\ MappingsAccepted'
      BY <2>3 DEF meshVars, LowEnds, LowEnd, MappingsAccepted
    <3> QED BY <2>1, <3>1
  <2> QED BY <2>2, <2>3 DEF Next, allVars, StartCollect, Compute, Deliver, FinishCollect
<1>3. Accepted => MappingsAccepted
  OBVIOUS
<1> QED BY <1>1, <1>2, <1>3, PTL DEF Spec
=============================================================================
