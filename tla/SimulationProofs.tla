-------------------------- MODULE SimulationProofs --------------------------
(***************************************************************************)
(* Proofs about Simulation, for a tree of models and simulations of any    *)
(* size and depth, any step sizes, and models that fail and refuse as they *)
(* like.                                                                   *)
(***************************************************************************)
EXTENDS SimulationInvariant, SequenceTheorems, TLAPS

-----------------------------------------------------------------------------
(* The tree                                                                *)

\* What is inside a node are nodes, the node is one of them, and so are the
\* members of those that are simulations.
LEMMA InsideClosed ==
  ASSUME NEW x \in Nodes
  PROVE  x \in Inside[x] /\ Inside[x] \subseteq Nodes /\ Closed(Inside[x])
<1>1. x \in Inside[x] /\ Inside[x] \subseteq Nodes
  BY DEF Inside
<1>2. ASSUME NEW s \in Inside[x] \cap Simulations, NEW y \in Range(Members[s])
      PROVE  y \in Inside[x]
  <2>1. y \in Nodes
    BY TreeAssumption, <1>2 DEF Range
  <2>2. ASSUME NEW S \in SUBSET Nodes, x \in S, Closed(S)
        PROVE  y \in S
    <3>1. s \in S
      BY <1>2, <2>2 DEF Inside
    <3> QED BY <1>2, <2>2, <3>1 DEF Closed
  <2> QED BY <2>1, <2>2 DEF Inside
<1> QED BY <1>1, <1>2 DEF Closed

\* Inside is the least closed set.
LEMMA InsideLeast ==
  ASSUME NEW x \in Nodes, NEW S, x \in S, Closed(S)
  PROVE  Inside[x] \subseteq S
<1>1. x \in S \cap Nodes /\ Closed(S \cap Nodes)
  BY TreeAssumption DEF Closed, Range, Nodes
<1>2. S \cap Nodes \in SUBSET Nodes
  OBVIOUS
<1>3. \A y \in Inside[x] : y \in S \cap Nodes
  BY <1>1, <1>2 DEF Inside
<1> QED BY <1>3

\* Inside a model is the model only.
LEMMA InsideModel ==
  ASSUME NEW m \in Models
  PROVE  Inside[m] = {m}
<1>1. m \in Nodes /\ Closed({m})
  BY TreeAssumption DEF Nodes, Closed
<1> QED BY <1>1, InsideLeast, InsideClosed

\* Inside a simulation are it and what is inside its members.
LEMMA InsideSimulation ==
  ASSUME NEW s \in Simulations
  PROVE  Inside[s] = {s} \cup UNION {Inside[y] : y \in Range(Members[s])}
<1> DEFINE S == {s} \cup UNION {Inside[y] : y \in Range(Members[s])}
<1>m. s \in Nodes /\ Range(Members[s]) \subseteq Nodes
  BY TreeAssumption DEF Nodes, Range
<1>1. Closed(S)
  <2> SUFFICES ASSUME NEW t \in S \cap Simulations, NEW z \in Range(Members[t])
               PROVE  z \in S
    BY DEF Closed
  <2>1. CASE t = s
    BY <1>m, <2>1, InsideClosed
  <2>2. CASE t # s
    <3>1. PICK y \in Range(Members[s]) : t \in Inside[y]
      BY <2>2
    <3>2. z \in Inside[y]
      BY <1>m, <3>1, InsideClosed DEF Closed
    <3> QED BY <3>1, <3>2
  <2> QED BY <2>1, <2>2
<1>2. Inside[s] \subseteq S
  BY <1>1, <1>m, InsideLeast
<1>3. ASSUME NEW y \in Range(Members[s])
      PROVE  Inside[y] \subseteq Inside[s]
  <2>1. s \in Inside[s] /\ Closed(Inside[s])
    BY <1>m, InsideClosed
  <2>2. y \in Inside[s]
    BY <1>3, <2>1 DEF Closed
  <2> QED BY <1>3, <1>m, <2>1, <2>2, InsideLeast
<1>4. s \in Inside[s]
  BY <1>m, InsideClosed
<1> QED BY <1>2, <1>3, <1>4

\* What is inside a node, but the node itself, is a member of something inside.
LEMMA Upwards ==
  ASSUME NEW x \in Nodes, NEW y \in Inside[x], y # x
  PROVE  \E s \in Simulations \cap Inside[x] : y \in Range(Members[s])
<1> DEFINE S == {z \in Inside[x] : z = x \/ \E s \in Simulations \cap Inside[x] : z \in Range(Members[s])}
<1>1. x \in S
  BY InsideClosed
<1>2. Closed(S)
  <2>1. Closed(Inside[x])
    BY InsideClosed
  <2> SUFFICES ASSUME NEW t \in S \cap Simulations, NEW z \in Range(Members[t]) PROVE z \in S
    BY DEF Closed
  <2> QED BY <2>1 DEF Closed
<1>3. Inside[x] \subseteq S
  BY <1>1, <1>2, InsideLeast
<1> QED BY <1>3

\* A simulation that is a member of one is a member of no other.
LEMMA OneParent ==
  ASSUME NEW s \in Simulations, NEW t \in Simulations, NEW y \in Simulations,
         y \in Range(Members[s]), y \in Range(Members[t])
  PROVE  s = t
BY TreeAssumption DEF Range

\* If a simulation below x is inside x, so is the simulation it is a member of.
LEMMA UpwardsToParent ==
  ASSUME NEW x \in Nodes, NEW y \in Inside[x] \cap Simulations, y # x,
         NEW s \in Simulations, y \in Range(Members[s])
  PROVE  s \in Inside[x]
<1>1. PICK t \in Simulations \cap Inside[x] : y \in Range(Members[t])
  BY Upwards
<1>2. s = t
  BY <1>1, OneParent
<1> QED BY <1>2

\* No simulation is inside itself.
LEMMA NoCycle ==
  ASSUME NEW s \in Simulations, NEW y \in Range(Members[s])
  PROVE  s \notin Inside[y]
<1> DEFINE A == {x \in Nodes : x \in Simulations => \A z \in Range(Members[x]) : x \notin Inside[z]}
<1>n. \A x \in Simulations : Range(Members[x]) \subseteq Nodes
  BY TreeAssumption DEF Range
<1>r. Root \in Nodes
  BY TreeAssumption DEF Nodes
<1>1. Root \in A
  <2> SUFFICES ASSUME NEW z \in Range(Members[Root]), Root \in Inside[z] PROVE FALSE
    BY <1>r
  <2>1. z \in Nodes /\ \A t \in Simulations : Root \notin Range(Members[t])
    BY TreeAssumption DEF Range
  <2>2. Root # z
    BY TreeAssumption, <2>1
  <2> QED BY <2>1, <2>2, Upwards
<1>2. Closed(A)
  <2> SUFFICES ASSUME NEW x \in A \cap Simulations, NEW z \in Range(Members[x]),
                      z \in Simulations, NEW w \in Range(Members[z]), z \in Inside[w]
               PROVE  FALSE
    BY <1>n DEF Closed
  <2>1. w \in Nodes /\ z \in Nodes
    BY TreeAssumption DEF Range, Nodes
  <2>2. CASE z = w
    <3>1. x = z
      BY <2>2, OneParent
    <3>2. z \in Inside[z]
      BY <2>1, InsideClosed
    <3> QED BY <3>1, <3>2
  <2>3. CASE z # w
    <3>1. x \in Inside[w]
      BY <2>1, <2>3, UpwardsToParent
    <3>2. Inside[w] \subseteq Inside[z]
      BY InsideSimulation
    <3> QED BY <3>1, <3>2
  <2> QED BY <2>2, <2>3
<1>3. Inside[Root] \subseteq A
  BY <1>1, <1>2, <1>r, InsideLeast
<1>4. s \in A
  BY <1>3, TreeAssumption DEF Nodes
<1> QED BY <1>4

\* No simulation is inside two members of a simulation.
LEMMA MembersApart ==
  ASSUME NEW s \in Simulations, NEW i \in DOMAIN Members[s], NEW j \in DOMAIN Members[s], i # j
  PROVE  Inside[Members[s][i]] \cap Inside[Members[s][j]] \cap Simulations = {}
<1> DEFINE x == Members[s][i]
           y == Members[s][j]
           A == {v \in Nodes : v \in Simulations => ~ (v \in Inside[x] /\ v \in Inside[y])}
<1>n. x \in Nodes /\ y \in Nodes /\ x \in Range(Members[s]) /\ y \in Range(Members[s])
  BY TreeAssumption DEF Range
<1> SUFFICES ASSUME x \in Simulations, y \in Simulations
             PROVE  Inside[x] \cap Inside[y] \cap Simulations = {}
  BY <1>n, TreeAssumption, InsideModel DEF Nodes
<1>m. /\ x \in Nodes /\ y \in Nodes /\ x # y
      /\ x \in Range(Members[s]) /\ y \in Range(Members[s])
  BY <1>n, TreeAssumption
<1>k. \A v \in Simulations : Range(Members[v]) \subseteq Nodes
  BY TreeAssumption DEF Range
<1>r. Root \in Nodes /\ Inside[Root] = Nodes
  BY TreeAssumption DEF Nodes
<1>1. Root \in A
  <2>1. \A t \in Simulations : Root \notin Range(Members[t])
    BY TreeAssumption
  <2>2. Root # x
    BY <1>m, <2>1
  <2> QED BY <1>m, <1>r, <2>1, <2>2, Upwards
<1>2. Closed(A)
  <2> SUFFICES ASSUME NEW v \in A \cap Simulations, NEW u \in Range(Members[v]) \cap Simulations,
                      u \in Inside[x], u \in Inside[y]
               PROVE  FALSE
    BY <1>k DEF Closed
  <2>1. CASE u = x
    <3>1. s \in Inside[y]
      BY <1>m, <2>1, UpwardsToParent
    <3> QED BY <1>m, <3>1, NoCycle
  <2>2. CASE u = y
    <3>1. s \in Inside[x]
      BY <1>m, <2>2, UpwardsToParent
    <3> QED BY <1>m, <3>1, NoCycle
  <2>3. CASE u # x /\ u # y
    <3>1. v \in Inside[x] /\ v \in Inside[y]
      BY <1>m, <2>3, UpwardsToParent
    <3> QED BY <3>1
  <2> QED BY <2>1, <2>2, <2>3
<1>3. Inside[Root] \subseteq A
  BY <1>1, <1>2, <1>r, InsideLeast
<1>4. Inside[x] \subseteq Nodes
  BY <1>m, InsideClosed
<1> QED BY <1>3, <1>4, <1>r

\* All models are below Root.
LEMMA BelowRoot == Below[Root] = Models
BY TreeAssumption DEF Below, Nodes

-----------------------------------------------------------------------------
(* Calls and sequences of calls                                            *)

\* A call at the head of a sequence that goes on with others is dropped, or makes way.
LEMMA HeadOfPrefix ==
  ASSUME NEW S, NEW P \in Seq(S), NEW R \in Seq(S), NEW e \in Seq(S), P # <<>>
  PROVE  /\ P \o R # <<>> /\ Head(P \o R) = Head(P) /\ Head(P) = P[1] /\ Head(P) \in S
         /\ Tail(P) \in Seq(S) /\ e \o Tail(P) \in Seq(S)
         /\ Tail(P \o R) = Tail(P) \o R
         /\ e \o Tail(P \o R) = (e \o Tail(P)) \o R
<1>1. /\ Head(P) = P[1] /\ Head(P) \in S /\ Tail(P) \in Seq(S) /\ Len(Tail(P)) = Len(P) - 1
      /\ \A i \in 1 .. Len(Tail(P)) : Tail(P)[i] = P[i + 1]
  BY HeadTailProperties
<1>2. Len(P) \in Nat \ {0} /\ Len(R) \in Nat
  BY EmptySeq, LenProperties
<1>3. /\ P \o R \in Seq(S) /\ Len(P \o R) = Len(P) + Len(R)
      /\ \A i \in 1 .. Len(P) + Len(R) : (P \o R)[i] = IF i <= Len(P) THEN P[i] ELSE R[i - Len(P)]
  BY ConcatProperties
<1>4. P \o R # <<>>
  BY <1>2, <1>3, EmptySeq
<1>5. /\ Head(P \o R) = (P \o R)[1] /\ Tail(P \o R) \in Seq(S) /\ Len(Tail(P \o R)) = Len(P \o R) - 1
      /\ \A i \in 1 .. Len(Tail(P \o R)) : Tail(P \o R)[i] = (P \o R)[i + 1]
  BY <1>3, <1>4, HeadTailProperties
<1>6. /\ Tail(P) \o R \in Seq(S) /\ Len(Tail(P) \o R) = Len(P) - 1 + Len(R)
      /\ \A i \in 1 .. Len(P) - 1 + Len(R) :
           (Tail(P) \o R)[i] = IF i <= Len(P) - 1 THEN Tail(P)[i] ELSE R[i - (Len(P) - 1)]
  BY <1>1, ConcatProperties
<1>7. Tail(P \o R) = Tail(P) \o R
  <2>1. Len(Tail(P \o R)) = Len(Tail(P) \o R)
    BY <1>2, <1>3, <1>5, <1>6
  <2>2. ASSUME NEW i \in 1 .. Len(Tail(P \o R)) PROVE Tail(P \o R)[i] = (Tail(P) \o R)[i]
    BY <1>1, <1>2, <1>3, <1>5, <1>6
  <2> QED BY <1>5, <1>6, <2>1, <2>2, SeqEqual
<1>8. e \o Tail(P) \in Seq(S) /\ (e \o Tail(P)) \o R = e \o (Tail(P) \o R)
  BY <1>1, ConcatProperties, ConcatAssociative
<1> QED BY <1>1, <1>2, <1>3, <1>4, <1>5, <1>7, <1>8

\* The first call of a list is replaced whatever comes after the list.
LEMMA TailThrough ==
  ASSUME NEW S, NEW P \in Seq(S), NEW R \in Seq(S), NEW e \in Seq(S), P # <<>>
  PROVE  e \o Tail(P \o R) = (e \o Tail(P)) \o R
<1>1. Tail(P) \in Seq(S) /\ Tail(P \o R) = Tail(P) \o R
  BY HeadOfPrefix
<1>2. (e \o Tail(P)) \o R = e \o (Tail(P) \o R)
  BY <1>1, ConcatAssociative
<1> QED BY <1>1, <1>2

\* A list is a prefix of itself with more behind it.
LEMMA PrefixOfJoin ==
  ASSUME NEW S, NEW P \in Seq(S), NEW R \in Seq(S)
  PROVE  P \in Prefixes(P \o R)
<1>1. Len(P) \in Nat /\ Len(R) \in Nat
  BY LenProperties
<1>2. /\ P \o R \in Seq(S) /\ Len(P \o R) = Len(P) + Len(R)
      /\ \A i \in 1 .. Len(P) + Len(R) : (P \o R)[i] = IF i <= Len(P) THEN P[i] ELSE R[i - Len(P)]
  BY ConcatProperties
<1> DEFINE Q == SubSeq(P \o R, 1, Len(P))
<1>3. \A i \in 1 .. Len(P) : (P \o R)[i] \in S
  BY <1>1, <1>2, ElementOfSeq
<1>4. /\ Q \in Seq(S) /\ Len(Q) = Len(P)
      /\ \A i \in 1 .. Len(P) : Q[i] = (P \o R)[i]
  <2>1. /\ Q \in Seq(S) /\ Len(Q) = IF 1 <= Len(P) THEN Len(P) - 1 + 1 ELSE 0
        /\ \A i \in 1 .. Len(P) - 1 + 1 : Q[i] = (P \o R)[1 + i - 1]
    BY <1>1, <1>3, SubSeqProperties
  <2> QED BY <1>1, <2>1
<1>5. Q = P
  <2>1. \A i \in 1 .. Len(Q) : Q[i] = P[i]
    BY <1>1, <1>2, <1>4
  <2> QED BY <1>4, <2>1, SeqEqual
<1>6. Len(P) \in 0 .. Len(P \o R)
  BY <1>1, <1>2
<1> QED BY <1>5, <1>6 DEF Prefixes

Methods == PassesOn \cup {"doStep", "doInitialStep", "advance"}
AllCalls == CallsOf(Methods)

\* Calls of some methods are calls.
LEMMA CallsAreCalls ==
  ASSUME NEW M \in SUBSET Methods
  PROVE  CallsOf(M) \subseteq AllCalls /\ Seq(CallsOf(M)) \subseteq Seq(AllCalls)
<1>1. CallsOf(M) \subseteq AllCalls
  BY DEF CallsOf, AllCalls
<1> QED BY <1>1, SeqMonotonic

\* A call reaches its own node, and nodes only.
LEMMA ReachesNodes ==
  ASSUME NEW c \in AllCalls
  PROVE  Reaches(c) \subseteq Nodes /\ c.of \in Reaches(c)
BY InsideClosed DEF Reaches, AllCalls, CallsOf

\* Who is awaiting a list of calls: nobody if it is empty, otherwise those of
\* its parts.
LEMMA AwaitingParts ==
  ASSUME NEW S, NEW P \in Seq(S), NEW Q \in Seq(S)
  PROVE  /\ Awaiting(<<>>) = {}
         /\ Awaiting(P \o Q) = Awaiting(P) \cup Awaiting(Q)
         /\ P # <<>> => Awaiting(P) = Reaches(Head(P)) \cup Awaiting(Tail(P))
<1>1. Awaiting(<<>>) = {}
  BY DEF Awaiting
<1>2. Awaiting(P \o Q) = Awaiting(P) \cup Awaiting(Q)
  <2>1. /\ P \o Q \in Seq(S) /\ Len(P \o Q) = Len(P) + Len(Q)
        /\ \A i \in 1 .. Len(P) + Len(Q) : (P \o Q)[i] = IF i <= Len(P) THEN P[i] ELSE Q[i - Len(P)]
    BY ConcatProperties
  <2>2. /\ Len(P) \in Nat /\ Len(Q) \in Nat /\ DOMAIN P = 1 .. Len(P) /\ DOMAIN Q = 1 .. Len(Q)
        /\ DOMAIN (P \o Q) = 1 .. Len(P) + Len(Q)
    BY <2>1, LenProperties
  <2>3. ASSUME NEW i \in DOMAIN (P \o Q)
        PROVE  Reaches((P \o Q)[i]) \subseteq Awaiting(P) \cup Awaiting(Q)
    <3>1. CASE i <= Len(P)
      BY <2>1, <2>2, <2>3, <3>1 DEF Awaiting
    <3>2. CASE ~ (i <= Len(P))
      <4>1. i - Len(P) \in DOMAIN Q /\ (P \o Q)[i] = Q[i - Len(P)]
        BY <2>1, <2>2, <2>3, <3>2
      <4> QED BY <4>1 DEF Awaiting
    <3> QED BY <3>1, <3>2
  <2>4. ASSUME NEW i \in DOMAIN P
        PROVE  Reaches(P[i]) \subseteq Awaiting(P \o Q)
    <3>1. i \in DOMAIN (P \o Q) /\ (P \o Q)[i] = P[i]
      BY <2>1, <2>2, <2>4
    <3> QED BY <3>1 DEF Awaiting
  <2>5. ASSUME NEW i \in DOMAIN Q
        PROVE  Reaches(Q[i]) \subseteq Awaiting(P \o Q)
    <3>1. i + Len(P) \in DOMAIN (P \o Q) /\ (P \o Q)[i + Len(P)] = Q[i]
      BY <2>1, <2>2, <2>5
    <3> QED BY <3>1 DEF Awaiting
  <2>6. Awaiting(P \o Q) \subseteq Awaiting(P) \cup Awaiting(Q)
    BY <2>3 DEF Awaiting
  <2>7. Awaiting(P) \subseteq Awaiting(P \o Q)
    BY <2>4 DEF Awaiting
  <2>8. Awaiting(Q) \subseteq Awaiting(P \o Q)
    BY <2>5 DEF Awaiting
  <2> QED BY <2>6, <2>7, <2>8
<1>3. ASSUME P # <<>> PROVE Awaiting(P) = Reaches(Head(P)) \cup Awaiting(Tail(P))
  <2>1. /\ Head(P) = P[1] /\ Tail(P) \in Seq(S) /\ Len(Tail(P)) = Len(P) - 1
        /\ \A i \in 1 .. Len(Tail(P)) : Tail(P)[i] = P[i + 1]
    BY <1>3, HeadTailProperties
  <2>2. /\ Len(P) \in Nat \ {0} /\ DOMAIN P = 1 .. Len(P) /\ DOMAIN Tail(P) = 1 .. Len(P) - 1
    BY <1>3, <2>1, LenProperties, EmptySeq
  <2>3. ASSUME NEW i \in DOMAIN P
        PROVE  Reaches(P[i]) \subseteq Reaches(Head(P)) \cup Awaiting(Tail(P))
    <3>1. CASE i = 1
      BY <2>1, <3>1
    <3>2. CASE i # 1
      <4>1. i - 1 \in DOMAIN Tail(P) /\ Tail(P)[i - 1] = P[i]
        BY <2>1, <2>2, <2>3, <3>2
      <4> QED BY <4>1 DEF Awaiting
    <3> QED BY <3>1, <3>2
  <2>4. ASSUME NEW i \in DOMAIN Tail(P)
        PROVE  Reaches(Tail(P)[i]) \subseteq Awaiting(P)
    <3>1. i + 1 \in DOMAIN P /\ Tail(P)[i] = P[i + 1]
      BY <2>1, <2>2, <2>4
    <3> QED BY <3>1 DEF Awaiting
  <2>5. Reaches(Head(P)) \subseteq Awaiting(P)
    BY <2>1, <2>2 DEF Awaiting
  <2>6. Awaiting(P) \subseteq Reaches(Head(P)) \cup Awaiting(Tail(P))
    BY <2>3 DEF Awaiting
  <2>7. Awaiting(Tail(P)) \subseteq Awaiting(P)
    BY <2>4 DEF Awaiting
  <2> QED BY <2>5, <2>6, <2>7
<1> QED BY <1>1, <1>2, <1>3

\* No simulation is reached by two calls of P.
Apart(P) == \A i, j \in DOMAIN P : i # j => Reaches(P[i]) \cap Reaches(P[j]) \cap Simulations = {}

\* Of calls that reach no simulation twice the first reaches none of those the
\* rest reaches.
LEMMA ApartTail ==
  ASSUME NEW S, NEW P \in Seq(S), P # <<>>, Apart(P)
  PROVE  Apart(Tail(P)) /\ Reaches(Head(P)) \cap Awaiting(Tail(P)) \cap Simulations = {}
<1>1. /\ Head(P) = P[1] /\ Tail(P) \in Seq(S) /\ Len(Tail(P)) = Len(P) - 1
      /\ \A i \in 1 .. Len(Tail(P)) : Tail(P)[i] = P[i + 1]
  BY HeadTailProperties
<1>2. /\ Len(P) \in Nat \ {0} /\ DOMAIN P = 1 .. Len(P) /\ DOMAIN Tail(P) = 1 .. Len(P) - 1
  BY <1>1, LenProperties, EmptySeq
<1>3. ASSUME NEW i \in DOMAIN Tail(P), NEW j \in DOMAIN Tail(P), i # j
      PROVE  Reaches(Tail(P)[i]) \cap Reaches(Tail(P)[j]) \cap Simulations = {}
  <2>1. i + 1 \in DOMAIN P /\ j + 1 \in DOMAIN P /\ i + 1 # j + 1
    BY <1>2, <1>3
  <2>2. Tail(P)[i] = P[i + 1] /\ Tail(P)[j] = P[j + 1]
    BY <1>1, <1>2, <1>3
  <2> QED BY <2>1, <2>2 DEF Apart
<1>4. ASSUME NEW i \in DOMAIN Tail(P)
      PROVE  Reaches(Head(P)) \cap Reaches(Tail(P)[i]) \cap Simulations = {}
  <2>1. 1 \in DOMAIN P /\ i + 1 \in DOMAIN P /\ i + 1 # 1 /\ Tail(P)[i] = P[i + 1]
    BY <1>1, <1>2, <1>4
  <2> QED BY <1>1, <2>1 DEF Apart
<1> QED BY <1>3, <1>4 DEF Apart, Awaiting

\* Two such lists that reach no simulation in common make another.
LEMMA ApartJoin ==
  ASSUME NEW S, NEW P \in Seq(S), NEW Q \in Seq(S), Apart(P), Apart(Q),
         Awaiting(P) \cap Awaiting(Q) \cap Simulations = {}
  PROVE  Apart(P \o Q)
<1>1. /\ P \o Q \in Seq(S) /\ Len(P \o Q) = Len(P) + Len(Q)
      /\ \A i \in 1 .. Len(P) + Len(Q) : (P \o Q)[i] = IF i <= Len(P) THEN P[i] ELSE Q[i - Len(P)]
  BY ConcatProperties
<1>2. /\ Len(P) \in Nat /\ Len(Q) \in Nat /\ DOMAIN P = 1 .. Len(P) /\ DOMAIN Q = 1 .. Len(Q)
      /\ DOMAIN (P \o Q) = 1 .. Len(P) + Len(Q)
  BY <1>1, LenProperties
<1>3. ASSUME NEW i \in DOMAIN (P \o Q), i > Len(P)
      PROVE  i - Len(P) \in DOMAIN Q /\ (P \o Q)[i] = Q[i - Len(P)]
  BY <1>1, <1>2, <1>3
<1>4. ASSUME NEW i \in DOMAIN (P \o Q), ~ (i > Len(P))
      PROVE  i \in DOMAIN P /\ (P \o Q)[i] = P[i]
  BY <1>1, <1>2, <1>4
<1>5. ASSUME NEW i \in DOMAIN P, NEW j \in DOMAIN Q
      PROVE  /\ Reaches(P[i]) \cap Reaches(Q[j]) \cap Simulations = {}
             /\ Reaches(Q[j]) \cap Reaches(P[i]) \cap Simulations = {}
  <2>1. Reaches(P[i]) \subseteq Awaiting(P) /\ Reaches(Q[j]) \subseteq Awaiting(Q)
    BY DEF Awaiting
  <2> QED BY <2>1
<1> SUFFICES ASSUME NEW i \in DOMAIN (P \o Q), NEW j \in DOMAIN (P \o Q), i # j
             PROVE  Reaches((P \o Q)[i]) \cap Reaches((P \o Q)[j]) \cap Simulations = {}
  BY DEF Apart
<1>6. CASE i > Len(P) /\ j > Len(P)
  <2>1. i - Len(P) # j - Len(P)
    BY <1>2
  <2> QED BY <1>3, <1>6, <2>1 DEF Apart
<1>7. CASE ~ (i > Len(P)) /\ ~ (j > Len(P))
  BY <1>4, <1>7 DEF Apart
<1>8. CASE i > Len(P) /\ ~ (j > Len(P))
  BY <1>3, <1>4, <1>5, <1>8
<1>9. CASE ~ (i > Len(P)) /\ j > Len(P)
  BY <1>3, <1>4, <1>5, <1>9
<1> QED BY <1>6, <1>7, <1>8, <1>9

\* The last call stays the last when calls before it make way or are dropped.
LEMMA LastStays ==
  ASSUME NEW S, NEW e \in Seq(S), NEW P \in Seq(S), P # <<>>
  PROVE  /\ e \o P # <<>> /\ (e \o P)[Len(e \o P)] = P[Len(P)]
         /\ Tail(P) # <<>> => Tail(P)[Len(Tail(P))] = P[Len(P)]
         /\ Tail(P) = <<>> => Head(P) = P[Len(P)]
<1>1. /\ e \o P \in Seq(S) /\ Len(e \o P) = Len(e) + Len(P)
      /\ \A i \in 1 .. Len(e) + Len(P) : (e \o P)[i] = IF i <= Len(e) THEN e[i] ELSE P[i - Len(e)]
  BY ConcatProperties
<1>2. Len(e) \in Nat /\ Len(P) \in Nat \ {0}
  BY LenProperties, EmptySeq
<1>3. /\ Head(P) = P[1] /\ Tail(P) \in Seq(S) /\ Len(Tail(P)) = Len(P) - 1
      /\ \A i \in 1 .. Len(Tail(P)) : Tail(P)[i] = P[i + 1]
  BY HeadTailProperties
<1>4. e \o P # <<>>
  BY <1>1, <1>2, EmptySeq
<1>5. (e \o P)[Len(e \o P)] = P[Len(P)]
  BY <1>1, <1>2
<1>6. ASSUME Tail(P) # <<>> PROVE Tail(P)[Len(Tail(P))] = P[Len(P)]
  <2>1. Len(Tail(P)) \in Nat \ {0}
    BY <1>3, <1>6, EmptySeq
  <2> QED BY <1>2, <1>3, <2>1
<1>7. ASSUME Tail(P) = <<>> PROVE Head(P) = P[Len(P)]
  <2>1. Len(P) - 1 = 0
    BY <1>3, <1>7, EmptySeq
  <2>2. Len(P) = 1
    BY <1>2, <2>1
  <2> QED BY <1>3, <2>2
<1> QED BY <1>4, <1>5, <1>6, <1>7

\* Nothing but the root has the root inside.
LEMMA RootAlone ==
  ASSUME NEW x \in Nodes, Root \in Inside[x]
  PROVE  x = Root
<1>1. \A s \in Simulations : Root \notin Range(Members[s])
  BY TreeAssumption
<1> QED BY <1>1, Upwards

-----------------------------------------------------------------------------
(* Calls on a simulation                                                   *)

\* Calling a method of all members is a list of calls, one for each member.
LEMMA CallsFacts ==
  ASSUME NEW s \in Simulations, NEW method
  PROVE  LET Q == Calls(method, s) IN
         /\ Q \in Seq(CallsOf({method}))
         /\ DOMAIN Q = DOMAIN Members[s]
         /\ \A i \in DOMAIN Q : Q[i].method = method /\ Q[i].of = Members[s][i]
<1> DEFINE Q == Calls(method, s)
<1>1. Members[s] \in Seq(Nodes)
  BY TreeAssumption
<1>2. Len(Members[s]) \in Nat /\ DOMAIN Members[s] = 1 .. Len(Members[s])
  BY <1>1, LenProperties
<1>3. /\ DOMAIN Q = 1 .. Len(Members[s])
      /\ \A i \in DOMAIN Q : Q[i] = Call(method, Members[s][i])
  BY <1>2 DEF Calls
<1>4. \A i \in 1 .. Len(Members[s]) : Q[i] \in CallsOf({method})
  <2> SUFFICES ASSUME NEW i \in 1 .. Len(Members[s]) PROVE Q[i] \in CallsOf({method})
    OBVIOUS
  <2>1. Members[s][i] \in Nodes
    BY <1>1, ElementOfSeq
  <2>2. Q[i] = [method |-> method, of |-> Members[s][i], iter |-> 0]
    BY <1>2, <1>3 DEF Call
  <2> HIDE DEF Q
  <2> QED BY <2>1, <2>2 DEF CallsOf
<1>5. Q \in Seq(CallsOf({method}))
  <2>1. Q = [i \in 1 .. Len(Members[s]) |-> Q[i]]
    BY <1>2, <1>3 DEF Calls
  <2>2. Q \in [1 .. Len(Members[s]) -> CallsOf({method})]
    BY <1>4, <2>1
  <2> QED BY <1>2, <2>2, SeqDef
<1>6. \A i \in DOMAIN Q : Q[i].method = method /\ Q[i].of = Members[s][i]
  <2> SUFFICES ASSUME NEW i \in DOMAIN Q PROVE Q[i].method = method /\ Q[i].of = Members[s][i]
    OBVIOUS
  <2>1. Q[i] = [method |-> method, of |-> Members[s][i], iter |-> 0]
    BY <1>3 DEF Call
  <2> HIDE DEF Q
  <2> QED BY <2>1
<1> QED BY <1>2, <1>3, <1>5, <1>6

\* The members, with all that is inside them
LEMMA CallsReach ==
  ASSUME NEW s \in Simulations, NEW method \in Methods \ {"advance"}
  PROVE  LET Q == Calls(method, s) IN
         /\ Apart(Q)
         /\ Awaiting(Q) = Inside[s] \ {s}
<1> DEFINE Q == Calls(method, s)
<1>1. /\ DOMAIN Q = DOMAIN Members[s]
      /\ \A i \in DOMAIN Q : Q[i].method = method /\ Q[i].of = Members[s][i]
  BY CallsFacts
<1>2. \A i \in DOMAIN Q : Reaches(Q[i]) = Inside[Members[s][i]]
  BY <1>1 DEF Reaches
<1>3. Apart(Q)
  BY <1>1, <1>2, MembersApart DEF Apart
<1>4. Awaiting(Q) = UNION {Inside[y] : y \in Range(Members[s])}
  BY <1>1, <1>2 DEF Awaiting, Range
<1>5. s \notin UNION {Inside[y] : y \in Range(Members[s])}
  BY NoCycle
<1> QED BY <1>3, <1>4, <1>5, InsideSimulation

\* What a simulation passes a call on to reaches what the call reaches, each
\* simulation once, its own clock after its members.
LEMMA PassedOnFacts ==
  ASSUME NEW c \in CallsOf(PassesOn), c.of \in Simulations
  PROVE  /\ PassedOn(c) \in Seq(AllCalls)
         /\ c.method # "doStepPostprocessing" =>
              /\ PassedOn(c) = Calls(c.method, c.of)
              /\ PassedOn(c) \in Seq(CallsOf({c.method}))
              /\ Awaiting(PassedOn(c)) = Reaches(c) \ {c.of}
         /\ c.method = "doStepPostprocessing" =>
              /\ PassedOn(c) = Calls(c.method, c.of) \o <<Call("advance", c.of)>>
              /\ PassedOn(c) \in Seq(CallsOf({c.method, "advance"}))
              /\ PassedOn(c) # <<>> /\ PassedOn(c)[Len(PassedOn(c))] = Call("advance", c.of)
              /\ Awaiting(PassedOn(c)) = Reaches(c)
         /\ Apart(PassedOn(c))
         /\ \A i \in DOMAIN PassedOn(c) : PassedOn(c)[i].method = "advance" =>
              c.method = "doStepPostprocessing" /\ PassedOn(c)[i].of = c.of
<1> DEFINE s == c.of
           Q == Calls(c.method, s)
           A == <<Call("advance", s)>>
<1>1. c.method \in PassesOn /\ c.method \in Methods \ {"advance"} /\ s \in Nodes
  BY DEF CallsOf, Methods, PassesOn
<1>2. /\ Q \in Seq(CallsOf({c.method})) /\ DOMAIN Q = DOMAIN Members[s]
      /\ \A i \in DOMAIN Q : Q[i].method = c.method
  BY CallsFacts
<1>3. Apart(Q) /\ Awaiting(Q) = Inside[s] \ {s}
  BY <1>1, CallsReach
<1>4. Reaches(c) = Inside[s] /\ s \in Inside[s]
  BY <1>1, InsideClosed DEF Reaches
<1>5. Q \in Seq(AllCalls)
  BY <1>1, <1>2, CallsAreCalls
<1>6. CASE c.method # "doStepPostprocessing"
  <2>1. PassedOn(c) = Q \o <<>>
    BY <1>6 DEF PassedOn
  <2>2. PassedOn(c) = Q
    BY <1>2, <2>1, ConcatEmptySeq
  <2>3. \A i \in DOMAIN Q : Q[i].method # "advance"
    BY <1>1, <1>2
  <2> QED BY <1>2, <1>3, <1>4, <1>5, <1>6, <2>2, <2>3
<1>7. CASE c.method = "doStepPostprocessing"
  <2>1. PassedOn(c) = Q \o A
    BY <1>7 DEF PassedOn
  <2>2. Call("advance", s) \in CallsOf({"advance"})
    BY <1>1 DEF Call, CallsOf
  <2>3. /\ A \in Seq(CallsOf({c.method, "advance"})) /\ A # <<>> /\ Len(A) = 1
        /\ A[1] = Call("advance", s) /\ A[Len(A)] = Call("advance", s)
    BY <2>2 DEF CallsOf
  <2>4. Q \in Seq(CallsOf({c.method, "advance"}))
    <3>1. CallsOf({c.method}) \subseteq CallsOf({c.method, "advance"})
      BY DEF CallsOf
    <3> QED BY <1>2, <3>1, SeqMonotonic
  <2>5. PassedOn(c) \in Seq(CallsOf({c.method, "advance"}))
    BY <2>1, <2>3, <2>4, ConcatProperties
  <2>6. PassedOn(c) \in Seq(AllCalls)
    BY <1>1, <2>5, CallsAreCalls DEF Methods
  <2>7. PassedOn(c) # <<>> /\ PassedOn(c)[Len(PassedOn(c))] = Call("advance", s)
    BY <2>1, <2>3, <2>4, LastStays
  <2>8. Reaches(Call("advance", s)) = {s}
    BY DEF Reaches, Call
  <2>9. DOMAIN A = {1}
    BY <2>3
  <2>10. Awaiting(A) = {s} /\ Apart(A)
    BY <2>3, <2>8, <2>9 DEF Awaiting, Apart
  <2>11. Awaiting(PassedOn(c)) = Reaches(c)
    <3>1. Awaiting(Q \o A) = Awaiting(Q) \cup Awaiting(A)
      BY <2>3, <2>4, AwaitingParts
    <3> QED BY <1>3, <1>4, <2>1, <2>10, <3>1
  <2>12. Apart(PassedOn(c))
    BY <1>3, <2>1, <2>3, <2>4, <2>10, ApartJoin
  <2>13. \A i \in DOMAIN PassedOn(c) : PassedOn(c)[i].method = "advance" => PassedOn(c)[i].of = s
    <3>1. /\ DOMAIN Q = 1 .. Len(Q) /\ Len(Q) \in Nat /\ DOMAIN (Q \o A) = 1 .. Len(Q) + 1
          /\ \A i \in 1 .. Len(Q) + 1 : (Q \o A)[i] = IF i <= Len(Q) THEN Q[i] ELSE A[i - Len(Q)]
      BY <2>3, <2>4, ConcatProperties, LenProperties
    <3>2. ASSUME NEW i \in 1 .. Len(Q) + 1, (Q \o A)[i].method = "advance" PROVE (Q \o A)[i].of = s
      <4>1. CASE i <= Len(Q)
        <5>1. i \in DOMAIN Q /\ (Q \o A)[i] = Q[i]
          BY <3>1, <3>2, <4>1
        <5>2. (Q \o A)[i].method = c.method
          BY <1>2, <5>1
        <5> QED BY <1>7, <3>2, <5>2
      <4>2. CASE ~ (i <= Len(Q))
        <5>1. i - Len(Q) = 1 /\ (Q \o A)[i] = A[i - Len(Q)]
          BY <3>1, <4>2
        <5>2. (Q \o A)[i] = Call("advance", s)
          BY <2>3, <5>1
        <5> QED BY <5>2 DEF Call
      <4> QED BY <4>1, <4>2
    <3> QED BY <2>1, <3>1, <3>2
  <2> QED BY <1>7, <2>1, <2>5, <2>6, <2>7, <2>11, <2>12, <2>13
<1> QED BY <1>6, <1>7

-----------------------------------------------------------------------------
(* The agenda                                                              *)

Going == phase \in {"initial", "step"}

\* The methods of a time step, and of the initialization, are three different
\* ones.
LEMMA MethodsDiffer ==
  ASSUME Going
  PROVE  /\ {Prepare, Repeat, Conclude} \subseteq Methods \ {"advance"}
         /\ Prepare \in PassesOn /\ Conclude \in PassesOn /\ Repeat \notin PassesOn
         /\ Repeat \in {"doStep", "doInitialStep"}
         /\ Prepare \notin {"doStep", "doInitialStep", "doStepPostprocessing", "doInitialPostprocessing"}
         /\ Conclude \notin {"doStep", "doInitialStep", "doStepPreprocessing"}
         /\ phase = "step" => /\ Prepare = "doStepPreprocessing" /\ Repeat = "doStep"
                              /\ Conclude = "doStepPostprocessing"
         /\ phase = "initial" => /\ Prepare = "doInitialization" /\ Repeat = "doInitialStep"
                                 /\ Conclude = "doInitialPostprocessing"
BY DEF Going, Prepare, Repeat, Conclude, Methods, PassesOn

RootCall(method, k) == [method |-> method, of |-> Root, iter |-> k]

\* The root is a simulation, and simulations are not models.
LEMMA RootIsNode == Root \in Nodes /\ Root \in Simulations /\ Root \notin Models /\ Simulations \cap Models = {}
BY TreeAssumption DEF Nodes

\* The two calls every step ends with.
LEMMA Ending ==
  ASSUME NEW c \in AllCalls, NEW method \in Methods
  PROVE  /\ Call(method, Root) \in AllCalls /\ Call(method, Root) \in CallsOf({method})
         /\ <<c, Call(method, Root)>> \in Seq(AllCalls)
         /\ <<c, Call(method, Root)>> # <<>>
         /\ Head(<<c, Call(method, Root)>>) = c
         /\ Tail(<<c, Call(method, Root)>>) = <<Call(method, Root)>>
         /\ Call(method, Root).of = Root /\ Call(method, Root).method = method
<1>1. Call(method, Root) \in AllCalls /\ Call(method, Root) \in CallsOf({method})
  BY RootIsNode DEF AllCalls, CallsOf, Call
<1> QED BY <1>1 DEF Call

\* While calls set up: the next is one of them, or the first iteration.
LEMMA SettingUpHead ==
  ASSUME Going, NEW P, SettingUp(P)
  PROVE  LET R == <<Call(Repeat, Root), Call(Conclude, Root)>> IN
         /\ P \in Seq(AllCalls) /\ R \in Seq(AllCalls) /\ agenda = P \o R /\ agenda # <<>>
         /\ P # <<>> => Begins = Head(P) /\ Begins \in CallsOf({Prepare}) /\ Begins.method = Prepare
         /\ P = <<>> => Iterating(<<>>)
<1> DEFINE R == <<Call(Repeat, Root), Call(Conclude, Root)>>
<1>1. P \in Seq(CallsOf({Prepare})) /\ P \in Seq(AllCalls)
  <2>1. {Prepare} \in SUBSET Methods
    BY MethodsDiffer
  <2> QED BY <2>1, CallsAreCalls DEF SettingUp
<1>2. R \in Seq(AllCalls) /\ R # <<>> /\ Call(Repeat, Root) \in CallsOf({Repeat})
  <2>1. Repeat \in Methods /\ Conclude \in Methods
    BY MethodsDiffer
  <2>2. Call(Repeat, Root) \in AllCalls /\ Call(Repeat, Root) \in CallsOf({Repeat})
    BY <2>1, RootIsNode DEF AllCalls, CallsOf, Call
  <2> QED BY <2>1, <2>2, Ending
<1>3. agenda = P \o R
  BY DEF SettingUp
<1>4. agenda # <<>>
  BY <1>1, <1>2, <1>3, LastStays
<1>5. ASSUME P # <<>>
      PROVE  Begins = Head(P) /\ Begins \in CallsOf({Prepare}) /\ Begins.method = Prepare
  <2>1. Begins = Head(P)
    BY <1>1, <1>2, <1>3, <1>5, HeadOfPrefix DEF Begins
  <2>2. Head(P) \in CallsOf({Prepare})
    BY <1>1, <1>5, HeadTailProperties
  <2> QED BY <2>1, <2>2 DEF CallsOf
<1>6. ASSUME P = <<>> PROVE Iterating(<<>>)
  <2>1. agenda = R
    BY <1>2, <1>3, <1>6, ConcatEmptySeq
  <2>2. agenda = <<>> \o R
    BY <1>2, <2>1, ConcatEmptySeq
  <2>3. Call(Repeat, Root) \in Range(agenda)
    <3>1. R[1] = Call(Repeat, Root) /\ 1 \in DOMAIN R
      OBVIOUS
    <3> QED BY <2>1, <3>1 DEF Range
  <2>4. Awaiting(<<>>) = {}
    BY DEF Awaiting
  <2>5. phase = "step" => \A m \in Models : setUp[m] = Attempted
    BY <1>6, <2>4 DEF SettingUp
  <2>6. <<>> \in Seq(CallsOf({Repeat}))
    BY EmptySeq
  <2>7. Call(Repeat, Root).of = Root
    BY DEF Call
  <2> QED BY <1>2, <2>2, <2>3, <2>5, <2>6, <2>7 DEF Iterating, SettingUp, AllSetUp
<1> QED BY <1>1, <1>2, <1>3, <1>4, <1>5, <1>6

\* While calls iterate: the next is one of them, or the iteration of the tree, c.
Around(P, c) ==
  /\ c \in CallsOf({Repeat}) /\ c.of = Root
  /\ agenda = P \o <<c, Call(Conclude, Root)>>

\* What is called next while a step is repeated.
LEMMA IteratingHead ==
  ASSUME Going, NEW P, NEW c, P \in Seq(CallsOf({Repeat})), Around(P, c)
  PROVE  LET R == <<c, Call(Conclude, Root)>> IN
         /\ P \in Seq(AllCalls) /\ R \in Seq(AllCalls) /\ agenda = P \o R /\ agenda # <<>>
         /\ P # <<>> => Begins = Head(P)
         /\ P = <<>> => Begins = c /\ agenda = R
         /\ Begins \in CallsOf({Repeat}) /\ Begins.method = Repeat
<1> DEFINE R == <<c, Call(Conclude, Root)>>
<1>1. P \in Seq(AllCalls) /\ c \in AllCalls
  <2>1. {Repeat} \in SUBSET Methods
    BY MethodsDiffer
  <2> QED BY <2>1, CallsAreCalls DEF Around
<1>2. R \in Seq(AllCalls) /\ R # <<>> /\ Head(R) = c
  BY <1>1, MethodsDiffer, Ending
<1>3. agenda = P \o R
  BY DEF Around
<1>4. agenda # <<>>
  BY <1>1, <1>2, <1>3, LastStays
<1>5. ASSUME P # <<>> PROVE Begins = Head(P) /\ Begins \in CallsOf({Repeat})
  <2>1. Begins = Head(P)
    BY <1>1, <1>2, <1>3, <1>5, HeadOfPrefix DEF Begins
  <2>2. Head(P) \in CallsOf({Repeat})
    BY <1>5, HeadTailProperties
  <2> QED BY <2>1, <2>2
<1>6. ASSUME P = <<>> PROVE Begins = c /\ agenda = R /\ Begins \in CallsOf({Repeat})
  <2>1. agenda = R
    BY <1>2, <1>3, <1>6, ConcatEmptySeq
  <2> QED BY <1>2, <2>1 DEF Begins, Around
<1>7. Begins \in CallsOf({Repeat}) => Begins.method = Repeat
  BY DEF CallsOf
<1> QED BY <1>1, <1>2, <1>3, <1>4, <1>5, <1>6, <1>7

\* The calls of an iteration are found in the agenda they are part of.
LEMMA IterationFound ==
  ASSUME NEW P \in Seq(AllCalls), NEW c \in AllCalls, NEW d \in AllCalls
  PROVE  P \in Prefixes(P \o <<c, d>>) /\ c \in Range(P \o <<c, d>>)
<1> DEFINE R == <<c, d>>
<1>1. R \in Seq(AllCalls) /\ Len(R) = 2 /\ R[1] = c
  OBVIOUS
<1> HIDE DEF R
<1>2. Len(P) \in Nat
  BY LenProperties
<1>3. /\ P \o R \in Seq(AllCalls) /\ Len(P \o R) = Len(P) + Len(R)
      /\ \A i \in 1 .. Len(P) + Len(R) : (P \o R)[i] = IF i <= Len(P) THEN P[i] ELSE R[i - Len(P)]
  BY <1>1, ConcatProperties
<1>4. (P \o R)[Len(P) + 1] = R[Len(P) + 1 - Len(P)] /\ Len(P) + 1 - Len(P) = 1
  BY <1>1, <1>2, <1>3
<1>5. Len(P) + 1 \in DOMAIN (P \o R)
  BY <1>1, <1>2, <1>3, LenProperties
<1>6. c \in Range(P \o R)
  BY <1>1, <1>4, <1>5 DEF Range
<1> QED BY <1>1, <1>6, PrefixOfJoin DEF R

\* While a step is repeated everything is set up and the clocks agree.
LEMMA IteratingAround ==
  ASSUME NEW P, Iterating(P)
  PROVE  /\ P \in Seq(CallsOf({Repeat})) /\ AllSetUp /\ ClocksAgree
         /\ \E c : Around(P, c)
BY DEF Iterating, Around

\* A step after which the tree iterates, with the calls Q before the iteration of all
LEMMA WillIterate ==
  ASSUME Going, phase' = phase, NEW Q \in Seq(CallsOf({Repeat})), NEW c \in CallsOf({Repeat}), c.of = Root,
         agenda' = Q \o <<c, Call(Conclude, Root)>>, AllSetUp', ClocksAgree',
         DOMAIN clock' = Simulations, DOMAIN setUp' = Models, satisfied' \subseteq Models
  PROVE  IInv'
<1>1. /\ {Repeat} \in SUBSET Methods /\ Conclude \in Methods
      /\ Repeat' = Repeat /\ Conclude' = Conclude
  BY MethodsDiffer DEF Repeat, Conclude
<1>2. Q \in Seq(AllCalls) /\ c \in AllCalls /\ Call(Conclude, Root) \in AllCalls
  BY <1>1, CallsAreCalls, RootIsNode DEF AllCalls, CallsOf, Call
<1>3. Q \in Prefixes(agenda') /\ c \in Range(agenda')
  BY <1>2, IterationFound
<1>4. Iterating(Q)'
  BY <1>1, <1>3 DEF Iterating
<1> QED BY <1>3, <1>4 DEF IInv, Going, Phases

\* What is called next while a step is ended: a call of the method that ends
\* it, or a clock that advances.
LEMMA ConcludingHead ==
  ASSUME Going, Concluding, agenda # <<>>
  PROVE  /\ agenda \in Seq(AllCalls) /\ Begins \in AllCalls /\ Begins = agenda[1]
         /\ Begins.method \in {Conclude, "advance"} /\ Begins.of \in Nodes
         /\ Begins.method = "advance" => phase = "step" /\ Begins.of \in Simulations
         /\ Apart(agenda) /\ Apart(Tail(agenda))
         /\ Awaiting(agenda) = Reaches(Begins) \cup Awaiting(Tail(agenda))
         /\ Reaches(Begins) \cap Awaiting(Tail(agenda)) \cap Simulations = {}
         /\ Tail(agenda) \in Seq(CallsOf({Conclude, "advance"}))
         /\ \A i \in DOMAIN Tail(agenda) : Tail(agenda)[i].method = "advance" =>
              phase = "step" /\ Tail(agenda)[i].of \in Simulations
<1>1. agenda \in Seq(CallsOf({Conclude, "advance"})) /\ agenda \in Seq(AllCalls)
  <2>1. {Conclude, "advance"} \in SUBSET Methods
    BY MethodsDiffer DEF Methods
  <2> QED BY <2>1, CallsAreCalls DEF Concluding
<1>2. /\ Begins = agenda[1] /\ Begins \in CallsOf({Conclude, "advance"}) /\ Begins \in AllCalls
      /\ Tail(agenda) \in Seq(CallsOf({Conclude, "advance"})) /\ Len(Tail(agenda)) = Len(agenda) - 1
      /\ \A i \in 1 .. Len(Tail(agenda)) : Tail(agenda)[i] = agenda[i + 1]
  BY <1>1, HeadTailProperties DEF Begins
<1>3. Begins.method \in {Conclude, "advance"} /\ Begins.of \in Nodes
  BY <1>2 DEF CallsOf
<1>4. /\ Len(agenda) \in Nat \ {0} /\ DOMAIN agenda = 1 .. Len(agenda)
      /\ DOMAIN Tail(agenda) = 1 .. Len(agenda) - 1
  BY <1>1, <1>2, LenProperties, EmptySeq
<1>5. Begins.method = "advance" => phase = "step" /\ Begins.of \in Simulations
  BY <1>2, <1>4 DEF Concluding
<1>6. Apart(agenda)
  BY DEF Concluding, Apart
<1>7. /\ Apart(Tail(agenda)) /\ Reaches(Begins) \cap Awaiting(Tail(agenda)) \cap Simulations = {}
  BY <1>1, <1>6, ApartTail DEF Begins
<1>8. Awaiting(agenda) = Reaches(Begins) \cup Awaiting(Tail(agenda))
  BY <1>1, AwaitingParts DEF Begins
<1>9. ASSUME NEW i \in DOMAIN Tail(agenda), Tail(agenda)[i].method = "advance"
      PROVE  phase = "step" /\ Tail(agenda)[i].of \in Simulations
  <2>1. i + 1 \in DOMAIN agenda /\ Tail(agenda)[i] = agenda[i + 1]
    BY <1>2, <1>4
  <2> QED BY <1>9, <2>1 DEF Concluding
<1> QED BY <1>1, <1>2, <1>3, <1>5, <1>6, <1>7, <1>8, <1>9

\* Nothing else is called on a simulation that starts or ends.
LEMMA WhoIsCalled ==
  ASSUME IInv, agenda # <<>>
  PROVE  /\ phase \in {"initial", "step", "ending"}
         /\ phase = "ending" => /\ Begins.method = "doFinalization"
                                /\ agenda \in Seq(CallsOf({"doFinalization"}))
                                /\ Begins \in CallsOf({"doFinalization"})
         /\ Going => \/ \E P : SettingUp(P) \/ Iterating(P)
                     \/ Concluding
<1>1. phase \in {"initial", "step", "ending"}
  BY DEF IInv, Phases
<1>2. ASSUME phase = "ending"
      PROVE  /\ Begins.method = "doFinalization"
             /\ agenda \in Seq(CallsOf({"doFinalization"}))
             /\ Begins \in CallsOf({"doFinalization"})
  <2>1. agenda \in Seq(CallsOf({"doFinalization"}))
    BY <1>2 DEF IInv
  <2>2. Begins \in CallsOf({"doFinalization"})
    BY <2>1, HeadTailProperties DEF Begins
  <2> QED BY <2>1, <2>2 DEF CallsOf
<1> QED BY <1>1, <1>2 DEF IInv, Going

-----------------------------------------------------------------------------
(* The steps                                                               *)

\* doInitialization and its like are passed on to the members.
LEMMA PassOnStep ==
  ASSUME IInv, PassOn
  PROVE  IInv'
<1> DEFINE h == Begins
<1>1. /\ agenda # <<>> /\ h.method \in PassesOn /\ h.of \notin Models
      /\ agenda' = PassedOn(h) \o Tail(agenda)
      /\ UNCHANGED <<phase, clock, dtNew, failures, refusals, setUp, satisfied>>
  BY DEF PassOn, OnModel
<1>2. /\ Prepare' = Prepare /\ Repeat' = Repeat /\ Conclude' = Conclude /\ Attempted' = Attempted
      /\ (AllSetUp' <=> AllSetUp) /\ (ClocksAgree' <=> ClocksAgree)
  BY <1>1 DEF Prepare, Repeat, Conclude, Attempted, AllSetUp, ClocksAgree
<1>3. CASE phase = "ending"
  <2>1. /\ agenda \in Seq(CallsOf({"doFinalization"})) /\ h \in CallsOf({"doFinalization"})
        /\ h.method = "doFinalization"
    BY <1>1, <1>3, WhoIsCalled
  <2>2. h \in CallsOf(PassesOn) /\ h.of \in Simulations
    BY <1>1, <2>1 DEF CallsOf, Nodes, PassesOn
  <2>3. PassedOn(h) \in Seq(CallsOf({"doFinalization"}))
    BY <2>1, <2>2, PassedOnFacts
  <2>4. agenda' \in Seq(CallsOf({"doFinalization"}))
    BY <1>1, <2>1, <2>3, HeadTailProperties, ConcatProperties
  <2> QED BY <1>1, <1>3, <2>4 DEF IInv
<1>4. ASSUME Going, NEW P, SettingUp(P) PROVE IInv'
  <2> DEFINE R == <<Call(Repeat, Root), Call(Conclude, Root)>>
  <2>1. /\ P \in Seq(AllCalls) /\ R \in Seq(AllCalls) /\ agenda = P \o R
        /\ P # <<>> => h = Head(P) /\ h \in CallsOf({Prepare}) /\ h.method = Prepare
        /\ P = <<>> => Iterating(<<>>)
    BY <1>4, SettingUpHead
  <2>2. P # <<>>
    <3> SUFFICES ASSUME P = <<>> PROVE FALSE
      OBVIOUS
    <3>1. Iterating(<<>>)
      BY <2>1
    <3>2. PICK c : Around(<<>>, c)
      BY <3>1, IteratingAround
    <3>3. <<>> \in Seq(CallsOf({Repeat}))
      BY EmptySeq
    <3>4. h.method = Repeat
      BY <1>4, <3>2, <3>3, IteratingHead
    <3> QED BY <1>1, <1>4, <3>4, MethodsDiffer
  <2>3. h = Head(P) /\ h \in CallsOf({Prepare}) /\ h.method = Prepare /\ h.of \in Simulations
    BY <1>1, <2>1, <2>2 DEF CallsOf, Nodes
  <2>4. h \in CallsOf(PassesOn) /\ Prepare # "doStepPostprocessing"
    BY <1>4, <2>3, MethodsDiffer DEF CallsOf
  <2>5. /\ PassedOn(h) \in Seq(AllCalls) /\ PassedOn(h) \in Seq(CallsOf({Prepare}))
        /\ Awaiting(PassedOn(h)) = Reaches(h) \ {h.of}
    BY <2>3, <2>4, PassedOnFacts
  <2>6. PICK Q : Q = PassedOn(Head(P)) \o Tail(P)
    OBVIOUS
  <2>p. PICK e : e = PassedOn(Head(P))
    OBVIOUS
  <2>e. e = PassedOn(h) /\ e \in Seq(AllCalls) /\ Q = e \o Tail(P)
    BY <2>3, <2>5, <2>6, <2>p
  <2> HIDE DEF R
  <2>7. agenda' = Q \o R
    <3>1. e \o Tail(P \o R) = (e \o Tail(P)) \o R
      <4>1. P \in Seq(AllCalls) /\ R \in Seq(AllCalls) /\ e \in Seq(AllCalls)
        BY <2>1, <2>e
      <4> HIDE DEF h
      <4> QED BY ONLY <2>2, <4>1, TailThrough
    <3>2. agenda' = e \o Tail(P \o R)
      BY <1>1, <2>1, <2>e
    <3> QED BY <2>e, <3>1, <3>2
  <2>8. Q \in Seq(CallsOf({Prepare})) /\ Q \in Seq(AllCalls)
    <3>1. P \in Seq(CallsOf({Prepare})) /\ Tail(P) \in Seq(CallsOf({Prepare})) /\ Tail(P) \in Seq(AllCalls)
      BY <2>1, <2>2, <1>4, HeadTailProperties DEF SettingUp
    <3> QED BY <2>3, <2>5, <2>6, <3>1, ConcatProperties
  <2>9. Awaiting(P) \cap Models \subseteq Awaiting(Q)
    <3>1. Awaiting(P) = Reaches(h) \cup Awaiting(Tail(P)) /\ Tail(P) \in Seq(AllCalls)
      BY <2>1, <2>2, <2>3, AwaitingParts, HeadTailProperties
    <3>2. Awaiting(Q) = Awaiting(e) \cup Awaiting(Tail(P))
      <4>1. e \in Seq(AllCalls) /\ Tail(P) \in Seq(AllCalls)
        BY <2>e, <3>1
      <4>2. ASSUME NEW T \in Seq(AllCalls) PROVE Awaiting(e \o T) = Awaiting(e) \cup Awaiting(T)
        BY <4>1, AwaitingParts
      <4> QED BY <2>e, <4>1, <4>2
    <3>3. Awaiting(e) = Reaches(h) \ {h.of}
      BY <2>5, <2>e
    <3> QED BY <1>1, <3>1, <3>2, <3>3
  <2>10. SettingUp(Q)'
    <3>1. phase' = "step" => \A m \in Models \ Awaiting(Q) : setUp'[m] = Attempted'
      BY <1>1, <1>2, <1>4, <2>9 DEF SettingUp
    <3> QED BY <1>2, <1>4, <2>7, <2>8, <3>1 DEF SettingUp, R
  <2>11. Q \in Prefixes(agenda')
    BY <2>1, <2>7, <2>8, PrefixOfJoin
  <2> QED BY <1>1, <1>4, <2>10, <2>11 DEF IInv, Going
<1>5. ASSUME Going, NEW P, Iterating(P) PROVE FALSE
  <2>1. PICK c : Around(P, c)
    BY <1>5, IteratingAround
  <2>2. h.method = Repeat
    BY <1>5, <2>1, IteratingAround, IteratingHead
  <2> QED BY <1>1, <1>5, <2>2, MethodsDiffer
<1>6. ASSUME Going, Concluding PROVE IInv'
  <2> DEFINE T == Tail(agenda)
  <2>1. /\ agenda \in Seq(AllCalls) /\ h \in AllCalls
        /\ h.method \in {Conclude, "advance"} /\ h.of \in Nodes
        /\ Apart(agenda) /\ Apart(T)
        /\ Awaiting(agenda) = Reaches(h) \cup Awaiting(T)
        /\ Reaches(h) \cap Awaiting(T) \cap Simulations = {}
        /\ T \in Seq(CallsOf({Conclude, "advance"}))
        /\ \A i \in DOMAIN T : T[i].method = "advance" => phase = "step" /\ T[i].of \in Simulations
    BY <1>1, <1>6, ConcludingHead
  <2>2. h \in CallsOf(PassesOn) /\ h.of \in Simulations /\ h.method = Conclude
    BY <1>1, <2>1 DEF CallsOf, AllCalls, Nodes, PassesOn
  <2> DEFINE e == PassedOn(h)
  <2>3. /\ e \in Seq(CallsOf({Conclude, "advance"})) /\ Apart(e)
        /\ Awaiting(e) \subseteq Reaches(h) /\ Reaches(h) \subseteq Awaiting(e) \cup {h.of}
        /\ phase = "step" => Awaiting(e) = Reaches(h) /\ e # <<>> /\ e[Len(e)] = Call("advance", h.of)
        /\ \A i \in DOMAIN e : e[i].method = "advance" => phase = "step" /\ e[i].of \in Simulations
    <3>1. CASE phase = "step"
      <4>1. Conclude = "doStepPostprocessing"
        BY <1>6, <3>1, MethodsDiffer
      <4> QED BY <2>2, <3>1, <4>1, PassedOnFacts
    <3>2. CASE phase # "step"
      <4>1. phase = "initial" /\ Conclude = "doInitialPostprocessing"
        BY <1>6, <3>2, MethodsDiffer DEF Going
      <4>2. CallsOf({Conclude}) \subseteq CallsOf({Conclude, "advance"})
        BY DEF CallsOf
      <4>3. e \in Seq(CallsOf({Conclude})) /\ Awaiting(e) = Reaches(h) \ {h.of} /\ Apart(e)
        BY <2>2, <4>1, PassedOnFacts
      <4>4. \A i \in DOMAIN e : e[i].method # "advance"
        BY <2>2, <4>1, PassedOnFacts
      <4>5. e \in Seq(CallsOf({Conclude, "advance"}))
        BY <4>2, <4>3, SeqMonotonic
      <4> HIDE DEF e
      <4> QED BY <3>2, <4>3, <4>4, <4>5
    <3> QED BY <3>1, <3>2
  <2>4. /\ agenda' = e \o T /\ agenda' \in Seq(CallsOf({Conclude, "advance"}))
        /\ Awaiting(agenda') = Awaiting(e) \cup Awaiting(T) /\ Apart(agenda')
    <3> HIDE DEF e
    <3>1. agenda' = e \o T
      BY <1>1 DEF e
    <3>2. Awaiting(e) \cap Awaiting(T) \cap Simulations = {}
      BY <2>1, <2>3
    <3>3. agenda' \in Seq(CallsOf({Conclude, "advance"}))
      BY <2>1, <2>3, <3>1, ConcatProperties
    <3>4. Awaiting(e \o T) = Awaiting(e) \cup Awaiting(T)
      <4>1. e \in Seq(CallsOf({Conclude, "advance"})) /\ T \in Seq(CallsOf({Conclude, "advance"}))
        BY <2>1, <2>3
      <4> HIDE DEF T
      <4> QED BY <4>1, AwaitingParts
    <3>5. Apart(e \o T)
      BY <2>1, <2>3, <3>2, ApartJoin
    <3> QED BY <3>1, <3>3, <3>4, <3>5
  <2>5. \A i \in DOMAIN agenda' : agenda'[i].method = "advance" => phase = "step" /\ agenda'[i].of \in Simulations
    <3> HIDE DEF e
    <3>1. /\ DOMAIN e = 1 .. Len(e) /\ DOMAIN T = 1 .. Len(T) /\ Len(e) \in Nat /\ Len(T) \in Nat
          /\ DOMAIN agenda' = 1 .. Len(e) + Len(T)
          /\ \A i \in 1 .. Len(e) + Len(T) : agenda'[i] = IF i <= Len(e) THEN e[i] ELSE T[i - Len(e)]
      BY <2>1, <2>3, <2>4, ConcatProperties, LenProperties
    <3> SUFFICES ASSUME NEW i \in DOMAIN agenda', agenda'[i].method = "advance"
                 PROVE  phase = "step" /\ agenda'[i].of \in Simulations
      OBVIOUS
    <3>2. CASE i <= Len(e)
      <4>1. i \in DOMAIN e /\ agenda'[i] = e[i]
        BY <3>1, <3>2
      <4> QED BY <2>3, <4>1
    <3>3. CASE ~ (i <= Len(e))
      <4>1. i - Len(e) \in DOMAIN T /\ agenda'[i] = T[i - Len(e)]
        BY <3>1, <3>3
      <4> QED BY <2>1, <4>1
    <3> QED BY <3>2, <3>3
  <2>6. ASSUME phase = "step" PROVE agenda' # <<>> /\ Root \in Reaches(agenda'[Len(agenda')])
    <3> HIDE DEF e
    <3>0. Root \in Reaches(agenda[Len(agenda)])
      BY <1>1, <1>6, <2>6 DEF Concluding
    <3>1. CASE T # <<>>
      <4>1. agenda' # <<>> /\ agenda'[Len(agenda')] = T[Len(T)]
        BY <2>1, <2>3, <2>4, <3>1, LastStays
      <4>2. T[Len(T)] = agenda[Len(agenda)]
        BY <1>1, <2>1, <3>1, LastStays
      <4> QED BY <3>0, <4>1, <4>2
    <3>2. CASE T = <<>>
      <4>1. agenda' = e
        BY <2>3, <2>4, <3>2, ConcatEmptySeq
      <4>2. h = agenda[Len(agenda)]
        BY <1>1, <2>1, <3>2, LastStays DEF Begins
      <4>3. Root \in Inside[h.of]
        BY <1>1, <3>0, <4>2 DEF Reaches, PassesOn
      <4>4. h.of = Root
        BY <2>1, <4>3, RootAlone
      <4>5. Reaches(Call("advance", Root)) = {Root}
        BY DEF Reaches, Call
      <4> QED BY <2>3, <2>6, <4>1, <4>4, <4>5
    <3> QED BY <3>1, <3>2
  <2>7. ASSUME phase = "initial" /\ agenda' = <<>> PROVE ClocksAgree'
    <3>1. ~PostRaises => \A s \in Simulations : clock[s] = clock[Root]
      BY <1>1, <1>6, <2>7 DEF Concluding
    <3> QED BY <1>2, <3>1 DEF ClocksAgree
  <2>8. ASSUME ~PostRaises, NEW s \in Simulations
        PROVE  clock[s] = IF phase = "initial" \/ s \in Awaiting(agenda') THEN clock[Root] ELSE Advanced(clock[Root])
    <3>1. clock[s] = IF phase = "initial" \/ s \in Awaiting(agenda) THEN clock[Root] ELSE Advanced(clock[Root])
      BY <1>1, <1>6, <2>8 DEF Concluding
    <3>2. phase = "step" => Awaiting(agenda') = Awaiting(agenda)
      BY <2>1, <2>3, <2>4
    <3> QED BY <1>6, <3>1, <3>2 DEF Going
  <2>9. Concluding'
    <3>1. Advanced(clock[Root])' = Advanced(clock[Root])
      BY <1>1 DEF Advanced
    <3>2. satisfied' = Models /\ AllSetUp'
      BY <1>1, <1>2, <1>6 DEF Concluding
    <3>3. agenda' = <<>> => ClocksAgree'
      BY <1>6, <2>6, <2>7 DEF Going
    <3>4. \A i, j \in DOMAIN agenda' : i # j => Reaches(agenda'[i]) \cap Reaches(agenda'[j]) \cap Simulations = {}
      BY <2>4 DEF Apart
    <3>5. ~PostRaises => \A s \in Simulations :
            clock'[s] = IF phase' = "initial" \/ s \in Awaiting(agenda') THEN clock'[Root] ELSE Advanced(clock[Root])'
      BY <1>1, <2>8, <3>1
    <3>6. phase' = "step" => Root \in Reaches(agenda'[Len(agenda')])
      BY <1>1, <2>6
    <3> HIDE DEF e, h
    <3> QED BY <1>1, <1>2, <2>4, <2>5, <3>2, <3>3, <3>4, <3>5, <3>6 DEF Concluding
  <2> QED BY <1>1, <1>6, <2>9 DEF IInv, Going
<1> QED BY <1>1, <1>3, <1>4, <1>5, <1>6, WhoIsCalled DEF Going

\* The first call of a list is taken whatever comes after the list.
LEMMA TailOfPrefix ==
  ASSUME NEW S, NEW P \in Seq(S), NEW R \in Seq(S), P # <<>>
  PROVE  Tail(P \o R) = Tail(P) \o R /\ Tail(P) \in Seq(S)
<1>1. P \in Seq(S)
  OBVIOUS
<1> QED BY <1>1, HeadOfPrefix

\* What concludes a step goes on when its next call has been made: that was a model's,
\* or the advance of a clock.
LEMMA ConcludingGoesOn ==
  ASSUME Going, Concluding, agenda # <<>>, agenda' = Tail(agenda), phase' = phase,
         satisfied' = satisfied,
         Tail(agenda) # <<>> => setUp' = setUp /\ Attempted' = Attempted,
         Tail(agenda) = <<>> => ClocksAgree',
         Tail(agenda) # <<>> /\ ~PostRaises => \A s \in Simulations :
           clock'[s] = IF phase = "initial" \/ s \in Awaiting(Tail(agenda))
                       THEN clock'[Root] ELSE Advanced(clock[Root])'
  PROVE  Concluding'
<1> DEFINE T == Tail(agenda)
<1>1. /\ agenda \in Seq(AllCalls) /\ Apart(T) /\ T \in Seq(CallsOf({Conclude, "advance"}))
      /\ \A i \in DOMAIN T : T[i].method = "advance" => phase = "step" /\ T[i].of \in Simulations
  BY ConcludingHead
<1>2. Conclude' = Conclude
  BY DEF Conclude
<1>3. T # <<>> => T[Len(T)] = agenda[Len(agenda)]
  BY <1>1, LastStays
<1>4. /\ phase = "step" => Root \in Reaches(agenda[Len(agenda)])
      /\ satisfied = Models /\ AllSetUp
  BY DEF Concluding
<1>5. T # <<>> => AllSetUp'
  BY <1>4 DEF AllSetUp
<1>6. \A i, j \in DOMAIN T : i # j => Reaches(T[i]) \cap Reaches(T[j]) \cap Simulations = {}
  BY <1>1 DEF Apart
<1>7. agenda' = T
  OBVIOUS
<1> HIDE DEF T
<1>8. /\ T # <<>> /\ ~PostRaises => \A s \in Simulations :
           clock'[s] = IF phase = "initial" \/ s \in Awaiting(T)
                       THEN clock'[Root] ELSE Advanced(clock[Root])'
      /\ T = <<>> => ClocksAgree'
  BY DEF T
<1> QED BY <1>1, <1>2, <1>3, <1>4, <1>5, <1>6, <1>7, <1>8 DEF Concluding

\* The clock of a simulation is advanced after its members.
LEMMA AdvanceStep ==
  ASSUME IInv, Advance
  PROVE  IInv'
<1>1. /\ agenda # <<>> /\ Begins.method = "advance" /\ agenda' = Tail(agenda)
      /\ clock' = [clock EXCEPT ![Begins.of] =
                     [time |-> @.time + dtNew, time_step |-> @.time_step + 1, dt |-> dtNew]]
      /\ UNCHANGED <<phase, dtNew, failures, refusals, setUp, satisfied>>
  BY DEF Advance, Calling
<1>2. Going
  BY <1>1, WhoIsCalled DEF Going
<1>3. ASSUME NEW P, SettingUp(P) PROVE FALSE
  <2>1. P # <<>> \/ Iterating(<<>>)
    BY <1>2, <1>3, SettingUpHead
  <2>2. CASE P # <<>>
    <3>1. Begins.method = Prepare
      BY <1>2, <1>3, <2>2, SettingUpHead
    <3> QED BY <1>1, <1>2, <3>1, MethodsDiffer
  <2>3. CASE Iterating(<<>>)
    <3>1. Begins.method = Repeat
      BY <1>2, <2>3, IteratingAround, IteratingHead
    <3> QED BY <1>1, <1>2, <3>1, MethodsDiffer
  <2> QED BY <2>1, <2>2, <2>3
<1>4. ASSUME NEW P, Iterating(P) PROVE FALSE
  <2>1. Begins.method = Repeat
    BY <1>2, <1>4, IteratingAround, IteratingHead
  <2> QED BY <1>1, <1>2, <2>1, MethodsDiffer
<1>5. Concluding
  BY <1>1, <1>2, <1>3, <1>4, WhoIsCalled
<1> DEFINE x == Begins.of
           T == Tail(agenda)
<1>6. /\ agenda \in Seq(AllCalls) /\ phase = "step" /\ x \in Simulations
      /\ Awaiting(agenda) = Reaches(Begins) \cup Awaiting(T)
      /\ Reaches(Begins) \cap Awaiting(T) \cap Simulations = {}
      /\ T \in Seq(CallsOf({Conclude, "advance"}))
  BY <1>1, <1>2, <1>5, ConcludingHead
<1>7. Reaches(Begins) = {x}
  BY <1>1 DEF Reaches
<1>8. /\ DOMAIN clock' = Simulations
      /\ \A s \in Simulations : clock'[s] = IF s = x THEN Advanced(clock[x]) ELSE clock[s]
  <2>1. DOMAIN clock = Simulations
    BY DEF IInv
  <2> QED BY <1>1, <1>6, <2>1 DEF Advanced
<1>9. /\ ~PostRaises => \A s \in Simulations :
           clock[s] = IF s \in Awaiting(agenda) THEN clock[Root] ELSE Advanced(clock[Root])
      /\ Root \in Reaches(agenda[Len(agenda)])
  BY <1>1, <1>5, <1>6 DEF Concluding
<1>10. CASE T # <<>>
  <2>1. T[Len(T)] = agenda[Len(agenda)]
    BY <1>1, <1>6, <1>10, LastStays
  <2>2. Root \in Awaiting(T)
    <3>1. Len(T) \in DOMAIN T
      BY <1>6, <1>10, LenProperties, EmptySeq
    <3> QED BY <1>9, <2>1, <3>1 DEF Awaiting
  <2>3. Root # x
    BY <1>6, <1>7, <2>2
  <2>4. clock'[Root] = clock[Root] /\ Attempted' = Attempted /\ Advanced(clock[Root])' = Advanced(clock[Root])
    BY <1>1, <1>8, <2>3, RootIsNode DEF Attempted, Advanced
  <2>5. ASSUME ~PostRaises, NEW s \in Simulations
        PROVE  clock'[s] = IF s \in Awaiting(T) THEN clock'[Root] ELSE Advanced(clock[Root])'
    <3>1. CASE s = x
      <4>1. s \in Awaiting(agenda) /\ s \notin Awaiting(T)
        BY <1>6, <1>7, <3>1
      <4>2. clock[s] = clock[Root]
        BY <1>9, <2>5, <4>1
      <4> QED BY <1>8, <2>4, <3>1, <4>1, <4>2
    <3>2. CASE s # x
      <4>1. s \in Awaiting(agenda) <=> s \in Awaiting(T)
        BY <1>6, <1>7, <3>2
      <4> QED BY <1>8, <1>9, <2>4, <2>5, <3>2, <4>1
    <3> QED BY <3>1, <3>2
  <2>6. Concluding'
    BY <1>1, <1>2, <1>5, <1>6, <1>10, <2>4, <2>5, ConcludingGoesOn
  <2> QED BY <1>1, <1>6, <1>8, <2>6 DEF IInv
<1>11. CASE T = <<>>
  <2>1. Begins = agenda[Len(agenda)]
    BY <1>1, <1>6, <1>11, LastStays DEF Begins
  <2>2. x = Root
    BY <1>7, <1>9, <2>1
  <2>3. Awaiting(T) = {}
    BY <1>11 DEF Awaiting
  <2>4. ASSUME ~PostRaises, NEW s \in Simulations PROVE clock'[s] = clock'[Root]
    <3>1. CASE s = Root
      BY <3>1
    <3>2. CASE s # Root
      <4>1. s \notin Awaiting(agenda)
        BY <1>6, <1>7, <2>2, <2>3, <3>2
      <4> QED BY <1>8, <1>9, <2>2, <2>4, <3>2, <4>1, RootIsNode
    <3> QED BY <3>1, <3>2
  <2>5. ClocksAgree'
    BY <2>4 DEF ClocksAgree
  <2>6. Concluding'
    BY <1>1, <1>2, <1>5, <1>6, <1>11, <2>5, ConcludingGoesOn
  <2> QED BY <1>1, <1>6, <1>8, <2>6 DEF IInv
<1> QED BY <1>10, <1>11

\* A method of a model returns.
LEMMA WorkStep ==
  ASSUME IInv, Work
  PROVE  IInv'
<1> DEFINE h == Begins
<1>1. /\ agenda # <<>> /\ h.of \in Models /\ agenda' = Tail(agenda)
      /\ setUp' = IF h.method = "doStepPreprocessing"
                  THEN [setUp EXCEPT ![h.of] = Attempted] ELSE setUp
      /\ satisfied' = IF h.method \in {"doStep", "doInitialStep"} THEN {} ELSE satisfied
      /\ UNCHANGED <<phase, clock, dtNew, failures, refusals>>
  BY DEF Work, OnModel
<1>2. /\ Prepare' = Prepare /\ Repeat' = Repeat /\ Conclude' = Conclude /\ Attempted' = Attempted
      /\ (ClocksAgree' <=> ClocksAgree)
  BY <1>1 DEF Prepare, Repeat, Conclude, Attempted, ClocksAgree
<1>3. DOMAIN setUp' = Models /\ satisfied' \subseteq Models /\ DOMAIN clock' = Simulations
  BY <1>1 DEF IInv
<1>4. Reaches(h) \cap Simulations = {} /\ (h.method # "advance" => Reaches(h) = {h.of})
  BY <1>1, InsideModel, RootIsNode DEF Reaches
<1>5. CASE phase = "ending"
  <2>1. agenda' \in Seq(CallsOf({"doFinalization"}))
    BY <1>1, <1>5, WhoIsCalled, HeadTailProperties
  <2> QED BY <1>1, <1>3, <1>5, <2>1 DEF IInv
<1>6. ASSUME Going, NEW P, NEW c, P \in Seq(CallsOf({Repeat})), Around(P, c), AllSetUp, ClocksAgree PROVE IInv'
  <2> DEFINE R == <<c, Call(Conclude, Root)>>
  <2>1. /\ P \in Seq(AllCalls) /\ R \in Seq(AllCalls) /\ agenda = P \o R
        /\ P = <<>> => h = c
        /\ h.method = Repeat
    BY <1>6, IteratingHead
  <2>2. P # <<>>
    BY <1>1, <1>6, <2>1, RootIsNode DEF Around
  <2>3. PICK Q : Q = Tail(P)
    OBVIOUS
  <2> HIDE DEF R
  <2>4. agenda' = Q \o R /\ Q \in Seq(CallsOf({Repeat}))
    BY <1>1, <1>6, <2>1, <2>2, <2>3, TailOfPrefix, HeadTailProperties
  <2>6. AllSetUp'
    BY <1>1, <1>2, <1>6, <2>1, MethodsDiffer DEF AllSetUp
  <2> QED BY <1>1, <1>2, <1>3, <1>6, <2>4, <2>6, WillIterate DEF Around, R
<1>7. ASSUME Going, NEW P, SettingUp(P) PROVE IInv'
  <2> DEFINE R == <<Call(Repeat, Root), Call(Conclude, Root)>>
  <2>1. /\ P \in Seq(AllCalls) /\ R \in Seq(AllCalls) /\ agenda = P \o R
        /\ P # <<>> => h = Head(P) /\ h \in CallsOf({Prepare}) /\ h.method = Prepare
        /\ P = <<>> => Iterating(<<>>)
    BY <1>7, SettingUpHead
  <2>2. CASE P = <<>>
    <3>1. PICK c : Around(<<>>, c)
      BY <2>1, <2>2, IteratingAround
    <3>2. <<>> \in Seq(CallsOf({Repeat})) /\ AllSetUp /\ ClocksAgree
      BY <2>1, <2>2, IteratingAround
    <3> QED BY <1>6, <1>7, <3>1, <3>2
  <2>3. CASE P # <<>>
    <3>1. PICK Q : Q = Tail(P)
      OBVIOUS
    <3> HIDE DEF R
    <3>2. agenda' = Q \o R /\ Q \in Seq(AllCalls)
      BY <1>1, <2>1, <2>3, <3>1, TailOfPrefix
    <3>3. Q \in Seq(CallsOf({Prepare}))
      <4>1. P \in Seq(CallsOf({Prepare}))
        BY <1>7 DEF SettingUp
      <4> QED BY <2>3, <3>1, <4>1, HeadTailProperties
    <3>4. Awaiting(P) = {h.of} \cup Awaiting(Q)
      <4>1. Awaiting(P) = Reaches(Head(P)) \cup Awaiting(Tail(P))
        BY <2>1, <2>3, AwaitingParts
      <4>2. h.method # "advance"
        BY <1>7, <2>1, <2>3, MethodsDiffer
      <4> QED BY <1>4, <2>1, <2>3, <3>1, <4>1, <4>2
    <3>5. phase = "step" => \A m \in Models \ Awaiting(Q) : setUp'[m] = Attempted
      <4> SUFFICES ASSUME phase = "step", NEW m \in Models, m \notin Awaiting(Q) PROVE setUp'[m] = Attempted
        OBVIOUS
      <4>1. setUp' = [setUp EXCEPT ![h.of] = Attempted] /\ DOMAIN setUp = Models
        BY <1>1, <1>7, <2>1, <2>3, MethodsDiffer DEF IInv
      <4>2. CASE m = h.of
        BY <4>1, <4>2
      <4>3. CASE m # h.of
        BY <1>7, <3>4, <4>1, <4>3 DEF SettingUp
      <4> QED BY <4>2, <4>3
    <3>6. SettingUp(Q)'
      BY <1>1, <1>2, <1>7, <3>2, <3>3, <3>5 DEF SettingUp, R
    <3>7. Q \in Prefixes(agenda')
      BY <2>1, <3>2, PrefixOfJoin
    <3> QED BY <1>1, <1>3, <1>7, <3>6, <3>7 DEF IInv, Going
  <2> QED BY <2>2, <2>3
<1>8. ASSUME Going, Concluding PROVE IInv'
  <2>1. /\ agenda \in Seq(AllCalls) /\ h.method \in {Conclude, "advance"}
        /\ h.method = "advance" => h.of \in Simulations
        /\ Awaiting(agenda) = Reaches(h) \cup Awaiting(Tail(agenda))
    BY <1>1, <1>8, ConcludingHead
  <2>2. h.method = Conclude /\ setUp' = setUp /\ satisfied' = satisfied
    BY <1>1, <1>8, <2>1, RootIsNode, MethodsDiffer
  <2>3. Advanced(clock[Root])' = Advanced(clock[Root])
    BY <1>1 DEF Advanced
  <2>4. ASSUME ~PostRaises, NEW s \in Simulations
        PROVE  clock'[s] = IF phase = "initial" \/ s \in Awaiting(Tail(agenda))
                           THEN clock'[Root] ELSE Advanced(clock[Root])'
    <3>1. clock[s] = IF phase = "initial" \/ s \in Awaiting(agenda) THEN clock[Root] ELSE Advanced(clock[Root])
      BY <1>1, <1>8, <2>4 DEF Concluding
    <3>2. s \in Awaiting(agenda) <=> s \in Awaiting(Tail(agenda))
      BY <1>4, <2>1
    <3> QED BY <1>1, <2>3, <3>1, <3>2
  <2>5. ASSUME Tail(agenda) = <<>> PROVE ClocksAgree'
    <3>1. CASE phase = "initial"
      BY <1>1, <2>4, <3>1 DEF ClocksAgree
    <3>2. CASE phase = "step"
      <4>1. h = agenda[Len(agenda)]
        BY <1>1, <2>1, <2>5, LastStays DEF Begins
      <4>2. Root \in Reaches(h)
        BY <1>1, <1>8, <3>2, <4>1 DEF Concluding
      <4> QED BY <1>4, <4>2, RootIsNode
    <3> QED BY <1>8, <3>1, <3>2 DEF Going
  <2>6. Concluding'
    <3> HIDE DEF h
    <3> QED BY <1>1, <1>2, <1>8, <2>2, <2>4, <2>5, ConcludingGoesOn
  <2> QED BY <1>1, <1>3, <1>8, <2>6 DEF IInv, Going
<1>9. ASSUME Going, NEW P, Iterating(P) PROVE IInv'
  <2>1. PICK c : Around(P, c)
    BY <1>9, IteratingAround
  <2> QED BY <1>6, <1>9, <2>1, IteratingAround
<1> QED BY <1>1, <1>5, <1>7, <1>8, <1>9, WhoIsCalled DEF Going

\* A simulation asks the models below it, and iterates its members once more or not.
LEMMA IterateStep ==
  ASSUME IInv, Iterate
  PROVE  IInv'
<1> DEFINE h == Begins
<1>1. /\ agenda # <<>> /\ h.of \notin Models /\ h.method \in {"doStep", "doInitialStep"}
      /\ UNCHANGED <<phase, clock, dtNew, failures, setUp>>
  BY DEF Iterate, OnModel, Calling
<1>2. PICK yes \in SUBSET Below[h.of] :
        /\ satisfied' = (satisfied \ Below[h.of]) \cup yes
        /\ \/ yes = Below[h.of] /\ agenda' = Tail(agenda)
           \/ agenda' = OnceMore(h) \o Tail(agenda)
  BY DEF Iterate, Terminates
<1>3. Going
  <2>1. h.method # "doFinalization"
    BY <1>1
  <2> QED BY <1>1, <2>1, WhoIsCalled DEF Going
<1>4. /\ Repeat' = Repeat /\ Conclude' = Conclude /\ Attempted' = Attempted
      /\ (AllSetUp' <=> AllSetUp) /\ (ClocksAgree' <=> ClocksAgree)
  BY <1>1 DEF Repeat, Conclude, Attempted, AllSetUp, ClocksAgree
<1>5. ASSUME Concluding PROVE FALSE
  BY <1>1, <1>3, <1>5, ConcludingHead, MethodsDiffer
<1>6. PICK P : Iterating(P)
  <2>1. ASSUME NEW P, SettingUp(P) PROVE Iterating(<<>>)
    BY <1>1, <1>3, <2>1, SettingUpHead, MethodsDiffer
  <2> QED BY <1>1, <1>3, <1>5, <2>1, WhoIsCalled
<1>7. PICK c : Around(P, c)
  BY <1>6, IteratingAround
<1>8. /\ P \in Seq(CallsOf({Repeat})) /\ AllSetUp /\ ClocksAgree
      /\ c \in CallsOf({Repeat}) /\ c.of = Root
  BY <1>6, <1>7, IteratingAround DEF Around
<1> DEFINE d == Call(Conclude, Root)
           R == <<c, d>>
<1>9. /\ P \in Seq(AllCalls) /\ R \in Seq(AllCalls) /\ agenda = P \o R
      /\ P # <<>> => h = Head(P)
      /\ P = <<>> => h = c /\ agenda = R
      /\ h \in CallsOf({Repeat}) /\ h.method = Repeat
  BY <1>3, <1>7, <1>8, IteratingHead
<1>10. h.of \in Simulations /\ h.of \in Nodes
  BY <1>1, <1>9 DEF CallsOf, Nodes
<1>11. /\ DOMAIN clock' = Simulations /\ DOMAIN setUp' = Models /\ satisfied' \subseteq Models
       /\ AllSetUp' /\ ClocksAgree' /\ Below[h.of] \subseteq Models
  <2>1. Below[h.of] \subseteq Models
    BY <1>10 DEF Below
  <2> QED BY <1>1, <1>2, <1>4, <1>8, <2>1 DEF IInv
<1>12. PICK g \in CallsOf({Repeat}) : g = [h EXCEPT !.iter = @ + 1] /\ g.of = h.of
  <2>1. [h EXCEPT !.iter = @ + 1] \in CallsOf({Repeat}) /\ [h EXCEPT !.iter = @ + 1].of = h.of
    BY <1>9 DEF CallsOf
  <2> QED BY <2>1
<1>13. PICK C \in Seq(CallsOf({Repeat})) : C = Calls(h.method, h.of)
  BY <1>9, <1>10, CallsFacts
<1>14. PICK e : e = OnceMore(h) /\ e = C \o <<g>>
  BY <1>12, <1>13 DEF OnceMore
<1>15. e \in Seq(CallsOf({Repeat})) /\ e \in Seq(AllCalls) /\ C \in Seq(AllCalls) /\ g \in AllCalls
  <2>1. e \in Seq(CallsOf({Repeat}))
    BY <1>14, ConcatProperties
  <2>2. {Repeat} \in SUBSET Methods
    BY <1>3, MethodsDiffer
  <2> QED BY <2>1, <2>2, CallsAreCalls
<1>16. c \in AllCalls /\ d \in AllCalls
  <2>1. {Repeat} \in SUBSET Methods /\ Conclude \in Methods
    BY <1>3, MethodsDiffer
  <2>2. c \in AllCalls
    BY <1>8, <2>1, CallsAreCalls
  <2> QED BY <2>1, <2>2, RootIsNode DEF AllCalls, CallsOf, Call
<1>17. CASE P # <<>>
  <2> HIDE DEF R, h
  <2>1. PICK T : T = Tail(P)
    OBVIOUS
  <2>2. /\ Tail(agenda) = T \o R /\ T \in Seq(AllCalls) /\ T \in Seq(CallsOf({Repeat}))
    BY <1>8, <1>9, <1>17, <2>1, TailOfPrefix, HeadTailProperties
  <2>3. CASE agenda' = Tail(agenda)
    BY <1>1, <1>3, <1>8, <1>11, <2>2, <2>3, WillIterate DEF R
  <2>4. CASE agenda' = OnceMore(h) \o Tail(agenda)
    <3>1. PICK Q : Q = e \o T
      OBVIOUS
    <3>2. Q \in Seq(CallsOf({Repeat}))
      BY <1>15, <2>2, <3>1, ConcatProperties
    <3>3. e \o (T \o R) = (e \o T) \o R
      <4>1. e \in Seq(AllCalls) /\ T \in Seq(AllCalls) /\ R \in Seq(AllCalls)
        BY <1>9, <1>15, <2>2
      <4> QED BY <4>1, ConcatAssociative
    <3>4. agenda' = Q \o R
      BY <1>14, <2>2, <2>4, <3>1, <3>3
    <3> QED BY <1>1, <1>3, <1>8, <1>11, <3>2, <3>4, WillIterate DEF R
  <2> QED BY <1>2, <2>3, <2>4
<1>18. CASE P = <<>>
  <2>1. /\ h = c /\ h.of = Root /\ Tail(agenda) = <<d>>
    BY <1>8, <1>9, <1>16, <1>18
  <2>2. CASE yes = Below[h.of] /\ agenda' = Tail(agenda)
    <3>1. satisfied' = Models
      BY <1>2, <2>1, <2>2, BelowRoot DEF IInv
    <3>2. agenda' = <<d>> /\ d.method = Conclude /\ d.of = Root
      BY <2>1, <2>2 DEF Call
    <3>3. d \in CallsOf({Conclude, "advance"}) /\ Conclude # "advance"
      BY <1>3, <1>16, <3>2, MethodsDiffer DEF AllCalls, CallsOf
    <3>4. Reaches(d) = Nodes
      BY <3>2, <3>3, TreeAssumption DEF Reaches
    <3> HIDE DEF d
    <3>5. /\ agenda' \in Seq(CallsOf({Conclude, "advance"})) /\ DOMAIN agenda' = {1} /\ agenda'[1] = d
          /\ Len(agenda') = 1 /\ agenda' # <<>>
      BY <3>2, <3>3
    <3>6. Awaiting(agenda') = Nodes
      BY <3>4, <3>5 DEF Awaiting
    <3>7. ~PostRaises => \A s \in Simulations : clock'[s] = clock'[Root] /\ s \in Awaiting(agenda')
      BY <1>11, <3>6 DEF ClocksAgree, Nodes
    <3>8. Concluding'
      BY <1>4, <1>11, <3>1, <3>2, <3>3, <3>4, <3>5, <3>7, RootIsNode DEF Concluding
    <3> QED BY <1>1, <1>3, <1>11, <3>8 DEF IInv, Going, Phases
  <2>3. CASE agenda' = OnceMore(h) \o Tail(agenda)
    <3> HIDE DEF h
    <3>1. agenda' = (C \o <<g>>) \o <<d>>
      BY <1>14, <2>1, <2>3
    <3>2. <<g>> \in Seq(AllCalls) /\ <<d>> \in Seq(AllCalls) /\ <<g>> \o <<d>> = <<g, d>>
      <4> HIDE DEF d
      <4>1. <<g>> \in Seq(AllCalls) /\ <<d>> \in Seq(AllCalls)
        BY <1>15, <1>16
      <4>2. /\ <<g>> \o <<d>> \in Seq(AllCalls) /\ Len(<<g>> \o <<d>>) = Len(<<g>>) + Len(<<d>>)
            /\ \A i \in 1 .. Len(<<g>>) + Len(<<d>>) :
                 (<<g>> \o <<d>>)[i] = IF i <= Len(<<g>>) THEN <<g>>[i] ELSE <<d>>[i - Len(<<g>>)]
        BY <4>1, ConcatProperties
      <4>3. <<g, d>> \in Seq(AllCalls) /\ Len(<<g, d>>) = 2
        BY <1>15, <1>16
      <4>4. Len(<<g>>) = 1 /\ Len(<<d>>) = 1 /\ <<g>>[1] = g /\ <<d>>[1] = d
        OBVIOUS
      <4>5. (<<g>> \o <<d>>)[1] = g /\ (<<g>> \o <<d>>)[2] = d
        BY <4>2, <4>4
      <4>6. \A i \in 1 .. 2 : (<<g>> \o <<d>>)[i] = <<g, d>>[i]
        BY <4>5
      <4>7. /\ Len(<<g>> \o <<d>>) = Len(<<g, d>>)
            /\ \A i \in 1 .. Len(<<g>> \o <<d>>) : (<<g>> \o <<d>>)[i] = <<g, d>>[i]
        BY <4>2, <4>3, <4>4, <4>6
      <4>8. <<g>> \o <<d>> = <<g, d>>
        BY <4>2, <4>3, <4>7, SeqEqual
      <4> QED BY <4>1, <4>8
    <3>3. agenda' = C \o (<<g>> \o <<d>>)
      BY <1>15, <3>1, <3>2, ConcatAssociative
    <3>4. agenda' = C \o <<g, d>>
      BY <3>2, <3>3
    <3>5. g.of = Root
      BY <1>12, <2>1
    <3> QED BY <1>1, <1>3, <1>11, <3>4, <3>5, WillIterate
  <2> QED BY <1>2, <2>2, <2>3
<1> QED BY <1>17, <1>18

-----------------------------------------------------------------------------
(* run                                                                     *)

\* A step is tried while all clocks agree.
LEMMA TryStep ==
  ASSUME IInv, Going, NEW dt, Try(dt), ClocksAgree
  PROVE  IInv'
<1>1. CASE dt > 0
  <2> DEFINE d == Call("doStepPreprocessing", Root)
             R == <<Call("doStep", Root), Call("doStepPostprocessing", Root)>>
  <2>1. phase' = "step" /\ agenda' = Attempt /\ satisfied' = {} /\ UNCHANGED <<clock, setUp>>
    BY <1>1 DEF Try
  <2>2. /\ Prepare' = "doStepPreprocessing" /\ Repeat' = "doStep" /\ Conclude' = "doStepPostprocessing"
    BY <2>1 DEF Prepare, Repeat, Conclude
  <2>3. d \in CallsOf({"doStepPreprocessing"}) /\ d \in AllCalls /\ d.of = Root
    BY RootIsNode DEF d, Call, CallsOf, AllCalls, Methods, PassesOn
  <2>4. R \in Seq(AllCalls)
    BY RootIsNode DEF Call, CallsOf, AllCalls, Methods, PassesOn
  <2>5. agenda' = <<d>> \o R
    BY <2>1 DEF Attempt
  <2>6. Awaiting(<<d>>) = Nodes
    <3>1. Reaches(d) = Nodes
      BY TreeAssumption DEF Reaches, Call
    <3> HIDE DEF d
    <3>2. DOMAIN <<d>> = {1} /\ <<d>>[1] = d
      OBVIOUS
    <3> QED BY <3>1, <3>2 DEF Awaiting
  <2>7. ClocksAgree'
    BY <2>1 DEF ClocksAgree
  <2>8. <<d>> \in Seq(CallsOf({"doStepPreprocessing"})) /\ <<d>> \in Seq(AllCalls)
    <3> HIDE DEF d
    <3> QED BY <2>3
  <2>9. <<d>> \in Prefixes(agenda')
    BY <2>4, <2>5, <2>8, PrefixOfJoin
  <2> HIDE DEF d
  <2>10. PICK P : P = <<d>>
    OBVIOUS
  <2>11. SettingUp(P)'
    BY <2>2, <2>5, <2>6, <2>7, <2>8, <2>10 DEF SettingUp, Nodes
  <2> QED BY <2>1, <2>9, <2>10, <2>11 DEF IInv, Phases
<1>2. CASE ~ (dt > 0)
  BY <1>2 DEF Try, IInv, Phases
<1> QED BY <1>1, <1>2

\* Giving up a step keeps the invariant,
LEMMA GivenUpStep ==
  ASSUME IInv, GivenUp
  PROVE  IInv'
BY DEF IInv, GivenUp, Phases

\* Between two steps all clocks agree.
LEMMA BetweenSteps ==
  ASSUME IInv, Going, agenda = <<>>
  PROVE  ClocksAgree
<1>1. ASSUME NEW P, SettingUp(P) PROVE FALSE
  BY <1>1, SettingUpHead
<1>2. ASSUME NEW P, Iterating(P) PROVE FALSE
  BY <1>2, IteratingAround, IteratingHead
<1>3. Concluding
  BY <1>1, <1>2 DEF IInv, Going
<1> QED BY <1>3 DEF Concluding

\* When a step fails, no clock has been advanced.
LEMMA WhenItFails ==
  ASSUME IInv, phase = "step", MayRaise
  PROVE  ClocksAgree
<1>1. Going /\ agenda # <<>>
  BY DEF Going, MayRaise
<1>2. ASSUME Concluding, ~PostRaises PROVE FALSE
  <2>1. /\ Begins.method \in {Conclude, "advance"} /\ Conclude = "doStepPostprocessing"
        /\ Begins.method = "advance" => Begins.of \in Simulations
    BY <1>1, <1>2, ConcludingHead, MethodsDiffer
  <2> QED BY <1>2, <2>1, RootIsNode DEF MayRaise, OnModel
<1>3. Concluding => ClocksAgree
  BY <1>2 DEF ClocksAgree
<1> QED BY <1>1, <1>3, WhoIsCalled, IteratingAround DEF SettingUp

\* and so do the next step, finalize, the end of run and the exceptions.
LEMMA RunSteps ==
  ASSUME IInv, NextStep \/ Finalize \/ EndRun \/ Diverges \/ Fails \/ Breaks \/ UNCHANGED vars
  PROVE  IInv'
<1>1. CASE NextStep
  <2>1. Going /\ agenda = <<>> /\ \E safe \in Sizes : Try(Limited(safe))
    BY <1>1 DEF NextStep, Going
  <2> QED BY <2>1, BetweenSteps, TryStep
<1>2. CASE Finalize
  <2>1. /\ phase' = "ending" /\ agenda' = <<Call("doFinalization", Root)>>
        /\ UNCHANGED <<clock, setUp, satisfied>>
    BY <1>2 DEF Finalize
  <2>2. Call("doFinalization", Root) \in CallsOf({"doFinalization"})
    BY RootIsNode DEF Call, CallsOf
  <2>3. <<Call("doFinalization", Root)>> \in Seq(CallsOf({"doFinalization"}))
    BY <2>2
  <2> QED BY <2>1, <2>3 DEF IInv, Phases
<1>3. CASE EndRun
  BY <1>3 DEF EndRun, IInv, Phases
<1>4. CASE Diverges
  <2>1. Going /\ ClocksAgree /\ (GivenUp \/ Try(dtNew \div 2))
    BY <1>4, WhenItFails DEF Diverges, Going
  <2> QED BY <2>1, GivenUpStep, TryStep
<1>5. CASE Fails
  <2>1. Going /\ ClocksAgree /\ (GivenUp \/ \E safe \in Sizes : Try(safe))
    BY <1>5, WhenItFails DEF Fails, Going
  <2> QED BY <2>1, GivenUpStep, TryStep
<1>6. CASE Breaks
  BY <1>6, GivenUpStep DEF Breaks
<1>7. CASE UNCHANGED vars
  <2>1. UNCHANGED <<phase, agenda, clock, dtNew, failures, setUp, satisfied>>
    BY <1>7 DEF vars
  <2>2. /\ Prepare' = Prepare /\ Repeat' = Repeat /\ Conclude' = Conclude /\ Attempted' = Attempted
        /\ (AllSetUp' <=> AllSetUp) /\ (ClocksAgree' <=> ClocksAgree)
        /\ Advanced(clock[Root])' = Advanced(clock[Root])
    BY <2>1 DEF Prepare, Repeat, Conclude, Attempted, AllSetUp, ClocksAgree, Advanced
  <2>3. \A P : (SettingUp(P)' <=> SettingUp(P)) /\ (Iterating(P)' <=> Iterating(P))
    BY <2>1, <2>2 DEF SettingUp, Iterating
  <2>4. Concluding => Concluding'
    BY <2>1, <2>2 DEF Concluding
  <2> QED BY <2>1, <2>3, <2>4 DEF IInv
<1> QED BY <1>1, <1>2, <1>3, <1>4, <1>5, <1>6, <1>7

\* The invariant holds when run is called.
LEMMA FirstInv ==
  ASSUME Init
  PROVE  IInv
<1> DEFINE d == Call("doInitialization", Root)
           R == <<Call("doInitialStep", Root), Call("doInitialPostprocessing", Root)>>
<1>1. /\ phase = "initial" /\ agenda = <<d>> \o R /\ satisfied = {}
      /\ clock = [s \in Simulations |-> [time |-> 0, time_step |-> 0, dt |-> UNDEF_DT]]
      /\ setUp = [m \in Models |-> <<>>]
  BY DEF Init
<1>2. /\ Prepare = "doInitialization" /\ Repeat = "doInitialStep" /\ Conclude = "doInitialPostprocessing"
  BY <1>1 DEF Prepare, Repeat, Conclude
<1>3. d \in CallsOf({"doInitialization"}) /\ d \in AllCalls
  BY RootIsNode DEF Call, CallsOf, AllCalls, Methods, PassesOn
<1>4. R \in Seq(AllCalls)
  BY RootIsNode DEF Call, CallsOf, AllCalls, Methods, PassesOn
<1>5. <<d>> \in Seq(CallsOf({"doInitialization"})) /\ <<d>> \in Seq(AllCalls)
  <2> HIDE DEF d
  <2> QED BY <1>3
<1>6. ClocksAgree
  BY <1>1, RootIsNode DEF ClocksAgree
<1> HIDE DEF d
<1>7. <<d>> \in Prefixes(agenda)
  BY <1>1, <1>4, <1>5, PrefixOfJoin
<1>8. SettingUp(<<d>>)
  BY <1>1, <1>2, <1>5, <1>6 DEF SettingUp
<1> QED BY <1>1, <1>7, <1>8 DEF IInv, Phases

\* Every step keeps it.
LEMMA StepInv ==
  ASSUME IInv, [Next]_vars
  PROVE  IInv'
<1>1. CASE PassOn
  BY <1>1, PassOnStep
<1>2. CASE Advance
  BY <1>2, AdvanceStep
<1>3. CASE Work
  BY <1>3, WorkStep
<1>4. CASE Iterate
  BY <1>4, IterateStep
<1>5. CASE NextStep \/ Finalize \/ EndRun \/ Diverges \/ Fails \/ Breaks \/ UNCHANGED vars
  BY <1>5, RunSteps
<1> QED BY <1>1, <1>2, <1>3, <1>4, <1>5 DEF Next

\* The agenda goes through a pass that sets up, iterations, and a pass that ends the
\* step; what is still on it says what has been done.
THEOREM Invariance == Spec => []IInv
<1>1. Init => IInv
  BY FirstInv
<1>2. IInv /\ [Next]_vars => IInv'
  BY StepInv
<1> QED BY <1>1, <1>2, PTL DEF Spec

-----------------------------------------------------------------------------
(* Properties                                                              *)

\* Between time steps, and when one is tried again, every simulation of the tree has come
\* to the same time by the same steps, if no model fails in doStepPostprocessing.
THEOREM TimesAgreeHolds ==
  ASSUME PostRaises = FALSE
  PROVE  Spec => []TimesAgree
<1>1. IInv => TimesAgree
  <2> SUFFICES ASSUME IInv, phase = "step", agenda = <<>> \/ agenda = Attempt PROVE ClocksAgree
    BY DEF TimesAgree, ClocksAgree
  <2>1. Going
    BY DEF Going
  <2>2. CASE agenda = <<>>
    BY <2>1, <2>2, BetweenSteps
  <2>3. CASE agenda = Attempt
    <3>1. agenda # <<>> /\ Begins = Call("doStepPreprocessing", Root)
      BY <2>3 DEF Begins, Attempt
    <3>2. Begins.method = "doStepPreprocessing"
      BY <3>1 DEF Call
    <3>3. ASSUME Concluding PROVE FALSE
      BY <2>1, <3>1, <3>2, <3>3, ConcludingHead, MethodsDiffer
    <3> QED BY <2>1, <3>1, <3>3, WhoIsCalled, IteratingAround DEF SettingUp
  <2> QED BY <2>2, <2>3
<1> QED BY <1>1, Invariance, PTL

\* No model iterates or ends a step that it was not set up for in this very attempt.
THEOREM SetUpAnewHolds == Spec => []SetUpAnew
<1>1. IInv => SetUpAnew
  <2> SUFFICES ASSUME IInv, phase = "step", agenda # <<>>, Begins.of \in Models,
                      Begins.method \in {"doStep", "doStepPostprocessing"}
               PROVE  setUp[Begins.of] = Attempted
    BY DEF SetUpAnew, OnModel
  <2>1. Going
    BY DEF Going
  <2>2. ASSUME NEW P, SettingUp(P) PROVE AllSetUp
    <3>1. P = <<>>
      BY <2>1, <2>2, SettingUpHead, MethodsDiffer
    <3> QED BY <2>1, <2>2, <3>1, SettingUpHead, IteratingAround
  <2>3. AllSetUp
    BY <2>1, <2>2, WhoIsCalled, IteratingAround DEF Concluding
  <2> QED BY <2>3 DEF AllSetUp
<1> QED BY <1>1, Invariance, PTL

\* A step, or the initial iteration, ends for a model only when all models of the tree
\* were satisfied with what the last of them computed.
THEOREM AllSatisfiedHolds == Spec => []AllSatisfied
<1>1. IInv => AllSatisfied
  <2> SUFFICES ASSUME IInv, agenda # <<>>,
                      Begins.method \in {"doStepPostprocessing", "doInitialPostprocessing"}
               PROVE  satisfied = Models
    BY BelowRoot DEF AllSatisfied, Calling
  <2>1. Going
    BY WhoIsCalled DEF Going
  <2>2. ASSUME NEW P, SettingUp(P) PROVE Iterating(<<>>)
    BY <2>1, <2>2, SettingUpHead, MethodsDiffer
  <2>3. ASSUME NEW P, Iterating(P) PROVE FALSE
    <3>1. PICK c : Around(P, c)
      BY <2>3, IteratingAround
    <3>2. Begins.method = Repeat
      BY <2>1, <2>3, <3>1, IteratingAround, IteratingHead
    <3> QED BY <2>1, <3>2, MethodsDiffer
  <2>4. Concluding
    BY <2>1, <2>2, <2>3, WhoIsCalled
  <2> QED BY <2>4 DEF Concluding
<1> QED BY <1>1, Invariance, PTL
=============================================================================
