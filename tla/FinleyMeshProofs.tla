--------------------------- MODULE FinleyMeshProofs ---------------------------
(***************************************************************************)
(* Proofs about FinleyMesh, for any number of ranks and any mesh: every    *)
(* job leaves the labels the next one starts from, and when the mappings   *)
(* are made the labels of all ranks agree.                                 *)
(***************************************************************************)
EXTENDS MeshInvariant, FiniteSetTheorems, SequenceTheorems, WellFoundedInduction, TLAPS

-----------------------------------------------------------------------------
(* Numbers and finite sets                                                 *)

\* Division with remainder of natural numbers.
LEMMA DivMod ==
  ASSUME NEW a \in Nat, NEW b \in Nat \ {0}
  PROVE  /\ a \div b \in Nat /\ a % b \in 0 .. b - 1
         /\ a = b * (a \div b) + (a % b)
<1>1. a = b * (a \div b) + (a % b)
  OBVIOUS
<1>2. a % b \in 0 .. b - 1 /\ a \div b \in Int
  OBVIOUS
<1>3. ASSUME NEW q \in Int, NEW m \in 0 .. b - 1, a = b * q + m PROVE q \in Nat
  BY <1>3
<1> QED BY <1>1, <1>2, <1>3

\* JMPI_::split and JMPI_::setDistribution cut the same blocks.
THEOREM SplitIsDistribution ==
  ASSUME NEW N \in Nat, NEW size \in Nat \ {0}, NEW min_id \in Int, NEW r \in 0 .. size - 1
  PROVE  /\ Boundary(min_id, N, size, r) = min_id + SplitOffset(N, size, r)
         /\ Boundary(min_id, N, size, r + 1) - Boundary(min_id, N, size, r) = SplitCount(N, size, r)
         /\ SplitCount(N, size, r) <= LongestBlock(N, size)
<1> DEFINE q == N \div size
           m == N % size
<1>1. q \in Nat /\ m \in 0 .. size - 1 /\ N = size * q + m
  BY DivMod
<1>2. q * size = size * q /\ N - (N \div size) * size = m
  BY <1>1
<1>3. SplitCount(N, size, r) = IF r < m THEN q + 1 ELSE q
  BY <1>2 DEF SplitCount
<1>4. SplitOffset(N, size, r) = IF r < m THEN (q + 1) * r ELSE q * r + m
  BY <1>2, <1>3 DEF SplitOffset
<1>5. ASSUME NEW p \in 0 .. size
      PROVE  Boundary(min_id, N, size, p) =
               IF N = 0 THEN min_id
               ELSE IF p = size THEN min_id + N
               ELSE IF p < m THEN min_id + (q + 1) * p ELSE min_id + m + q * p
  BY <1>2 DEF Boundary
<1>6. LongestBlock(N, size) = IF N = 0 THEN 0 ELSE IF m = 0 THEN q ELSE q + 1
  BY <1>2 DEF LongestBlock
<1> HIDE DEF q, m
<1>7. (q + 1) * r = q * r + r /\ (q + 1) * (r + 1) = q * r + q + r + 1 /\ q * (r + 1) = q * r + q
  BY <1>1
<1>8. CASE N = 0
  <2>1. q = 0 /\ m = 0
    <3>1. size * q >= q
      BY <1>1
    <3> QED BY <1>1, <1>8, <3>1
  <2> QED BY <1>1, <1>3, <1>4, <1>5, <1>6, <1>8, <2>1
<1>9. CASE N # 0
  <2>1. Boundary(min_id, N, size, r) = min_id + SplitOffset(N, size, r)
    BY <1>1, <1>4, <1>5, <1>9
  <2>2. CASE r + 1 = size
    <3>1. size * q = q * r + q
      BY <1>1, <1>7, <2>2
    <3> QED BY <1>1, <1>3, <1>4, <1>5, <1>6, <1>7, <1>9, <2>1, <2>2, <3>1
  <2>3. CASE r + 1 # size
    BY <1>1, <1>3, <1>4, <1>5, <1>6, <1>7, <1>9, <2>1, <2>3
  <2> QED BY <2>2, <2>3
<1> QED BY <1>8, <1>9

\* A family of subsets of a finite set has a largest member.
LEMMA LargestSet ==
  ASSUME NEW S, IsFiniteSet(S), NEW B \in SUBSET SUBSET S, B # {}
  PROVE  \E s \in B : \A t \in B : ~ (s \subseteq t /\ t # s)
<1> DEFINE C == {S \ s : s \in B}
<1>1. C \subseteq FiniteSubsetsOf(S) /\ C # {}
  <2>1. \A s \in SUBSET S : IsFiniteSet(s)
    BY FS_Subset
  <2>2. C # {} /\ \A c \in C : c \in SUBSET S
    <3>1. PICK b \in B : TRUE
      OBVIOUS
    <3>2. S \ b \in C
      BY <3>1
    <3>3. \A c \in C : c \in SUBSET S
      OBVIOUS
    <3> QED BY <3>2, <3>3
  <2> QED BY <2>1, <2>2 DEF FiniteSubsetsOf
<1>s. \A c \in C : \E s \in B : c = S \ s
  OBVIOUS
<1>t. \A t \in B : S \ t \in C
  OBVIOUS
<1> HIDE DEF C
<1>2. PICK c \in C : \A d \in C : ~ (<<d, c>> \in StrictSubsetOrdering(S))
  BY <1>1, FS_StrictSubsetOrderingWellFounded, WFMin
<1>3. PICK s \in B : c = S \ s
  BY <1>2, <1>s
<1>4. ASSUME NEW t \in B, s \subseteq t, t # s PROVE FALSE
  <2>1. S \ t \in C /\ S \ t \subseteq c /\ S \ t # c
    <3>1. S \ t \in C /\ S \ t \subseteq S \ s
      BY <1>4, <1>t
    <3>2. PICK x \in t : x \notin s
      BY <1>4
    <3>3. x \in S \ s /\ x \notin S \ t
      BY <3>2
    <3> QED BY <1>3, <3>1, <3>3
  <2> QED BY <1>1, <1>2, <2>1 DEF StrictSubsetOrdering, FiniteSubsetsOf
<1> QED BY <1>3, <1>4

\* A finite set of numbers has a first and a last one.
LEMMA MinMax ==
  ASSUME NEW S, S \subseteq Int, IsFiniteSet(S), S # {}
  PROVE  /\ Min(S) \in S /\ Max(S) \in S
         /\ \A x \in S : Min(S) <= x /\ x <= Max(S)
<1>1. \E x \in S : \A y \in S : x <= y
  <2> DEFINE B == {{y \in S : x <= y} : x \in S}
  <2>a. B \in SUBSET SUBSET S /\ B # {}
    OBVIOUS
  <2>b. \A s \in B : \E x \in S : s = {y \in S : x <= y}
    OBVIOUS
  <2>c. \A x \in S : {y \in S : x <= y} \in B
    OBVIOUS
  <2> HIDE DEF B
  <2>1. PICK s \in B : \A t \in B : ~ (s \subseteq t /\ t # s)
    BY ONLY <2>a, IsFiniteSet(S), LargestSet
  <2>2. PICK x \in S : s = {y \in S : x <= y}
    BY <2>1, <2>b
  <2>3. ASSUME NEW z \in S PROVE x <= z
    <3>1. SUFFICES ASSUME z < x PROVE FALSE
      OBVIOUS
    <3>2. \A y \in S : x <= y => z <= y
      BY <3>1
    <3>3. ~ (x <= z) /\ z <= z
      BY <3>1
    <3>4. s \subseteq {y \in S : z <= y} /\ z \notin s /\ z \in {y \in S : z <= y}
      BY <2>2, <3>2, <3>3
    <3> QED BY <2>1, <2>c, <3>4
  <2> QED BY <2>3
<1>2. \E x \in S : \A y \in S : x >= y
  <2> DEFINE B == {{y \in S : y <= x} : x \in S}
  <2>a. B \in SUBSET SUBSET S /\ B # {}
    OBVIOUS
  <2>b. \A s \in B : \E x \in S : s = {y \in S : y <= x}
    OBVIOUS
  <2>c. \A x \in S : {y \in S : y <= x} \in B
    OBVIOUS
  <2> HIDE DEF B
  <2>1. PICK s \in B : \A t \in B : ~ (s \subseteq t /\ t # s)
    BY ONLY <2>a, IsFiniteSet(S), LargestSet
  <2>2. PICK x \in S : s = {y \in S : y <= x}
    BY <2>1, <2>b
  <2>3. ASSUME NEW z \in S PROVE x >= z
    <3>1. SUFFICES ASSUME x < z PROVE FALSE
      OBVIOUS
    <3>2. \A y \in S : y <= x => y <= z
      BY <3>1
    <3>3. ~ (z <= x) /\ z <= z
      BY <3>1
    <3>4. s \subseteq {y \in S : y <= z} /\ z \notin s /\ z \in {y \in S : y <= z}
      BY <2>2, <3>2, <3>3
    <3> QED BY <2>1, <2>c, <3>4
  <2> QED BY <2>3
<1>3. Min(S) \in S /\ \A y \in S : Min(S) <= y
  BY <1>1 DEF Min
<1>4. Max(S) \in S /\ \A y \in S : Max(S) >= y
  BY <1>2 DEF Max
<1> QED BY <1>3, <1>4

\* Ascending lists the numbers of a finite set.
LEMMA AscendingLists ==
  ASSUME NEW S \in SUBSET Int, IsFiniteSet(S)
  PROVE  /\ Cardinality(S) \in Nat
         /\ Ascending(S) \in [1 .. Cardinality(S) -> S]
         /\ \A x \in S : \E i \in 1 .. Cardinality(S) : Ascending(S)[i] = x
<1> DEFINE below(x) == {y \in S : y < x}
           place == [x \in S |-> Cardinality(below(x)) + 1]
           n == Cardinality(S)
<1>1. n \in Nat
  BY FS_CardinalityType
<1>2. ASSUME NEW x \in S PROVE /\ IsFiniteSet(below(x)) /\ Cardinality(below(x)) \in Nat
                               /\ Cardinality(below(x)) + 1 <= n
  <2>1. IsFiniteSet(S \ {x}) /\ Cardinality(S \ {x}) = n - 1
    BY FS_RemoveElement
  <2>2. below(x) \in SUBSET (S \ {x})
    OBVIOUS
  <2>3. IsFiniteSet(below(x)) /\ Cardinality(below(x)) <= n - 1
    BY <2>1, <2>2, FS_Subset
  <2> QED BY <1>1, <2>3, FS_CardinalityType
<1>3. ASSUME NEW x \in S, NEW z \in S, x < z
      PROVE  Cardinality(below(x)) < Cardinality(below(z))
  <2>1. IsFiniteSet(below(x) \cup {x}) /\ Cardinality(below(x) \cup {x}) = Cardinality(below(x)) + 1
    <3>1. x \notin below(x)
      OBVIOUS
    <3> QED BY <1>2, <3>1, FS_AddElement
  <2>2. below(x) \cup {x} \in SUBSET below(z)
    <3>1. \A y \in S : y < x => y < z
      BY <1>3
    <3> QED BY <1>3, <3>1
  <2>3. Cardinality(below(x) \cup {x}) <= Cardinality(below(z))
    BY <1>2, <2>2, FS_Subset
  <2> QED BY <1>2, <2>1, <2>3
<1>4. \A x, z \in S : Cardinality(below(x)) = Cardinality(below(z)) => x = z
  <2> SUFFICES ASSUME NEW x \in S, NEW z \in S, Cardinality(below(x)) = Cardinality(below(z)), x # z
               PROVE  FALSE
    OBVIOUS
  <2>1. CASE x < z
    BY <1>2, <1>3, <2>1
  <2>2. CASE z < x
    BY <1>2, <1>3, <2>2
  <2> QED BY <2>1, <2>2
<1>5. place \in [S -> 1 .. n] /\ \A x \in S : place[x] = Cardinality(below(x)) + 1
  BY <1>1, <1>2
<1>6. place \in Surjection(S, 1 .. n)
  <2>1. place \in Injection(S, 1 .. n)
    <3>1. \A x, z \in S : place[x] = place[z] => x = z
      <4> SUFFICES ASSUME NEW x \in S, NEW z \in S, place[x] = place[z] PROVE x = z
        OBVIOUS
      <4>1. Cardinality(below(x)) = Cardinality(below(z))
        BY <1>2, <1>5
      <4> QED BY <1>4, <4>1
    <3> HIDE DEF place
    <3> QED BY <1>5, <3>1 DEF Injection, IsInjective
  <2>2. IsFiniteSet(1 .. n) /\ Cardinality(1 .. n) = n
    BY <1>1, FS_Interval
  <2> QED BY <2>1, <2>2, FS_Injection
<1>7. ASSUME NEW i \in 1 .. n PROVE \E x \in S : Cardinality(below(x)) = i - 1
  <2> HIDE DEF place
  <2>1. PICK x \in S : place[x] = i
    BY <1>6 DEF Surjection
  <2> QED BY <1>2, <1>5, <2>1
<1>8. \A i \in 1 .. n : Ascending(S)[i] = CHOOSE x \in S : Cardinality(below(x)) = i - 1
  BY DEF Ascending
<1>9. Ascending(S) \in [1 .. n -> S]
  <2>1. \A i \in 1 .. n : Ascending(S)[i] \in S
    BY <1>7, <1>8
  <2>2. Ascending(S) = [i \in 1 .. n |-> Ascending(S)[i]]
    BY DEF Ascending
  <2> QED BY <2>1, <2>2
<1>10. ASSUME NEW x \in S PROVE \E i \in 1 .. n : Ascending(S)[i] = x
  <2>1. PICK i \in 1 .. n : i = Cardinality(below(x)) + 1
    <3>1. Cardinality(below(x)) + 1 \in 1 .. n
      BY <1>1, <1>2
    <3> QED BY <3>1
  <2>2. Cardinality(below(x)) = i - 1
    BY <1>2, <2>1
  <2>3. \A z \in S : Cardinality(below(z)) = i - 1 => z = x
    BY <1>4, <2>2
  <2>4. (CHOOSE z \in S : Cardinality(below(z)) = i - 1) = x
    BY <2>2, <2>3
  <2> QED BY <1>8, <2>4
<1> QED BY <1>1, <1>9, <1>10

\* What the ranks before another have together
LEMMA CountFacts ==
  ASSUME NEW things \in [Ranks -> SUBSET Int], \A q \in Ranks : IsFiniteSet(things[q]),
         NEW r \in 0 .. Size
  PROVE  /\ CountBefore(r, things) \in Nat
         /\ \A q \in Before(r) :
              CountBefore(q, things) + Cardinality(things[q]) <= CountBefore(r, things)
<1> DEFINE all(s) == UNION {{q} \X things[q] : q \in Before(s)}
<1>1. ASSUME NEW s \in 0 .. Size PROVE IsFiniteSet(all(s)) /\ Cardinality(all(s)) \in Nat
  <2>1. \A q \in Ranks : IsFiniteSet({q} \X things[q])
    BY FS_Singleton, FS_Product
  <2>2. IsFiniteSet(Ranks)
    BY SizeAssumption, FS_Interval DEF Ranks
  <2>3. IsFiniteSet(Before(s)) /\ Before(s) \subseteq Ranks
    BY <2>2, FS_Subset DEF Before
  <2>4. IsFiniteSet({{q} \X things[q] : q \in Before(s)})
    <3> DEFINE lines == {{q} \X things[q] : q \in Before(s)}
               f == [q \in Before(s) |-> {q} \X things[q]]
    <3>1. f \in Surjection(Before(s), lines)
      BY DEF Surjection
    <3> HIDE DEF f
    <3> QED BY <2>3, <3>1, FS_Surjection
  <2>5. \A T \in {{q} \X things[q] : q \in Before(s)} : IsFiniteSet(T)
    BY <2>1, <2>3
  <2>6. IsFiniteSet(all(s))
    BY <2>4, <2>5, FS_UNION
  <2> QED BY <2>6, FS_CardinalityType
<1>2. \A s : CountBefore(s, things) = Cardinality(all(s))
  BY DEF CountBefore
<1>3. ASSUME NEW q \in Before(r)
      PROVE  CountBefore(q, things) + Cardinality(things[q]) <= CountBefore(r, things)
  <2>1. q \in Ranks /\ q \in 0 .. Size /\ q < r
    BY <1>3, SizeAssumption DEF Before, Ranks
  <2>2. /\ IsFiniteSet({q} \X things[q])
        /\ Cardinality({q} \X things[q]) = Cardinality(things[q]) /\ Cardinality(things[q]) \in Nat
    <3>1. IsFiniteSet({q}) /\ Cardinality({q}) = 1
      BY FS_Singleton
    <3>2. IsFiniteSet(things[q]) /\ Cardinality(things[q]) \in Nat
      BY <2>1, FS_CardinalityType
    <3>3. /\ IsFiniteSet({q} \X things[q])
          /\ Cardinality({q} \X things[q]) = Cardinality({q}) * Cardinality(things[q])
      BY <3>1, <3>2, FS_Product
    <3> QED BY <3>1, <3>2, <3>3
  <2>3. all(q) \cap ({q} \X things[q]) = {}
    BY <2>1 DEF Before, Ranks
  <2>4. all(q) \cup ({q} \X things[q]) \in SUBSET all(r)
    BY <1>3, <2>1 DEF Before, Ranks
  <2>5. Cardinality(all(q) \cup ({q} \X things[q])) <= Cardinality(all(r))
    BY <1>1, <2>4, FS_Subset
  <2>6. Cardinality(all(q) \cup ({q} \X things[q])) = Cardinality(all(q)) + Cardinality(things[q])
    <3>1. Cardinality({}) = 0
      BY FS_EmptySet
    <3>2. IsFiniteSet(all(q)) /\ Cardinality(all(q)) \in Nat
      BY <1>1, <2>1
    <3>3. Cardinality(all(q) \cup ({q} \X things[q]))
            = Cardinality(all(q)) + Cardinality({q} \X things[q]) - Cardinality(all(q) \cap ({q} \X things[q]))
      BY <2>2, <3>2, FS_Union
    <3>4. Cardinality(all(q) \cap ({q} \X things[q])) = 0
      BY <2>3, <3>1
    <3> HIDE DEF all
    <3> QED BY <2>2, <3>2, <3>3, <3>4
  <2> QED BY <1>2, <2>5, <2>6
<1> QED BY <1>1, <1>2, <1>3

\* The blocks setDistribution cuts, none longer than it says
LEMMA BlocksFacts ==
  ASSUME NEW first \in Int, NEW n \in Nat
  PROVE  /\ Blocks(first, n) \in [0 .. Size -> Int]
         /\ Blocks(first, n)[0] = first /\ Blocks(first, n)[Size] = first + n
         /\ \A b \in Ranks, k \in Int : InBlock(k, Blocks(first, n), b) =>
              k - Blocks(first, n)[b] \in 0 .. LongestBlock(n, Size) - 1
<1>1. Size \in Nat \ {0} /\ Ranks = 0 .. Size - 1
  BY SizeAssumption DEF Ranks
<1>2. n \div Size \in Nat /\ n - (n \div Size) * Size \in 0 .. Size - 1
  <2>1. n \div Size \in Nat /\ n % Size \in 0 .. Size - 1 /\ n = Size * (n \div Size) + (n % Size)
    BY <1>1, DivMod
  <2>2. Size * (n \div Size) = (n \div Size) * Size
    BY <1>1, <2>1
  <2> QED BY <1>1, <2>1, <2>2
<1>3. \A p \in 0 .. Size : Blocks(first, n)[p] = Boundary(first, n, Size, p)
  BY DEF Blocks
<1>4. ASSUME NEW p \in 0 .. Size PROVE Boundary(first, n, Size, p) \in Int
  <2>1. PICK l \in Nat, rest \in Int : l = n \div Size /\ rest = n - l * Size
    BY <1>1, <1>2
  <2>2. Boundary(first, n, Size, p) = IF n <= 0 THEN first ELSE IF p = Size THEN first + n
                                      ELSE IF p < rest THEN first + (l + 1) * p ELSE first + rest + l * p
    BY <2>1 DEF Boundary
  <2>3. (l + 1) * p \in Int /\ l * p \in Int
    BY <1>1, <2>1
  <2> QED BY <2>2, <2>3
<1>5. Blocks(first, n) \in [0 .. Size -> Int]
  BY <1>3, <1>4 DEF Blocks
<1>6. Boundary(first, n, Size, 0) = first /\ Boundary(first, n, Size, Size) = first + n
  <2>1. PICK l \in Nat, rest \in 0 .. Size - 1 : l = n \div Size /\ rest = n - l * Size
    BY <1>1, <1>2
  <2>2. \A p : Boundary(first, n, Size, p) = IF n <= 0 THEN first ELSE IF p = Size THEN first + n
                                      ELSE IF p < rest THEN first + (l + 1) * p ELSE first + rest + l * p
    BY <2>1 DEF Boundary
  <2>3. (l + 1) * 0 = 0 /\ l * 0 = 0
    BY <2>1
  <2> QED BY <1>1, <2>1, <2>2, <2>3
<1>7. ASSUME NEW b \in Ranks, NEW k \in Int, InBlock(k, Blocks(first, n), b)
      PROVE  k - Blocks(first, n)[b] \in 0 .. LongestBlock(n, Size) - 1
  <2>1. /\ Boundary(first, n, Size, b + 1) - Boundary(first, n, Size, b) = SplitCount(n, Size, b)
        /\ SplitCount(n, Size, b) <= LongestBlock(n, Size)
    BY <1>1, SplitIsDistribution
  <2>2. b \in 0 .. Size /\ b + 1 \in 0 .. Size
    BY <1>1
  <2>3. Boundary(first, n, Size, b) <= k /\ k < Boundary(first, n, Size, b + 1)
    BY <1>3, <1>7, <2>2 DEF InBlock
  <2>4. LongestBlock(n, Size) \in Int
    BY <1>1, <1>2 DEF LongestBlock
  <2> QED BY <1>3, <1>4, <2>1, <2>2, <2>3, <2>4
<1> QED BY <1>1, <1>3, <1>5, <1>6, <1>7

\* A set of numbers with a bound has a first one.
LEMMA MinOfBounded ==
  ASSUME NEW S, S \subseteq Int, NEW b \in Int, \A x \in S : b <= x, S # {}
  PROVE  Min(S) \in S /\ \A x \in S : Min(S) <= x
<1> DEFINE T == {n \in Nat : n + b \in S}
<1>1. T \subseteq Nat /\ T # {}
  <2>1. PICK x \in S : TRUE
    OBVIOUS
  <2>2. x - b \in Nat /\ (x - b) + b = x
    BY <2>1
  <2> QED BY <2>1, <2>2
<1>2. PICK n \in T : \A m \in T : ~ (<<m, n>> \in OpToRel(<, Nat))
  <2> HIDE DEF T
  <2> QED BY <1>1, NatLessThanWellFounded, WFMin
<1>3. ASSUME NEW x \in S PROVE n + b <= x
  <2>0. x \in Int /\ n \in Nat
    BY <1>2, <1>3
  <2>1. x - b \in Nat /\ (x - b) + b = x
    BY <1>3, <2>0
  <2>2. x - b \in T
    BY <2>1
  <2>3. ~ (x - b < n)
    BY <1>1, <1>2, <2>1, <2>2 DEF OpToRel
  <2> QED BY <2>0, <2>1, <2>3
<1>4. n + b \in S
  BY <1>2
<1>5. \E x \in S : \A y \in S : x <= y
  BY <1>3, <1>4
<1> QED BY <1>5 DEF Min

\* A list of four jobs is a sequence of length four.
LEMMA FourInASequence ==
  ASSUME NEW S, NEW a \in S, NEW b \in S, NEW c \in S, NEW d \in S
  PROVE  <<a, b, c, d>> \in Seq(S) /\ Len(<<a, b, c, d>>) = 4
OBVIOUS

\* Finitely many arguments have finitely many values.
LEMMA FiniteRange ==
  ASSUME NEW S, IsFiniteSet(S), NEW f
  PROVE  IsFiniteSet({f[x] : x \in S})
<1> DEFINE T == {f[x] : x \in S}
           g == [x \in S |-> f[x]]
<1>1. g \in Surjection(S, T)
  BY DEF Surjection
<1> HIDE DEF g
<1> QED BY <1>1, FS_Surjection

\* Finitely many finite sets have a finite union.
LEMMA FiniteUnion ==
  ASSUME NEW S, IsFiniteSet(S), NEW f, \A x \in S : IsFiniteSet(f[x])
  PROVE  IsFiniteSet(UNION {f[x] : x \in S})
BY FiniteRange, FS_UNION

\* The ranks are finitely many, rank 0 is one of them, and so is every number
\* modulo Size: the neighbours in the ring are ranks.
LEMMA RanksFacts ==
  /\ Size \in Nat \ {0} /\ Ranks = 0 .. Size - 1 /\ 0 \in Ranks /\ IsFiniteSet(Ranks)
  /\ \A n \in Int : n % Size \in Ranks
<1>1. Size \in Nat \ {0} /\ Ranks = 0 .. Size - 1
  BY SizeAssumption DEF Ranks
<1>2. IsFiniteSet(0 .. Size - 1)
  BY <1>1, FS_Interval
<1>3. \A n \in Int : n % Size \in 0 .. Size - 1
  BY <1>1
<1> QED BY <1>1, <1>2, <1>3

-----------------------------------------------------------------------------
(* The turns of the ring, and blocks of labels                             *)

\* Numbers near the ranks modulo Size: at most one turn of the ring too far
LEMMA Modulo ==
  ASSUME NEW n \in Int
  PROVE  /\ n \in Ranks => n % Size = n
         /\ n - Size \in Ranks => n % Size = n - Size
         /\ n + Size \in Ranks => n % Size = n + Size
<1>1. Size \in Nat \ {0} /\ Ranks = 0 .. Size - 1
  BY RanksFacts
<1>2. n % Size \in 0 .. Size - 1 /\ n \div Size \in Int /\ n = Size * (n \div Size) + (n % Size)
  BY <1>1
<1>3. PICK q \in Int, m \in 0 .. Size - 1 : q = n \div Size /\ m = n % Size /\ n = Size * q + m
  BY <1>2
<1>4. /\ q >= 1 => Size * q >= Size
      /\ q >= 2 => Size * q >= 2 * Size
      /\ q <= -1 => Size * q <= -Size
      /\ q <= -2 => Size * q <= -2 * Size
      /\ q = 0 => Size * q = 0
      /\ q = 1 => Size * q = Size
      /\ q = -1 => Size * q = -Size
  <2>1. ASSUME NEW a \in Int, q >= a PROVE Size * q >= Size * a
    BY <1>1, <2>1
  <2>2. ASSUME NEW a \in Int, q <= a PROVE Size * q <= Size * a
    BY <1>1, <2>2
  <2> QED BY <1>1, <2>1, <2>2
<1>5. PICK z \in Int : z = Size * q
  BY <1>1
<1>6. CASE n \in Ranks
  <2>1. q = 0
    BY <1>1, <1>3, <1>4, <1>5, <1>6
  <2> QED BY <1>1, <1>3, <1>4, <1>5, <1>6, <2>1
<1>7. CASE n - Size \in Ranks
  <2>1. q = 1
    BY <1>1, <1>3, <1>4, <1>5, <1>7
  <2> QED BY <1>1, <1>3, <1>4, <1>5, <1>7, <2>1
<1>8. CASE n + Size \in Ranks
  <2>1. q = -1
    BY <1>1, <1>3, <1>4, <1>5, <1>8
  <2> QED BY <1>1, <1>3, <1>4, <1>5, <1>8, <2>1
<1> QED BY <1>6, <1>7, <1>8

\* The neighbours in the ring: r holds at turn p what r - p had at the start.
LEMMA Turns ==
  ASSUME NEW r \in Ranks, NEW p \in Ranks
  PROVE  /\ (r - p) % Size = IF p <= r THEN r - p ELSE r - p + Size
         /\ (r + p) % Size = IF r + p < Size THEN r + p ELSE r + p - Size
         /\ (r - p) % Size \in Ranks /\ (r + p) % Size \in Ranks
<1>1. Size \in Nat \ {0} /\ Ranks = 0 .. Size - 1
  BY RanksFacts
<1>2. (r - p) % Size = IF p <= r THEN r - p ELSE r - p + Size
  <2>1. CASE p <= r
    <3>1. r - p \in Int /\ r - p \in Ranks
      BY <1>1, <2>1
    <3> QED BY <2>1, <3>1, Modulo
  <2>2. CASE ~ (p <= r)
    <3>1. r - p \in Int /\ r - p + Size \in Ranks
      BY <1>1, <2>2
    <3> QED BY <2>2, <3>1, Modulo
  <2> QED BY <2>1, <2>2
<1>3. (r + p) % Size = IF r + p < Size THEN r + p ELSE r + p - Size
  <2>1. CASE r + p < Size
    <3>1. r + p \in Int /\ r + p \in Ranks
      BY <1>1, <2>1
    <3> QED BY <2>1, <3>1, Modulo
  <2>2. CASE ~ (r + p < Size)
    <3>1. PICK n \in Int : n = r + p /\ n - Size \in Ranks
      BY <1>1, <2>2
    <3>2. n % Size = n - Size
      BY <3>1, Modulo
    <3> QED BY <1>1, <2>2, <3>1, <3>2
  <2> QED BY <2>1, <2>2
<1> QED BY <1>1, <1>2, <1>3

\* A number between the ends of a distribution lies in a block of it.
LEMMA BlockExists ==
  ASSUME NEW dist \in [0 .. Size -> Int], NEW k \in Int, dist[0] <= k, k < dist[Size]
  PROVE  \E b \in Ranks : InBlock(k, dist, b)
<1>1. Size \in Nat \ {0} /\ Ranks = 0 .. Size - 1 /\ IsFiniteSet(Ranks)
  BY RanksFacts
<1>2. PICK S : S = {p \in Ranks : dist[p] <= k}
  OBVIOUS
<1>3. S \subseteq Int /\ IsFiniteSet(S) /\ 0 \in S
  <2>1. IsFiniteSet(S)
    BY <1>1, <1>2, FS_Subset
  <2> QED BY <1>1, <1>2, <2>1
<1>4. PICK b \in S : \A p \in S : p <= b
  BY <1>3, MinMax
<1>5. k < dist[b + 1]
  <2>1. CASE b + 1 = Size
    BY <2>1
  <2>2. CASE b + 1 # Size
    <3>1. b + 1 \in Ranks /\ b + 1 \notin S /\ b + 1 \in 0 .. Size
      BY <1>1, <1>2, <1>4, <2>2
    <3> QED BY <1>2, <3>1
  <2> QED BY <2>1, <2>2
<1> QED BY <1>2, <1>4, <1>5 DEF InBlock

\* It lies in one.
LEMMA BlockUnique ==
  ASSUME NEW dist \in [0 .. Size -> Int], Ordered(dist), NEW k \in Int,
         NEW a \in Ranks, NEW b \in Ranks, InBlock(k, dist, a), InBlock(k, dist, b)
  PROVE  a = b
<1>1. Size \in Nat \ {0} /\ Ranks = 0 .. Size - 1
  BY RanksFacts
<1>2. a \in 0 .. Size /\ b \in 0 .. Size /\ a + 1 \in 0 .. Size /\ b + 1 \in 0 .. Size
  BY <1>1
<1>3. a < b => dist[a + 1] <= dist[b]
  BY <1>1, <1>2 DEF Ordered
<1>4. b < a => dist[b + 1] <= dist[a]
  BY <1>1, <1>2 DEF Ordered
<1>5. dist[a] \in Int /\ dist[b] \in Int /\ dist[a + 1] \in Int /\ dist[b + 1] \in Int
  BY <1>2
<1> QED BY <1>1, <1>3, <1>4, <1>5 DEF InBlock

\* The blocks of setDistribution follow each other.
LEMMA BlocksOrdered ==
  ASSUME NEW first \in Int, NEW n \in Nat
  PROVE  Ordered(Blocks(first, n))
<1>1. Size \in Nat \ {0} /\ Ranks = 0 .. Size - 1
  BY RanksFacts
<1>2. PICK l \in Nat, rest \in 0 .. Size - 1 : l = n \div Size /\ rest = n - l * Size
        /\ n = l * Size + rest
  <2>1. n \div Size \in Nat /\ n % Size \in 0 .. Size - 1 /\ n = Size * (n \div Size) + (n % Size)
    BY <1>1, DivMod
  <2>2. Size * (n \div Size) = (n \div Size) * Size
    BY <1>1, <2>1
  <2> QED BY <1>1, <2>1, <2>2
<1>3. \A p \in 0 .. Size : Blocks(first, n)[p] =
         IF n <= 0 THEN first ELSE IF p = Size THEN first + n
         ELSE IF p < rest THEN first + (l + 1) * p ELSE first + rest + l * p
  BY <1>2 DEF Blocks, Boundary
<1>4. ASSUME NEW a \in 0 .. Size, NEW b \in 0 .. Size, a <= b
      PROVE  Blocks(first, n)[a] <= Blocks(first, n)[b]
  <2>1. PICK la \in Int, lb \in Int, ls \in Int : la = l * a /\ lb = l * b /\ ls = l * Size
    BY <1>1
  <2>2. la <= lb /\ lb <= ls
    <3>1. l * a <= l * b
      BY <1>4
    <3>2. l * b <= l * Size
      BY <1>1
    <3> QED BY <2>1, <3>1, <3>2
  <2>3. (l + 1) * a = la + a /\ (l + 1) * b = lb + b
    BY <2>1
  <2>4. CASE n <= 0
    BY <1>3, <2>4
  <2>5. CASE n > 0
    <3>1. Blocks(first, n)[a] = IF a = Size THEN first + n
             ELSE IF a < rest THEN first + la + a ELSE first + rest + la
      BY <1>3, <2>1, <2>3, <2>5
    <3>2. Blocks(first, n)[b] = IF b = Size THEN first + n
             ELSE IF b < rest THEN first + lb + b ELSE first + rest + lb
      BY <1>3, <2>1, <2>3, <2>5
    <3>3. n = ls + rest
      BY <1>2, <2>1
    <3> QED BY <1>1, <1>4, <2>2, <3>1, <3>2, <3>3
  <2> QED BY <2>4, <2>5
<1> QED BY <1>4 DEF Ordered

-----------------------------------------------------------------------------
(* Places                                                                  *)

\* Places: x is at most y exactly if its place is, and the members of S have
\* the places 0, 1, 2, ... without a gap.
LEMMA Places ==
  ASSUME NEW S \in SUBSET Int, IsFiniteSet(S)
  PROVE  /\ Cardinality(S) \in Nat
         /\ \A x \in Int : Place(S, x) \in 0 .. Cardinality(S)
         /\ \A x \in Int, y \in S : x <= y <=> Place(S, x) <= Place(S, y)
         /\ \A x \in S : Place(S, x) \in 0 .. Cardinality(S) - 1
         /\ \A x, y \in S : Place(S, x) = Place(S, y) => x = y
         /\ \A i \in 0 .. Cardinality(S) - 1 : \E x \in S : Place(S, x) = i
<1> DEFINE below(x) == {y \in S : y < x}
           n == Cardinality(S)
<1>1. n \in Nat
  BY FS_CardinalityType
<1>2. ASSUME NEW x PROVE /\ IsFiniteSet(below(x)) /\ Cardinality(below(x)) \in Nat
                         /\ Cardinality(below(x)) <= n
  <2>1. below(x) \in SUBSET S
    OBVIOUS
  <2> QED BY <2>1, FS_Subset, FS_CardinalityType
<1>3. \A x : Place(S, x) = Cardinality(below(x))
  BY DEF Place
<1>4. ASSUME NEW x \in S, NEW z \in Int, x < z
      PROVE  Cardinality(below(x)) + 1 <= Cardinality(below(z))
  <2>1. IsFiniteSet(below(x) \cup {x}) /\ Cardinality(below(x) \cup {x}) = Cardinality(below(x)) + 1
    <3>1. x \notin below(x)
      OBVIOUS
    <3> QED BY <1>2, <3>1, FS_AddElement
  <2>2. below(x) \cup {x} \in SUBSET below(z)
    <3>1. \A y \in S : y < x => y < z
      BY <1>4
    <3> QED BY <1>4, <3>1
  <2>3. Cardinality(below(x) \cup {x}) <= Cardinality(below(z))
    BY <1>2, <2>2, FS_Subset
  <2> QED BY <1>2, <2>1, <2>3
<1>5. ASSUME NEW x \in Int, NEW y \in S PROVE x <= y <=> Place(S, x) <= Place(S, y)
  <2>1. CASE x <= y
    <3>1. below(x) \in SUBSET below(y)
      <4>1. \A z \in S : z < x => z < y
        BY <2>1
      <4> QED BY <4>1
    <3>2. Cardinality(below(x)) <= Cardinality(below(y))
      BY <1>2, <3>1, FS_Subset
    <3> QED BY <1>3, <2>1, <3>2
  <2>2. CASE ~ (x <= y)
    <3>1. Cardinality(below(y)) + 1 <= Cardinality(below(x))
      BY <1>4, <2>2
    <3>2. Cardinality(below(x)) \in Nat /\ Cardinality(below(y)) \in Nat
      BY <1>2
    <3> QED BY <1>3, <2>2, <3>1, <3>2
  <2> QED BY <2>1, <2>2
<1>6. ASSUME NEW x \in S PROVE Place(S, x) \in 0 .. n - 1
  <2>1. IsFiniteSet(S \ {x}) /\ Cardinality(S \ {x}) = n - 1
    BY FS_RemoveElement
  <2>2. below(x) \in SUBSET (S \ {x})
    OBVIOUS
  <2>3. Cardinality(below(x)) <= n - 1
    BY <2>1, <2>2, FS_Subset
  <2> QED BY <1>1, <1>2, <1>3, <2>3
<1>7. ASSUME NEW x \in S, NEW y \in S, Place(S, x) = Place(S, y) PROVE x = y
  <2>1. x <= y /\ y <= x
    BY <1>5, <1>6, <1>7
  <2> QED BY <2>1
<1>8. ASSUME NEW i \in 0 .. n - 1 PROVE \E x \in S : Place(S, x) = i
  <2> DEFINE place == [x \in S |-> Place(S, x)]
  <2>1. place \in Injection(S, 0 .. n - 1)
    <3>1. place \in [S -> 0 .. n - 1] /\ \A x \in S : place[x] = Place(S, x)
      BY <1>6
    <3> HIDE DEF place
    <3>2. \A x, y \in S : place[x] = place[y] => x = y
      BY <1>7, <3>1
    <3> QED BY <3>1, <3>2 DEF Injection, IsInjective
  <2>2. IsFiniteSet(0 .. n - 1) /\ Cardinality(0 .. n - 1) = n
    BY <1>1, FS_Interval
  <2>3. place \in Surjection(S, 0 .. n - 1)
    BY <2>1, <2>2, FS_Injection
  <2> QED BY <2>3 DEF Surjection
<1>9. ASSUME NEW x \in Int PROVE Place(S, x) \in 0 .. n
  <2>1. Cardinality(below(x)) \in Nat /\ Cardinality(below(x)) <= n
    BY <1>2
  <2>2. Place(S, x) = Cardinality(below(x))
    BY <1>3
  <2> HIDE DEF below
  <2> QED BY <1>1, <2>1, <2>2
<1> QED BY <1>1, <1>5, <1>6, <1>7, <1>8, <1>9

\* Two sets with as many members below two numbers: a one-to-one image
LEMMA Image ==
  ASSUME NEW S, IsFiniteSet(S), NEW T, NEW f \in [S -> T],
         \A x, y \in S : f[x] = f[y] => x = y,
         \A t \in T : \E x \in S : f[x] = t
  PROVE  IsFiniteSet(T) /\ Cardinality(T) = Cardinality(S)
<1>1. f \in Bijection(S, T)
  BY DEF Bijection, Injection, Surjection, IsInjective
<1>2. ExistsBijection(S, T)
  BY <1>1 DEF ExistsBijection
<1> QED BY <1>2, FS_Bijection

\* The ranks before the first have nothing, those before the next what this
\* one has too.
LEMMA CountSteps ==
  ASSUME NEW things \in [Ranks -> SUBSET Int], \A q \in Ranks : IsFiniteSet(things[q])
  PROVE  /\ CountBefore(0, things) = 0
         /\ \A r \in Ranks : CountBefore(r + 1, things) = CountBefore(r, things) + Cardinality(things[r])
         /\ \A r \in 0 .. Size : /\ CountBefore(r, things) \in Nat
                                 /\ IsFiniteSet(UNION {{q} \X things[q] : q \in Before(r)})
<1> DEFINE all(s) == UNION {{q} \X things[q] : q \in Before(s)}
<1>0. Size \in Nat \ {0} /\ Ranks = 0 .. Size - 1 /\ IsFiniteSet(Ranks)
  BY RanksFacts
<1>1. ASSUME NEW s PROVE IsFiniteSet(all(s)) /\ Cardinality(all(s)) \in Nat
  <2> DEFINE line == [q \in Before(s) |-> {q} \X things[q]]
  <2>1. IsFiniteSet(Before(s)) /\ Before(s) \subseteq Ranks
    BY <1>0, FS_Subset DEF Before
  <2>2. \A q \in Before(s) : IsFiniteSet(line[q])
    BY <2>1, FS_Singleton, FS_Product
  <2>3. all(s) = UNION {line[q] : q \in Before(s)}
    OBVIOUS
  <2> HIDE DEF line, all
  <2>4. IsFiniteSet(all(s))
    BY <2>1, <2>2, <2>3, FiniteUnion
  <2> QED BY <2>4, FS_CardinalityType
<1>2. \A s : CountBefore(s, things) = Cardinality(all(s))
  BY DEF CountBefore
<1>3. CountBefore(0, things) = 0
  <2>1. Before(0) = {}
    BY <1>0 DEF Before
  <2>2. all(0) = {}
    BY <2>1
  <2> HIDE DEF all
  <2> QED BY <1>2, <2>2, FS_EmptySet
<1>4. ASSUME NEW r \in Ranks
      PROVE  CountBefore(r + 1, things) = CountBefore(r, things) + Cardinality(things[r])
  <2>1. Before(r + 1) = Before(r) \cup {r} /\ r \notin Before(r)
    BY <1>0 DEF Before
  <2>2. all(r + 1) = all(r) \cup ({r} \X things[r]) /\ all(r) \cap ({r} \X things[r]) = {}
    BY <2>1
  <2>3. /\ IsFiniteSet({r} \X things[r])
        /\ Cardinality({r} \X things[r]) = Cardinality(things[r]) /\ Cardinality(things[r]) \in Nat
    <3>1. IsFiniteSet({r}) /\ Cardinality({r}) = 1
      BY FS_Singleton
    <3>2. IsFiniteSet(things[r]) /\ Cardinality(things[r]) \in Nat
      BY FS_CardinalityType
    <3>3. /\ IsFiniteSet({r} \X things[r])
          /\ Cardinality({r} \X things[r]) = Cardinality({r}) * Cardinality(things[r])
      BY <3>1, <3>2, FS_Product
    <3> QED BY <3>1, <3>2, <3>3
  <2>4. PICK A, B : A = all(r) /\ B = {r} \X things[r]
    OBVIOUS
  <2>5. IsFiniteSet(A) /\ IsFiniteSet(B) /\ Cardinality(A) \in Nat /\ A \cap B = {}
    BY <1>1, <2>2, <2>3, <2>4
  <2>6. Cardinality(A \cup B) = Cardinality(A) + Cardinality(B)
    <3>1. Cardinality(A \cup B) = Cardinality(A) + Cardinality(B) - Cardinality(A \cap B)
      BY <2>5, FS_Union
    <3>2. Cardinality(A \cap B) = 0
      BY <2>5, FS_EmptySet
    <3>3. Cardinality(B) \in Nat
      BY <2>3, <2>4
    <3> QED BY <2>5, <3>1, <3>2, <3>3
  <2> HIDE DEF all
  <2> QED BY <1>2, <2>2, <2>3, <2>4, <2>6
<1>5. \A r \in 0 .. Size : CountBefore(r, things) \in Nat /\ IsFiniteSet(all(r))
  BY <1>1, <1>2
<1> QED BY <1>3, <1>4, <1>5

-----------------------------------------------------------------------------
(* Labels given block by block                                             *)

\* Things of the ranks, numbered from where the ranks before have stopped, get
\* labels in blocks, different ones, without a gap.
LEMMA GroupLabels ==
  ASSUME NEW things \in [Ranks -> SUBSET Int], \A q \in Ranks : IsFiniteSet(things[q]),
         NEW bound \in [0 .. Size -> Int], \A p \in 0 .. Size : bound[p] = CountBefore(p, things)
  PROVE  /\ bound \in [0 .. Size -> Nat] /\ Ordered(bound) /\ bound[0] = 0
         /\ \A q \in Ranks : \A x \in things[q] :
              /\ bound[q] + Place(things[q], x) \in 0 .. bound[Size] - 1
              /\ InBlock(bound[q] + Place(things[q], x), bound, q)
         /\ \A q, r \in Ranks : \A x \in things[q], y \in things[r] :
              bound[q] + Place(things[q], x) = bound[r] + Place(things[r], y) => q = r /\ x = y
         /\ \A i \in 0 .. bound[Size] - 1 : \E q \in Ranks : \E x \in things[q] :
              bound[q] + Place(things[q], x) = i
<1>0. Size \in Nat \ {0} /\ Ranks = 0 .. Size - 1 /\ \A q \in Ranks : q + 1 \in 0 .. Size
        /\ q \in 0 .. Size
  BY RanksFacts
<1>1. bound \in [0 .. Size -> Nat] /\ bound[0] = 0
  <2>1. \A p \in 0 .. Size : CountBefore(p, things) \in Nat
    BY CountSteps
  <2>2. CountBefore(0, things) = 0 /\ 0 \in 0 .. Size
    BY <1>0, CountSteps
  <2> QED BY <2>1, <2>2
<1>2. \A q \in Ranks : bound[q + 1] = bound[q] + Cardinality(things[q])
  BY <1>0, CountSteps
<1>t. \A q \in Ranks : /\ bound[q] \in Nat /\ bound[q + 1] \in Nat /\ Cardinality(things[q]) \in Nat
                       /\ bound[Size] \in Nat
  BY <1>0, <1>1, FS_CardinalityType
<1>3. Ordered(bound)
  <2> SUFFICES ASSUME NEW a \in 0 .. Size, NEW b \in 0 .. Size, a <= b PROVE bound[a] <= bound[b]
    BY DEF Ordered
  <2>1. CASE a = b
    BY <1>1, <2>1
  <2>2. CASE a # b
    <3>1. a \in Before(b) /\ a \in Ranks
      BY <1>0, <2>2 DEF Before
    <3>2. CountBefore(a, things) + Cardinality(things[a]) <= CountBefore(b, things)
      BY <3>1, CountFacts
    <3>3. Cardinality(things[a]) \in Nat
      BY <3>1, FS_CardinalityType
    <3> QED BY <1>1, <3>2, <3>3
  <2> QED BY <2>1, <2>2
<1>4. ASSUME NEW q \in Ranks, NEW x \in things[q]
      PROVE  /\ Place(things[q], x) \in 0 .. Cardinality(things[q]) - 1
             /\ bound[q] + Place(things[q], x) \in 0 .. bound[Size] - 1
             /\ InBlock(bound[q] + Place(things[q], x), bound, q)
  <2>1. Place(things[q], x) \in 0 .. Cardinality(things[q]) - 1 /\ Cardinality(things[q]) \in Nat
    BY Places
  <2>2. InBlock(bound[q] + Place(things[q], x), bound, q)
    BY <1>2, <1>t, <2>1 DEF InBlock
  <2>3. bound[q + 1] <= bound[Size]
    BY <1>0, <1>3 DEF Ordered
  <2> QED BY <1>2, <1>t, <2>1, <2>2, <2>3
<1>5. ASSUME NEW q \in Ranks, NEW r \in Ranks, NEW x \in things[q], NEW y \in things[r],
             bound[q] + Place(things[q], x) = bound[r] + Place(things[r], y)
      PROVE  q = r /\ x = y
  <2>1. PICK i \in Int : i = bound[q] + Place(things[q], x)
    BY <1>4, <1>t
  <2>2. q = r
    <3>1. InBlock(i, bound, q) /\ InBlock(i, bound, r)
      BY <1>4, <1>5, <2>1
    <3>2. bound \in [0 .. Size -> Int]
      BY <1>1
    <3> QED BY <1>3, <3>1, <3>2, BlockUnique
  <2>3. Place(things[q], x) = Place(things[q], y)
    <3>1. Place(things[q], x) \in Int /\ Place(things[q], y) \in Int /\ bound[q] \in Int
      BY <1>4, <1>t, <2>2
    <3> QED BY <1>5, <2>2, <3>1
  <2>4. x = y
    BY <2>2, <2>3, Places
  <2> QED BY <2>2, <2>4
<1>6. ASSUME NEW i \in 0 .. bound[Size] - 1
      PROVE  \E q \in Ranks : \E x \in things[q] : bound[q] + Place(things[q], x) = i
  <2>1. PICK q \in Ranks : InBlock(i, bound, q)
    <3>1. bound \in [0 .. Size -> Int] /\ i \in Int /\ bound[0] <= i /\ i < bound[Size]
      BY <1>0, <1>1
    <3> QED BY <3>1, BlockExists
  <2>2. i - bound[q] \in 0 .. Cardinality(things[q]) - 1
    BY <1>2, <1>t, <2>1 DEF InBlock
  <2>3. PICK x \in things[q] : Place(things[q], x) = i - bound[q]
    <3>1. things[q] \in SUBSET Int /\ IsFiniteSet(things[q])
      OBVIOUS
    <3> QED BY <2>2, <3>1, Places
  <2> QED BY <1>t, <2>3
<1> QED BY <1>1, <1>3, <1>4, <1>5, <1>6

\* Counting the members of S block by block, wherever the counting in a block
\* starts, gives the place of the end of the block.
LEMMA CountPlaces ==
  ASSUME NEW S \in SUBSET Int, IsFiniteSet(S), NEW dist \in [0 .. Size -> Int], Ordered(dist),
         \A m \in S : dist[0] <= m,
         NEW shift \in [Ranks -> Int], NEW things \in [Ranks -> SUBSET Int],
         \A q \in Ranks : \A k \in Int :
           k \in things[q] <=> shift[q] + k \in S /\ InBlock(shift[q] + k, dist, q)
  PROVE  /\ \A q \in Ranks : IsFiniteSet(things[q])
         /\ \A r \in 0 .. Size : CountBefore(r, things) = Place(S, dist[r])
<1>0. Size \in Nat \ {0} /\ Ranks = 0 .. Size - 1 /\ \A q \in Ranks : q + 1 \in 0 .. Size
        /\ q \in 0 .. Size
  BY RanksFacts
<1>1. ASSUME NEW q \in Ranks PROVE IsFiniteSet(things[q])
  <2> DEFINE f == [k \in things[q] |-> shift[q] + k]
  <2>1. f \in [things[q] -> S]
    OBVIOUS
  <2>2. \A k, j \in things[q] : f[k] = f[j] => k = j
    OBVIOUS
  <2> HIDE DEF f
  <2>3. f \in Injection(things[q], S)
    BY <2>1, <2>2 DEF Injection, IsInjective
  <2> QED BY <2>3, FS_Injection
<1>2. ASSUME NEW r \in 0 .. Size PROVE CountBefore(r, things) = Place(S, dist[r])
  <2> DEFINE all == UNION {{q} \X things[q] : q \in Before(r)}
             T == {m \in S : m < dist[r]}
             f == [t \in all |-> shift[t[1]] + t[2]]
  <2>1. IsFiniteSet(all)
    BY <1>1, CountSteps
  <2>2. \A q \in Before(r) : q \in Ranks /\ q < r
    BY DEF Before
  <2>3. ASSUME NEW t \in all
        PROVE  /\ t = <<t[1], t[2]>> /\ t[1] \in Ranks /\ t[1] < r /\ t[2] \in things[t[1]]
                    /\ t[2] \in Int
               /\ f[t] = shift[t[1]] + t[2] /\ f[t] \in S /\ f[t] \in Int /\ InBlock(f[t], dist, t[1])
    <3>1. PICK q \in Before(r) : t \in {q} \X things[q]
      OBVIOUS
    <3>2. t = <<t[1], t[2]>> /\ t[1] = q /\ t[2] \in things[q]
      BY <3>1
    <3>3. f[t] = shift[t[1]] + t[2]
      OBVIOUS
    <3> HIDE DEF f, all
    <3>4. q \in Ranks /\ q < r /\ t[2] \in Int
      BY <2>2, <3>2
    <3>5. shift[q] + t[2] \in S /\ InBlock(shift[q] + t[2], dist, q)
      BY <3>2, <3>4
    <3> QED BY <3>2, <3>3, <3>4, <3>5
  <2>4. ASSUME NEW q \in Ranks, NEW k \in things[q], q < r PROVE <<q, k>> \in all
    <3>1. q \in Before(r) /\ <<q, k>> \in {q} \X things[q]
      BY <2>4 DEF Before
    <3> QED BY <3>1
  <2>5. f \in [all -> T]
    <3>1. ASSUME NEW t \in all PROVE f[t] \in T
      <4>1. dist[t[1] + 1] <= dist[r]
        <5>1. t[1] + 1 \in 0 .. Size /\ t[1] + 1 <= r
          <6>1. t[1] \in Ranks /\ t[1] < r
            BY <2>3
          <6>2. PICK a : a = t[1]
            OBVIOUS
          <6> QED BY <1>0, <6>1, <6>2
        <5> QED BY <5>1 DEF Ordered
      <4>2. f[t] < dist[t[1] + 1]
        BY <2>3 DEF InBlock
      <4>3. dist[t[1] + 1] \in Int /\ dist[r] \in Int /\ f[t] \in Int
        BY <1>0, <2>3
      <4>4. f[t] < dist[r]
        BY <4>1, <4>2, <4>3
      <4> QED BY <2>3, <4>4
    <3>2. f = [t \in all |-> f[t]]
      OBVIOUS
    <3> HIDE DEF f, all, T
    <3> QED BY <3>1, <3>2
  <2>6. ASSUME NEW t \in all, NEW u \in all, f[t] = f[u] PROVE t = u
    <3> HIDE DEF f, all
    <3>1. t[1] = u[1]
      BY <2>3, <2>6, BlockUnique
    <3>2. t[2] = u[2]
      <4>1. shift[t[1]] + t[2] = shift[t[1]] + u[2] /\ shift[t[1]] \in Int /\ t[2] \in Int
              /\ u[2] \in Int
        BY <2>3, <2>6, <3>1
      <4> QED BY <4>1
    <3> QED BY <2>3, <3>1, <3>2
  <2>7. ASSUME NEW m \in T PROVE \E t \in all : f[t] = m
    <3>1. m \in S /\ m \in Int /\ m < dist[r] /\ dist[0] <= m
      OBVIOUS
    <3>2. dist[r] <= dist[Size] /\ dist[r] \in Int /\ dist[Size] \in Int
      BY <1>0 DEF Ordered
    <3>3. PICK b \in Ranks : InBlock(m, dist, b)
      <4>1. m < dist[Size]
        BY <3>1, <3>2
      <4> QED BY <3>1, <4>1, BlockExists
    <3>4. b < r
      <4>1. SUFFICES ASSUME r <= b PROVE FALSE
        BY <1>0
      <4>2. dist[r] <= dist[b] /\ dist[b] \in Int
        BY <1>0, <4>1 DEF Ordered
      <4> QED BY <3>1, <3>2, <3>3, <4>2 DEF InBlock
    <3>5. m - shift[b] \in Int /\ shift[b] + (m - shift[b]) = m
      BY <3>1
    <3>6. m - shift[b] \in things[b]
      BY <3>1, <3>3, <3>5
    <3>7. <<b, m - shift[b]>> \in all
      BY <2>4, <3>4, <3>6
    <3>8. f[<<b, m - shift[b]>>] = m
      BY <3>5, <3>7
    <3> QED BY <3>7, <3>8
  <2>8. Cardinality(T) = Cardinality(all)
    <3> HIDE DEF f, all, T
    <3> QED BY <2>1, <2>5, <2>6, <2>7, Image
  <2> QED BY <2>8 DEF Place, CountBefore
<1> QED BY <1>1, <1>2

\* The marks of a block, numbered from where the ranks before have stopped, get
\* the places of the keys they stand for.
LEMMA NumberPlaces ==
  ASSUME NEW S \in SUBSET Int, IsFiniteSet(S), NEW dist \in [0 .. Size -> Int], Ordered(dist),
         \A m \in S : dist[0] <= m,
         NEW marks \in [Ranks -> SUBSET Int],
         \A q \in Ranks : \A k \in Int :
           k \in marks[q] <=> dist[q] + k \in S /\ InBlock(dist[q] + k, dist, q)
  PROVE  /\ \A q \in Ranks : IsFiniteSet(marks[q])
         /\ \A r \in 0 .. Size : CountBefore(r, marks) = Place(S, dist[r])
         /\ \A r \in Ranks : \A k \in marks[r] :
              CountBefore(r, marks) + Place(marks[r], k) = Place(S, dist[r] + k)
<1>0. Size \in Nat \ {0} /\ Ranks = 0 .. Size - 1 /\ \A q \in Ranks : q + 1 \in 0 .. Size
        /\ q \in 0 .. Size
  BY RanksFacts
<1>1. /\ \A q \in Ranks : IsFiniteSet(marks[q])
      /\ \A r \in 0 .. Size : CountBefore(r, marks) = Place(S, dist[r])
  <2>1. PICK shift \in [Ranks -> Int] : \A q \in Ranks : shift[q] = dist[q]
    <3>1. [q \in Ranks |-> dist[q]] \in [Ranks -> Int]
      BY <1>0
    <3> QED BY <3>1
  <2>2. \A q \in Ranks : \A k \in Int :
          k \in marks[q] <=> shift[q] + k \in S /\ InBlock(shift[q] + k, dist, q)
    BY <2>1
  <2> QED BY <2>2, CountPlaces
<1>2. ASSUME NEW r \in Ranks, NEW k \in marks[r]
      PROVE  CountBefore(r, marks) + Place(marks[r], k) = Place(S, dist[r] + k)
  <2> DEFINE A == {m \in S : m < dist[r]}
             B == {m \in S : dist[r] <= m /\ m < dist[r] + k}
             C == {j \in marks[r] : j < k}
             f == [j \in C |-> dist[r] + j]
  <2>1. dist[r] \in Int /\ k \in Int /\ dist[r] + k < dist[r + 1] /\ dist[r + 1] \in Int /\ 0 <= k
    BY <1>0 DEF InBlock
  <2>2. \A j \in marks[r] : dist[r] + j \in S /\ dist[r] <= dist[r] + j
    BY DEF InBlock
  <2>3. f \in [C -> B]
    BY <2>1, <2>2
  <2>4. \A i, j \in C : f[i] = f[j] => i = j
    BY <2>1
  <2>5. ASSUME NEW m \in B PROVE \E j \in C : f[j] = m
    <3>1. m - dist[r] \in Int /\ dist[r] + (m - dist[r]) = m /\ m - dist[r] < k
      BY <2>1
    <3>2. InBlock(m, dist, r)
      BY <2>1 DEF InBlock
    <3>3. m - dist[r] \in marks[r]
      BY <3>1, <3>2
    <3> QED BY <3>1, <3>3
  <2>6. IsFiniteSet(C) /\ IsFiniteSet(A) /\ IsFiniteSet(B)
    BY <1>1, FS_Subset
  <2>7. Cardinality(B) = Cardinality(C)
    <3> HIDE DEF f, B, C
    <3> QED BY <2>3, <2>4, <2>5, <2>6, Image
  <2>8. A \cap B = {} /\ A \cup B = {m \in S : m < dist[r] + k}
    <3>1. \A m \in S : m < dist[r] => m < dist[r] + k
      BY <2>1
    <3>2. \A m \in S : m < dist[r] \/ dist[r] <= m
      BY <2>1
    <3>3. \A m \in S : ~ (m < dist[r] /\ dist[r] <= m)
      BY <2>1
    <3> QED BY <3>1, <3>2, <3>3
  <2>9. Cardinality(A \cup B) = Cardinality(A) + Cardinality(B)
    <3> HIDE DEF A, B
    <3>1. Cardinality(A \cup B) = Cardinality(A) + Cardinality(B) - Cardinality(A \cap B)
      BY <2>6, FS_Union
    <3>2. Cardinality(A \cap B) = 0 /\ Cardinality(A) \in Nat /\ Cardinality(B) \in Nat
      BY <2>6, <2>8, FS_EmptySet, FS_CardinalityType
    <3> QED BY <3>1, <3>2
  <2>10. Place(S, dist[r] + k) = Cardinality(A \cup B)
    BY <2>8 DEF Place
  <2>11. Place(marks[r], k) = Cardinality(C) /\ Place(S, dist[r]) = Cardinality(A)
    BY DEF Place
  <2>12. CountBefore(r, marks) = Place(S, dist[r])
    BY <1>0, <1>1
  <2> HIDE DEF A, B, C
  <2> QED BY <2>7, <2>9, <2>10, <2>11, <2>12
<1> QED BY <1>1, <1>2

-----------------------------------------------------------------------------
(* The program                                                             *)

JobNames == RingJobs \cup {"distribute", "mappings"}

\* The jobs of a program, from the first and from the last
LEMMA ProgramFacts ==
  ASSUME NEW optimize \in BOOLEAN, NEW P, P = Program(optimize)
  PROVE  /\ P \in Seq(JobNames) /\ Len(P) = IF optimize THEN 12 ELSE 8
         /\ P[1] = "gather" /\ P[2] = "dof" /\ P[3] = "distribute" /\ P[4] = "gather"
         /\ optimize => /\ P[5] = "optimizeDOFDistribution" /\ P[6] = "distribute"
                        /\ P[7] = "gather" /\ P[8] = "optimizeDOFLabeling"
         /\ P[Len(P) - 3] = "node" /\ P[Len(P) - 2] = "rdof"
         /\ P[Len(P) - 1] = "rnode" /\ P[Len(P)] = "mappings"
<1> DEFINE A == <<"gather", "dof", "distribute", "gather">>
           B == <<"optimizeDOFDistribution", "distribute", "gather", "optimizeDOFLabeling">>
           C == <<"node", "rdof", "rnode", "mappings">>
           M == IF optimize THEN B ELSE <<>>
<1>1. /\ A \in Seq(JobNames) /\ Len(A) = 4
      /\ A[1] = "gather" /\ A[2] = "dof" /\ A[3] = "distribute" /\ A[4] = "gather"
  <2>1. A \in Seq(JobNames)
    <3>1. "gather" \in JobNames /\ "dof" \in JobNames /\ "distribute" \in JobNames
      BY DEF JobNames, RingJobs, BlockJobs
    <3> QED BY ONLY <3>1, FourInASequence DEF A
  <2> QED BY <2>1
<1>2. /\ B \in Seq(JobNames) /\ Len(B) = 4
      /\ B[1] = "optimizeDOFDistribution" /\ B[2] = "distribute"
      /\ B[3] = "gather" /\ B[4] = "optimizeDOFLabeling"
  <2>1. B \in Seq(JobNames)
    <3>1. "optimizeDOFDistribution" \in JobNames /\ "distribute" \in JobNames /\ "gather" \in JobNames
          /\ "optimizeDOFLabeling" \in JobNames
      BY DEF JobNames, RingJobs, BlockJobs
    <3> QED BY ONLY <3>1, FourInASequence DEF B
  <2> QED BY <2>1
<1>3. /\ C \in Seq(JobNames) /\ Len(C) = 4
      /\ C[1] = "node" /\ C[2] = "rdof" /\ C[3] = "rnode" /\ C[4] = "mappings"
  <2>1. C \in Seq(JobNames)
    <3>1. "node" \in JobNames /\ "rdof" \in JobNames /\ "rnode" \in JobNames /\ "mappings" \in JobNames
      BY DEF JobNames, RingJobs, BlockJobs
    <3> QED BY ONLY <3>1, FourInASequence DEF C
  <2> QED BY <2>1
<1>4. M \in Seq(JobNames) /\ Len(M) = (IF optimize THEN 4 ELSE 0) /\ (optimize => M = B)
  <2>1. CASE optimize
    <3>1. M = B
      BY <2>1
    <3> HIDE DEF M, B
    <3> QED BY <1>2, <2>1, <3>1
  <2>2. CASE ~ optimize
    <3>1. M = <<>>
      BY <2>2
    <3>2. <<>> \in Seq(JobNames) /\ Len(<<>>) = 0
      OBVIOUS
    <3> HIDE DEF M
    <3> QED BY <2>2, <3>1, <3>2
  <2> QED BY <2>1, <2>2
<1>5. P = (A \o M) \o C
  BY DEF Program
<1> HIDE DEF A, B, C, M
<1>6. /\ A \o M \in Seq(JobNames) /\ Len(A \o M) = 4 + Len(M)
      /\ \A i \in 1 .. 4 + Len(M) : (A \o M)[i] = IF i <= 4 THEN A[i] ELSE M[i - 4]
  <2>1. A \in Seq(JobNames) /\ M \in Seq(JobNames) /\ Len(A) = 4
    BY <1>1, <1>4
  <2>2. /\ A \o M \in Seq(JobNames) /\ Len(A \o M) = Len(A) + Len(M)
        /\ \A i \in 1 .. Len(A) + Len(M) : (A \o M)[i] = IF i <= Len(A) THEN A[i] ELSE M[i - Len(A)]
    BY <2>1, ConcatProperties
  <2> QED BY <2>1, <2>2
<1>7. PICK N : N = A \o M
  OBVIOUS
<1>8. PICK m \in Nat : m = Len(M) /\ m = IF optimize THEN 4 ELSE 0
  BY <1>4
<1>9. /\ N \in Seq(JobNames) /\ Len(N) = 4 + m
      /\ \A i \in 1 .. 4 + m : N[i] = IF i <= 4 THEN A[i] ELSE M[i - 4]
  BY <1>6, <1>7, <1>8
<1>10. /\ P \in Seq(JobNames) /\ Len(P) = 8 + m
       /\ \A i \in 1 .. 8 + m : P[i] = IF i <= 4 + m THEN N[i] ELSE C[i - (4 + m)]
  <2>1. /\ N \o C \in Seq(JobNames) /\ Len(N \o C) = Len(N) + Len(C)
        /\ \A i \in 1 .. Len(N) + Len(C) : (N \o C)[i] = IF i <= Len(N) THEN N[i] ELSE C[i - Len(N)]
    BY <1>3, <1>9, ConcatProperties
  <2>2. Len(N) + Len(C) = 8 + m
    BY <1>3, <1>9
  <2> QED BY <1>5, <1>7, <1>9, <2>1, <2>2
<1>11. P[1] = "gather" /\ P[2] = "dof" /\ P[3] = "distribute" /\ P[4] = "gather"
  BY <1>1, <1>8, <1>9, <1>10
<1>12. ASSUME optimize
       PROVE  /\ P[5] = "optimizeDOFDistribution" /\ P[6] = "distribute"
              /\ P[7] = "gather" /\ P[8] = "optimizeDOFLabeling"
  <2>1. m = 4 /\ \A j \in 1 .. 4 : P[4 + j] = M[j]
    <3>1. m = 4
      BY <1>8, <1>12
    <3>2. ASSUME NEW j \in 1 .. 4 PROVE P[4 + j] = M[j]
      <4>1. P[4 + j] = N[4 + j] /\ N[4 + j] = M[(4 + j) - 4] /\ (4 + j) - 4 = j
        BY <1>9, <1>10, <3>1
      <4> QED BY <4>1
    <3> QED BY <3>1, <3>2
  <2>2. M = B
    BY <1>4, <1>12
  <2> QED BY <1>2, <2>1, <2>2
<1>13. /\ P[8 + m - 3] = "node" /\ P[8 + m - 2] = "rdof"
       /\ P[8 + m - 1] = "rnode" /\ P[8 + m] = "mappings"
  <2>1. \A j \in 1 .. 4 : P[4 + m + j] = C[j]
    BY <1>8, <1>10
  <2> QED BY <1>3, <1>8, <2>1
<1>14. Len(P) = IF optimize THEN 12 ELSE 8
  BY <1>8, <1>10
<1> QED BY <1>8, <1>10, <1>11, <1>12, <1>13, <1>14

\* The job at work after k jobs, and the one after it
LEMMA JobFacts ==
  ASSUME NEW k \in 0 .. 13, JobsDone(k)
  PROVE  /\ k = 0 => Job = "gather"
         /\ Job = "dof" => k = 1
         /\ program # <<>> => k + 1 \in 0 .. 13
         /\ program # <<>> /\ program' = Tail(program) =>
              /\ JobsDone(k + 1)'
              /\ k = 0 => Job' = "dof"
              /\ k # 0 /\ Job = "gather" =>
                   Job' \in {"optimizeDOFDistribution", "optimizeDOFLabeling", "node"}
              /\ Job \in {"dof", "optimizeDOFDistribution"} => Job' = "distribute"
              /\ Job = "distribute" => Job' = "gather"
              /\ Job = "optimizeDOFLabeling" => Job' = "node"
              /\ Job = "node" => Job' = "rdof"
              /\ Job = "rdof" => Job' = "rnode"
              /\ Job = "rnode" => Job' = "mappings"
<1>1. PICK optimize \in BOOLEAN : program = Remaining(optimize, k)
  BY DEF JobsDone
<1>2. PICK P : P = Program(optimize)
  OBVIOUS
<1>3. PICK n \in Nat :
         /\ P \in Seq(JobNames) /\ Len(P) = n /\ n = IF optimize THEN 12 ELSE 8
         /\ P[1] = "gather" /\ P[2] = "dof" /\ P[3] = "distribute" /\ P[4] = "gather"
         /\ optimize => /\ P[5] = "optimizeDOFDistribution" /\ P[6] = "distribute"
                        /\ P[7] = "gather" /\ P[8] = "optimizeDOFLabeling"
         /\ P[n - 3] = "node" /\ P[n - 2] = "rdof" /\ P[n - 1] = "rnode" /\ P[n] = "mappings"
  <2>1. /\ P \in Seq(JobNames) /\ Len(P) = IF optimize THEN 12 ELSE 8
        /\ P[1] = "gather" /\ P[2] = "dof" /\ P[3] = "distribute" /\ P[4] = "gather"
        /\ optimize => /\ P[5] = "optimizeDOFDistribution" /\ P[6] = "distribute"
                       /\ P[7] = "gather" /\ P[8] = "optimizeDOFLabeling"
        /\ P[Len(P) - 3] = "node" /\ P[Len(P) - 2] = "rdof"
        /\ P[Len(P) - 1] = "rnode" /\ P[Len(P)] = "mappings"
    BY <1>2, ProgramFacts
  <2>2. PICK n \in Nat : n = Len(P)
    BY <2>1
  <2> QED BY <2>1, <2>2
<1>n. (n = 8 \/ n = 12) /\ P \in Seq(JobNames) /\ Len(P) = n
  BY <1>3
<1>4. program = SubSeq(P, k + 1, n)
  BY <1>1, <1>2, <1>3 DEF Remaining
<1>5. \A i \in 1 .. n : P[i] \in JobNames
  BY <1>n, ElementOfSeq
<1>6. \A j \in 1 .. 14 :
        LET R == SubSeq(P, j, n)
            m == IF j <= n THEN n - j + 1 ELSE 0
        IN  R \in Seq(JobNames) /\ Len(R) = m /\ \A i \in 1 .. m : R[i] = P[j + i - 1]
  <2> TAKE j \in 1 .. 14
  <2>1. \A i \in j .. n : P[i] \in JobNames
    BY <1>5
  <2>2. j \in 1 .. n + 1 \/ j > n
    BY <1>3
  <2> QED BY <1>n, <2>1, <2>2, SubSeqProperties
<1>7. /\ program \in Seq(JobNames)
      /\ Len(program) = IF k < n THEN n - k ELSE 0
      /\ \A i \in 1 .. Len(program) : program[i] = P[k + i]
  <2>1. k + 1 \in 1 .. 14
    OBVIOUS
  <2> QED BY <1>n, <1>4, <1>6, <2>1
<1>8. program = <<>> <=> k >= n
  BY <1>n, <1>7, EmptySeq
<1>9. Job = IF k < n THEN P[k + 1] ELSE "none"
  <2>1. program # <<>> => Head(program) = P[k + 1]
    <3> SUFFICES ASSUME program # <<>> PROVE Head(program) = P[k + 1]
      OBVIOUS
    <3>1. Head(program) = program[1]
      BY <1>7, HeadTailProperties
    <3>2. 1 \in 1 .. Len(program) /\ k + 1 = k + 1
      BY <1>n, <1>7, <1>8
    <3> QED BY <1>7, <3>1, <3>2
  <2> QED BY <1>8, <2>1 DEF Job
<1>10. ASSUME program # <<>>, program' = Tail(program)
       PROVE  JobsDone(k + 1)' /\ Job' = IF k + 1 < n THEN P[k + 2] ELSE "none"
  <2>1. k < n /\ k + 2 \in 1 .. 14
    BY <1>n, <1>8, <1>10
  <2>2. /\ Tail(program) \in Seq(JobNames) /\ Len(Tail(program)) = Len(program) - 1
        /\ \A i \in 1 .. Len(Tail(program)) : Tail(program)[i] = program[i + 1]
    BY <1>7, <1>10, HeadTailProperties
  <2>3. PICK R \in Seq(JobNames) : R = SubSeq(P, k + 2, n)
    BY <1>6, <2>1
  <2>4. /\ Len(R) = IF k + 2 <= n THEN n - (k + 2) + 1 ELSE 0
        /\ \A i \in 1 .. Len(R) : R[i] = P[(k + 2) + i - 1]
    BY <1>6, <2>1, <2>3
  <2>5. Len(R) = Len(Tail(program)) /\ Len(R) = n - k - 1
    <3>1. Len(program) = n - k /\ Len(Tail(program)) = n - k - 1
      BY <1>n, <1>7, <2>1, <2>2
    <3>2. Len(R) = n - k - 1
      BY <1>n, <2>1, <2>4
    <3> QED BY <3>1, <3>2
  <2>6. \A i \in 1 .. Len(R) : R[i] = Tail(program)[i]
    <3> TAKE i \in 1 .. Len(R)
    <3>1. i \in 1 .. n - k - 1 /\ i + 1 \in 1 .. Len(program)
      BY <1>n, <1>7, <2>1, <2>5
    <3>2. R[i] = P[k + (i + 1)] /\ Tail(program)[i] = program[i + 1] /\ program[i + 1] = P[k + (i + 1)]
      <4>1. (k + 2) + i - 1 = k + (i + 1)
        OBVIOUS
      <4>2. R[i] = P[k + (i + 1)]
        BY <2>4, <4>1
      <4>3. Tail(program)[i] = program[i + 1]
        BY <2>2, <2>5
      <4>4. program[i + 1] = P[k + (i + 1)]
        BY <1>7, <3>1
      <4> QED BY <4>2, <4>3, <4>4
    <3> QED BY <3>2
  <2>7. program' = R
    <3>1. Tail(program) = R
      BY <2>2, <2>3, <2>5, <2>6, SeqEqual
    <3> QED BY <1>10, <3>1
  <2>8. program' = SubSeq(Program(optimize), (k + 1) + 1, Len(Program(optimize)))
    BY <1>2, <1>3, <2>3, <2>7
  <2>9. JobsDone(k + 1)'
    BY <2>8 DEF JobsDone, Remaining
  <2>10. R = <<>> <=> ~ (k + 1 < n)
    <3>1. R = <<>> <=> Len(R) = 0
      BY <2>3, EmptySeq
    <3> QED BY <1>n, <2>1, <2>5, <3>1
  <2>11. R # <<>> => Head(R) = P[k + 2]
    <3>1. R # <<>> => Head(R) = R[1] /\ 1 \in 1 .. Len(R)
      BY <1>n, <2>3, <2>5, <2>10, HeadTailProperties
    <3>2. (k + 2) + 1 - 1 = k + 2
      OBVIOUS
    <3> QED BY <2>4, <3>1, <3>2
  <2> QED BY <2>7, <2>9, <2>10, <2>11 DEF Job
<1>11. program # <<>> => k + 1 \in 0 .. 13
  BY <1>n, <1>8
<1>12. /\ n = 8 => /\ P[1] = "gather" /\ P[2] = "dof" /\ P[3] = "distribute" /\ P[4] = "gather"
                   /\ P[5] = "node" /\ P[6] = "rdof" /\ P[7] = "rnode" /\ P[8] = "mappings"
       /\ n = 12 => /\ P[1] = "gather" /\ P[2] = "dof" /\ P[3] = "distribute" /\ P[4] = "gather"
                    /\ P[5] = "optimizeDOFDistribution" /\ P[6] = "distribute"
                    /\ P[7] = "gather" /\ P[8] = "optimizeDOFLabeling"
                    /\ P[9] = "node" /\ P[10] = "rdof" /\ P[11] = "rnode" /\ P[12] = "mappings"
       /\ n = 8 \/ n = 12
  BY <1>3
<1>13. \/ k = 0 \/ k = 1 \/ k = 2 \/ k = 3 \/ k = 4 \/ k = 5 \/ k = 6 \/ k = 7
       \/ k = 8 \/ k = 9 \/ k = 10 \/ k = 11 \/ k = 12 \/ k = 13
  OBVIOUS
<1>14. (k = 0 => Job = "gather") /\ (Job = "dof" => k = 1)
  BY <1>9, <1>12, <1>13
<1>15. ASSUME NEW next, next = IF k + 1 < n THEN P[k + 2] ELSE "none"
       PROVE  /\ k = 0 => next = "dof"
              /\ k # 0 /\ Job = "gather" =>
                   next \in {"optimizeDOFDistribution", "optimizeDOFLabeling", "node"}
              /\ Job \in {"dof", "optimizeDOFDistribution"} => next = "distribute"
              /\ Job = "distribute" => next = "gather"
              /\ Job = "optimizeDOFLabeling" => next = "node"
              /\ Job = "node" => next = "rdof"
              /\ Job = "rdof" => next = "rnode"
              /\ Job = "rnode" => next = "mappings"
  <2>1. CASE n = 8
    BY <1>9, <1>12, <1>13, <1>15, <2>1
  <2>2. CASE n = 12
    BY <1>9, <1>12, <1>13, <1>15, <2>2
  <2> QED BY <1>12, <2>1, <2>2
<1> QED BY <1>10, <1>11, <1>14, <1>15

\* A step that leaves the program alone leaves the count of the jobs done.
LEMMA ProgramKept ==
  ASSUME NEW k, JobsDone(k), UNCHANGED program
  PROVE  JobsDone(k)' /\ Job' = Job
BY DEF JobsDone, Remaining, Job

-----------------------------------------------------------------------------
(* Which label a node takes                                                *)

\* The holder of a block, this turn and the next
LEMMA HolderFacts ==
  ASSUME NEW r \in Ranks, NEW b \in Ranks, NEW p \in Ranks
  PROVE  /\ (r - b) % Size \in Ranks /\ (b + p) % Size \in Ranks /\ (r - p) % Size \in Ranks
         /\ (r - b) % Size = p <=> b = (r - p) % Size
         /\ b = (r - p) % Size => (b + p) % Size = r
         /\ p < Size - 1 => /\ (b + (p + 1)) % Size \in Ranks
                            /\ (((b + (p + 1)) % Size) - 1) % Size = (b + p) % Size
<1>1. Size \in Nat \ {0} /\ Ranks = 0 .. Size - 1
  BY RanksFacts
<1>2. /\ (r - b) % Size = (IF b <= r THEN r - b ELSE r - b + Size)
      /\ (r - p) % Size = (IF p <= r THEN r - p ELSE r - p + Size)
      /\ (b + p) % Size = (IF b + p < Size THEN b + p ELSE b + p - Size)
      /\ (r - b) % Size \in Ranks /\ (b + p) % Size \in Ranks /\ (r - p) % Size \in Ranks
  BY Turns
<1>3. ASSUME p < Size - 1
      PROVE  /\ (b + (p + 1)) % Size \in Ranks
             /\ (((b + (p + 1)) % Size) - 1) % Size = (b + p) % Size
  <2>1. PICK s \in Ranks : s = p + 1
    BY <1>1, <1>3
  <2>2. (b + s) % Size = (IF b + s < Size THEN b + s ELSE b + s - Size) /\ (b + s) % Size \in Ranks
    BY Turns
  <2>3. PICK h \in Ranks : h = (b + s) % Size
    BY <2>2
  <2>4. (h - 1) % Size = IF 1 <= h THEN h - 1 ELSE h - 1 + Size
    <3>1. 1 \in Ranks
      BY <1>1, <1>3
    <3> QED BY <3>1, Turns
  <2>5. PICK x \in Int : x = (h - 1) % Size
    BY <1>1, <2>4
  <2>6. PICK y \in Int : y = (b + p) % Size
    BY <1>1, <1>2
  <2>7. x = y
    BY <1>1, <1>2, <2>1, <2>2, <2>3, <2>4, <2>5, <2>6
  <2> QED BY <2>1, <2>2, <2>3, <2>5, <2>6, <2>7
<1>4. PICK u \in Ranks, v \in Ranks, w \in Ranks : u = (r - b) % Size /\ v = (r - p) % Size
        /\ w = (b + p) % Size
  BY <1>2
<1>5. u = p <=> b = v
  BY <1>1, <1>2, <1>4
<1>6. b = v => w = r
  BY <1>1, <1>2, <1>4
<1> QED BY <1>2, <1>3, <1>4, <1>5, <1>6

\* Only the label a job is about changes.
LEMMA LabelledFields ==
  ASSUME NEW node \in NodeLabels, NEW v
  PROVE  /\ Labelled(node, v).dof = IF Job \in {"node", "rdof", "rnode"} THEN node.dof ELSE v
         /\ Labelled(node, v).index = IF Job = "node" THEN v ELSE node.index
         /\ Labelled(node, v).rdof = IF Job = "rdof" THEN v ELSE node.rdof
         /\ Labelled(node, v).rindex = IF Job = "rnode" THEN v ELSE node.rindex
         /\ v \in Int => Labelled(node, v) \in NodeLabels
<1>1. CASE Job = "node"
  <2>1. Labelled(node, v) = [node EXCEPT !.index = v]
    BY <1>1 DEF Labelled
  <2> QED BY <1>1, <2>1 DEF NodeLabels
<1>2. CASE Job = "rdof"
  <2>1. Labelled(node, v) = [node EXCEPT !.rdof = v]
    BY <1>2 DEF Labelled
  <2> QED BY <1>2, <2>1 DEF NodeLabels
<1>3. CASE Job = "rnode"
  <2>1. Labelled(node, v) = [node EXCEPT !.rindex = v]
    BY <1>3 DEF Labelled
  <2> QED BY <1>3, <2>1 DEF NodeLabels
<1>4. CASE Job \notin {"node", "rdof", "rnode"}
  <2>1. Labelled(node, v) = [node EXCEPT !.dof = v]
    BY <1>4 DEF Labelled
  <2> QED BY <1>4, <2>1 DEF NodeLabels
<1> QED BY <1>1, <1>2, <1>3, <1>4

\* Keys are numbers.
LEMMA KeyTyped ==
  ASSUME NodesTyped, NEW r \in Ranks, NEW id \in DOMAIN nodes[r]
  PROVE  Key(r, id) \in Int
<1>1. id \in Int /\ nodes[r][id].dof \in Int /\ nodes[r][id].index \in Int
  BY DEF NodesTyped, NodeLabels
<1>2. Key(r, id) = id \/ Key(r, id) = nodes[r][id].index \/ Key(r, id) = nodes[r][id].dof
  BY DEF Key
<1> QED BY <1>1, <1>2

\* A label to come comes from the one block the key is in.
LEMMA LabelFound ==
  ASSUME NodesTyped, RingTyped, NEW r \in Ranks, NEW id \in DOMAIN nodes[r],
         NEW b \in Ranks, ComesFrom(b, r, id)
  PROVE  LabelToCome(r, id) = LabelFrom(b, r, id)
<1>1. \A c \in Ranks : ComesFrom(c, r, id) => c = b
  <2>1. Key(r, id) \in Int
    BY KeyTyped
  <2> QED BY <2>1, BlockUnique DEF ComesFrom, RingTyped
<1>2. (CHOOSE c \in Ranks : ComesFrom(c, r, id)) = b
  BY <1>1
<1> QED BY <1>2 DEF LabelToCome

\* The rank that holds the label of a node is the one that wants it.
LEMMA WantedLabel ==
  ASSUME NodesTyped, RingTyped, ring.phase = "collect",
         NEW r \in Ranks, NEW id \in DOMAIN nodes[r], NEW c, c = BlockCollected(r, ring.p)
  PROVE  /\ c \in Ranks /\ (r - c) % Size = ring.p /\ Holder(c) = r
         /\ WantsLabel(r, id) <=> /\ id \in Participants(r) /\ (Relabels => id \in ring.fresh[r])
                                  /\ ComesFrom(c, r, id)
         /\ LabelFrom(c, r, id) = ring.buf[r][Slot(r, id)]
<1>1. PICK p \in Ranks : p = ring.p
  BY DEF RingTyped
<1>2. c = (r - p) % Size
  BY <1>1 DEF BlockCollected
<1>3. c \in Ranks
  BY <1>2, HolderFacts
<1>4. (r - c) % Size = ring.p /\ Holder(c) = r
  <2>1. (r - c) % Size = p /\ (c + p) % Size = r
    BY <1>2, <1>3, HolderFacts
  <2> QED BY <1>1, <2>1 DEF Holder
<1>5. ring.p >= ring.p
  <2>1. p \in Int
    BY SizeAssumption DEF Ranks
  <2>2. p >= p
    BY <2>1
  <2> QED BY <1>1, <2>2
<1>6. WantsLabel(r, id) <=> /\ id \in Participants(r) /\ (Relabels => id \in ring.fresh[r])
                            /\ ComesFrom(c, r, id)
  BY <1>4, <1>5 DEF WantsLabel, ComesFrom
<1>7. LabelFrom(c, r, id) = ring.buf[r][Slot(r, id)]
  BY <1>4 DEF LabelFrom, Slot
<1> QED BY <1>3, <1>4, <1>6, <1>7

\* What a rank takes from the buffer is the label to come.
LEMMA CollectTakes ==
  ASSUME NodesTyped, RingTyped, Collect, NEW r \in Ranks, NEW id \in DOMAIN nodes[r]
  PROVE  /\ DOMAIN nodes'[r] = DOMAIN nodes[r] /\ DOMAIN FinalNodes[r] = DOMAIN nodes[r]
         /\ WantsLabel(r, id) => /\ nodes'[r][id] = FinalNodes[r][id]
                                 /\ nodes'[r][id] = Labelled(nodes[r][id], ring.buf[r][Slot(r, id)])
         /\ ~ WantsLabel(r, id) => nodes'[r][id] = nodes[r][id]
<1>1. /\ DOMAIN nodes'[r] = DOMAIN nodes[r]
      /\ nodes'[r][id] = IF WantsLabel(r, id) THEN Labelled(nodes[r][id], ring.buf[r][Slot(r, id)])
                         ELSE nodes[r][id]
  BY DEF Collect
<1>2. /\ DOMAIN FinalNodes[r] = DOMAIN nodes[r]
      /\ FinalNodes[r][id] = IF Awaits(r, id) THEN Labelled(nodes[r][id], LabelToCome(r, id))
                             ELSE nodes[r][id]
  BY DEF FinalNodes
<1>3. ASSUME WantsLabel(r, id) PROVE Awaits(r, id) /\ LabelToCome(r, id) = ring.buf[r][Slot(r, id)]
  <2>1. PICK c : c = BlockCollected(r, ring.p)
    OBVIOUS
  <2>2. ring.phase = "collect"
    BY DEF Collect
  <2>3. /\ c \in Ranks /\ id \in Participants(r) /\ (Relabels => id \in ring.fresh[r])
        /\ ComesFrom(c, r, id) /\ LabelFrom(c, r, id) = ring.buf[r][Slot(r, id)]
    BY <1>3, <2>1, <2>2, WantedLabel
  <2>4. Awaits(r, id)
    BY <2>3 DEF Awaits
  <2> QED BY <2>3, <2>4, LabelFound
<1> QED BY <1>1, <1>2, <1>3

-----------------------------------------------------------------------------
(* A ring that collects                                                    *)

\* Before the last turn the ring goes on.
LEMMA RingGoesOn ==
  ASSUME RingShape, RingTyped, Collect, ring.p < Size - 1
  PROVE  /\ ring'.phase = "collect" /\ ring'.p = ring.p + 1 /\ ring'.dist = ring.dist
         /\ ring'.buf = Shifted(ring.buf) /\ DOMAIN ring' = {"phase", "p", "dist", "buf", "fresh"}
         /\ Relabels => \A r \in Ranks : ring'.fresh[r] = {id \in ring.fresh[r] : ~ WantsLabel(r, id)}
         /\ UNCHANGED <<elements, program, dofDist>> /\ Job' = Job /\ Relabels' = Relabels
         /\ ring'.p \in Ranks
         /\ \A b \in Ranks : Holder(b)' \in Ranks /\ ring'.buf[Holder(b)'] = ring.buf[Holder(b)]
<1>1. UNCHANGED <<elements, program, dofDist>>
  BY DEF Collect
<1>2. Job' = Job /\ Relabels' = Relabels
  BY <1>1 DEF Job, Relabels
<1>3. PICK F : F = IF Relabels THEN [r \in Ranks |-> {id \in ring.fresh[r] : ~ WantsLabel(r, id)}]
                   ELSE ring.fresh
  OBVIOUS
<1>4. ring' = [ring EXCEPT !.p = ring.p + 1, !.buf = Shifted(ring.buf), !.fresh = F]
  BY <1>3 DEF Collect, RingShape
<1>5. /\ ring'.phase = "collect" /\ ring'.p = ring.p + 1 /\ ring'.dist = ring.dist
      /\ ring'.buf = Shifted(ring.buf) /\ DOMAIN ring' = {"phase", "p", "dist", "buf", "fresh"}
      /\ ring'.fresh = F
  BY <1>4 DEF Collect, RingShape
<1>6. Relabels => \A r \in Ranks : ring'.fresh[r] = {id \in ring.fresh[r] : ~ WantsLabel(r, id)}
  BY <1>3, <1>5
<1>7. PICK p \in Ranks : p = ring.p /\ p < Size - 1
  BY DEF RingTyped
<1>8. ring'.p \in Ranks
  BY <1>5, <1>7, SizeAssumption DEF Ranks
<1>9. ASSUME NEW b \in Ranks PROVE Holder(b)' \in Ranks /\ ring'.buf[Holder(b)'] = ring.buf[Holder(b)]
  <2>1. PICK s \in Ranks : s = (b + (p + 1)) % Size
    BY <1>7, HolderFacts
  <2>2. Holder(b)' = s
    BY <1>5, <1>7, <2>1 DEF Holder
  <2>3. (s - 1) % Size = Holder(b)
    BY <1>7, <2>1, HolderFacts DEF Holder
  <2>4. Shifted(ring.buf)[s] = ring.buf[(s - 1) % Size]
    BY DEF Shifted
  <2> QED BY <1>5, <2>2, <2>3, <2>4
<1> QED BY <1>1, <1>2, <1>5, <1>6, <1>8, <1>9

\* Before the last turn every node keeps, or has just got, the label to come.
LEMMA CollectGoesOn ==
  ASSUME RingShape, RingTyped, NodesTyped, Collect, ring.p < Size - 1
  PROVE  FinalNodes' = FinalNodes
<1>0. /\ ring'.phase = "collect" /\ ring'.p = ring.p + 1 /\ ring'.dist = ring.dist
      /\ Relabels => \A r \in Ranks : ring'.fresh[r] = {id \in ring.fresh[r] : ~ WantsLabel(r, id)}
      /\ UNCHANGED <<elements, program, dofDist>> /\ Job' = Job /\ Relabels' = Relabels
      /\ \A b \in Ranks : ring'.buf[Holder(b)'] = ring.buf[Holder(b)]
  BY RingGoesOn
<1>1. PICK p \in Ranks : p = ring.p /\ p < Size - 1
  BY DEF RingTyped
<1>2. \A u \in Ranks : u >= p + 1 <=> u >= p /\ u # p
  BY SizeAssumption DEF Ranks
<1>3. ASSUME NEW r \in Ranks, NEW id \in DOMAIN nodes[r] PROVE FinalNodes'[r][id] = FinalNodes[r][id]
  <2>1. PICK c : c = BlockCollected(r, ring.p)
    OBVIOUS
  <2>2. /\ c \in Ranks /\ (r - c) % Size = ring.p /\ Holder(c) = r
        /\ WantsLabel(r, id) <=> /\ id \in Participants(r) /\ (Relabels => id \in ring.fresh[r])
                                 /\ ComesFrom(c, r, id)
        /\ LabelFrom(c, r, id) = ring.buf[r][Slot(r, id)]
    BY <2>1, WantedLabel DEF Collect
  <2>3. \A b \in Ranks : (r - b) % Size \in Ranks /\ ((r - b) % Size = p <=> b = c)
    <3>1. c = (r - p) % Size
      BY <1>1, <2>1 DEF BlockCollected
    <3> QED BY <3>1, HolderFacts
  <2>4. \A b \in Ranks : (r - b) % Size >= ring'.p <=> (r - b) % Size >= ring.p /\ b # c
    BY <1>0, <1>1, <1>2, <2>3
  <2>5. id \in DOMAIN nodes'[r] /\ DOMAIN nodes'[r] = DOMAIN nodes[r]
    BY CollectTakes
  <2>6. Participants(r)' = Participants(r)
    BY <1>0, <2>5 DEF Participants, ReducedNodes
  <2>7. /\ FinalNodes[r][id] = IF Awaits(r, id) THEN Labelled(nodes[r][id], LabelToCome(r, id))
                               ELSE nodes[r][id]
        /\ FinalNodes'[r][id] = IF Awaits(r, id)' THEN Labelled(nodes[r][id], LabelToCome(r, id))'
                                ELSE nodes'[r][id]
    BY <2>5 DEF FinalNodes
  <2>8. CASE WantsLabel(r, id)
    <3>1. nodes'[r][id] = FinalNodes[r][id]
            /\ nodes'[r][id] = Labelled(nodes[r][id], ring.buf[r][Slot(r, id)])
      BY <2>8, CollectTakes
    <3>2. ~ Awaits(r, id)'
      <4>1. CASE Relabels
        <5>1. id \notin ring'.fresh[r]
          BY <1>0, <2>8, <4>1
        <5> QED BY <1>0, <4>1, <5>1 DEF Awaits
      <4>2. CASE ~ Relabels
        <5>1. InBlock(Key(r, id), ring.dist, c)
          BY <2>2, <2>8 DEF ComesFrom
        <5>2. Key(r, id)' \in Int /\ InBlock(Key(r, id)', ring.dist, c)
          <6>1. CASE Job # "optimizeDOFLabeling"
            <7>1. nodes[r][id] \in NodeLabels
              BY DEF NodesTyped
            <7>2. Job \in {"gather", "node", "rdof", "rnode"}
              BY <4>2, <6>1 DEF Collect, RingShape, RingJobs, BlockJobs, Relabels
            <7>3. Job # "gather" => nodes'[r][id].dof = nodes[r][id].dof
              BY <3>1, <7>1, <7>2, LabelledFields
            <7>4. Job = "rnode" => nodes'[r][id].index = nodes[r][id].index
              BY <3>1, <7>1, LabelledFields
            <7>5. Key(r, id)' = Key(r, id)
              BY <1>0, <7>2, <7>3, <7>4 DEF Key
            <7> QED BY <5>1, <7>5, KeyTyped
          <6>2. CASE Job = "optimizeDOFLabeling"
            <7>1. nodes[r][id] \in NodeLabels
              BY DEF NodesTyped
            <7>2. nodes'[r][id].dof = ring.buf[r][Slot(r, id)]
              BY <3>1, <6>2, <7>1, LabelledFields
            <7>3. Key(r, id)' = ring.buf[r][Slot(r, id)]
              BY <1>0, <6>2, <7>2 DEF Key
            <7>4. PICK k : k = Slot(r, id) /\ k = Key(r, id) - ring.dist[c]
              BY <2>1, <6>2 DEF Slot
            <7>5. Key(r, id) \in Int /\ ring.dist[c] \in Int /\ ring.dist[c + 1] \in Int
              BY KeyTyped, <2>2, SizeAssumption DEF RingTyped, Ranks
            <7>6. k \in 0 .. ring.dist[c + 1] - ring.dist[c] - 1
              BY <5>1, <7>4, <7>5 DEF InBlock
            <7>7. ring.buf[r][k] \in ring.dist[c] .. ring.dist[c + 1] - 1
              BY <2>2, <6>2, <7>6 DEF RingTyped, Permutes, Collect
            <7> QED BY <7>3, <7>4, <7>5, <7>7 DEF InBlock
          <6> QED BY <6>1, <6>2
        <5>3. ASSUME NEW b \in Ranks, ComesFrom(b, r, id)' PROVE FALSE
          <6>1. InBlock(Key(r, id)', ring.dist, b) /\ b # c
            BY <1>0, <2>4, <5>3 DEF ComesFrom, InBlock
          <6> QED BY <2>2, <5>2, <6>1, BlockUnique DEF RingTyped
        <5> QED BY <5>3 DEF Awaits
      <4> QED BY <4>1, <4>2
    <3> QED BY <2>7, <3>1, <3>2
  <2>9. CASE ~ WantsLabel(r, id)
    <3>1. nodes'[r][id] = nodes[r][id]
      BY <2>9, CollectTakes
    <3>2. Key(r, id)' = Key(r, id)
      BY <1>0, <3>1 DEF Key
    <3>3. \A b \in Ranks : ComesFrom(b, r, id)' <=> ComesFrom(b, r, id) /\ b # c
      BY <1>0, <2>4, <3>2 DEF ComesFrom, InBlock
    <3>4. \A b \in Ranks : LabelFrom(b, r, id)' = LabelFrom(b, r, id)
      BY <1>0, <3>2 DEF LabelFrom
    <3>5. Relabels => (id \in ring'.fresh[r] <=> id \in ring.fresh[r])
      BY <1>0, <2>9
    <3>6. Awaits(r, id)' <=> Awaits(r, id)
      BY <1>0, <2>2, <2>6, <2>9, <3>3, <3>5 DEF Awaits
    <3>7. ASSUME Awaits(r, id) PROVE LabelToCome(r, id)' = LabelToCome(r, id)
      <4>1. PICK b \in Ranks : ComesFrom(b, r, id)'
        BY <3>6, <3>7 DEF Awaits
      <4>2. LabelToCome(r, id) = LabelFrom(b, r, id)
        BY <3>3, <4>1, LabelFound
      <4>3. \A a \in Ranks : ComesFrom(a, r, id)' => a = b
        <5>1. Key(r, id) \in Int
          BY KeyTyped
        <5> QED BY <3>3, <4>1, <5>1, BlockUnique DEF ComesFrom, RingTyped
      <4>4. LabelToCome(r, id)' = LabelFrom(b, r, id)'
        BY <4>1, <4>3 DEF LabelToCome
      <4> QED BY <3>4, <4>2, <4>4
    <3>8. Labelled(nodes[r][id], LabelToCome(r, id))' = Labelled(nodes'[r][id], LabelToCome(r, id)')
      BY <1>0 DEF Labelled
    <3> QED BY <2>7, <3>1, <3>6, <3>7, <3>8
  <2> QED BY <2>8, <2>9
<1>4. \A r \in Ranks : DOMAIN nodes'[r] = DOMAIN nodes[r]
  BY DEF Collect
<1> QED BY <1>3, <1>4 DEF FinalNodes

\* After the last turn no label is left to come.
LEMMA CollectEnds ==
  ASSUME RingShape, RingTyped, NodesTyped, Collect, ~ (ring.p < Size - 1)
  PROVE  nodes' = FinalNodes
<1>1. PICK p \in Ranks : p = ring.p /\ p = Size - 1
  BY SizeAssumption DEF RingTyped, Ranks
<1>2. ASSUME NEW r \in Ranks, NEW id \in DOMAIN nodes[r] PROVE nodes'[r][id] = FinalNodes[r][id]
  <2>1. CASE WantsLabel(r, id)
    BY <2>1, CollectTakes
  <2>2. CASE ~ WantsLabel(r, id)
    <3>1. PICK c : c = BlockCollected(r, ring.p)
      OBVIOUS
    <3>2. WantsLabel(r, id) <=> /\ id \in Participants(r) /\ (Relabels => id \in ring.fresh[r])
                                /\ ComesFrom(c, r, id)
      BY <3>1, WantedLabel DEF Collect
    <3>3. ASSUME NEW b \in Ranks, ComesFrom(b, r, id) PROVE b = c
      <4>1. (r - b) % Size >= p /\ (r - b) % Size \in Ranks
        BY <1>1, <3>3, HolderFacts DEF ComesFrom
      <4>2. PICK u \in Ranks : u = (r - b) % Size
        BY <4>1
      <4>3. u = p
        BY <1>1, <4>1, <4>2, SizeAssumption DEF Ranks
      <4>4. b = (r - p) % Size
        BY <4>2, <4>3, HolderFacts
      <4> QED BY <1>1, <3>1, <4>4 DEF BlockCollected
    <3>4. ~ Awaits(r, id)
      BY <2>2, <3>2, <3>3 DEF Awaits
    <3>5. nodes'[r][id] = nodes[r][id]
      BY <2>2, CollectTakes
    <3> QED BY <3>4, <3>5 DEF FinalNodes
  <2> QED BY <2>1, <2>2
<1>3. \A r \in Ranks : DOMAIN nodes'[r] = DOMAIN nodes[r] /\ DOMAIN FinalNodes[r] = DOMAIN nodes[r]
  BY DEF Collect, FinalNodes
<1>4. /\ nodes' = [r \in Ranks |-> nodes'[r]] /\ FinalNodes = [r \in Ranks |-> FinalNodes[r]]
      /\ \A r \in Ranks : /\ nodes'[r] = [id \in DOMAIN nodes'[r] |-> nodes'[r][id]]
                          /\ FinalNodes[r] = [id \in DOMAIN FinalNodes[r] |-> FinalNodes[r][id]]
  <2>1. nodes' = [r \in Ranks |-> nodes'[r]] /\ FinalNodes = [r \in Ranks |-> FinalNodes[r]]
    BY DEF Collect, FinalNodes
  <2>2. \A r \in Ranks : /\ nodes'[r] = [id \in DOMAIN nodes'[r] |-> nodes'[r][id]]
                         /\ FinalNodes[r] = [id \in DOMAIN FinalNodes[r] |-> FinalNodes[r][id]]
    BY DEF Collect, FinalNodes
  <2> QED BY <2>1, <2>2
<1>5. \A r \in Ranks : nodes'[r] = FinalNodes[r]
  BY <1>2, <1>3, <1>4
<1> QED BY <1>4, <1>5

\* What is known of node files depends on the elements and on the distribution.
LEMMA KnownStays ==
  ASSUME NEW level, NEW N, UNCHANGED <<elements, dofDist>>
  PROVE  Known(level, N)' <=> Known(level, N)
<1>1. /\ \A r : UsedNodes(r)' = UsedNodes(r) /\ ReducedNodes(r)' = ReducedNodes(r)
      /\ InUse' = InUse /\ (Kept' <=> Kept)
  BY DEF UsedNodes, ReducedNodes, InUse, Kept
<1>2. (SameDofs(N)' <=> SameDofs(N)) /\ (NodesNumbered(N)' <=> NodesNumbered(N))
        /\ Stored(N)' = Stored(N)
  BY DEF SameDofs, NodesNumbered, Stored, Indices
<1>3. (DofsNumbered(N)' <=> DofsNumbered(N)) /\ (Gathered(N)' <=> Gathered(N))
  BY DEF DofsNumbered, DistTyped, Gathered
<1>4. ReducedLabelled(level, N)' <=> ReducedLabelled(level, N)
  <2>1. ReducedDofs(N)' = ReducedDofs(N) /\ ReducedIndices(N)' = ReducedIndices(N)
    BY <1>1 DEF ReducedDofs, ReducedIndices
  <2> QED BY <1>1, <2>1 DEF ReducedLabelled
<1> QED BY <1>1, <1>2, <1>3, <1>4 DEF Known

\* The knowledge a ring leaves is what the next job starts from.
LEMMA LevelsMeet ==
  ASSUME NEW k \in 0 .. 13, Where(k), Job \in RingJobs, program' = Tail(program), UNCHANGED dofDist
  PROVE  k + 1 \in 0 .. 13 /\ Where(k + 1)' /\ Level' = LevelAfter
<1>1. program # <<>>
  BY DEF Job, RingJobs, BlockJobs
<1>2. JobsDone(k)
  BY DEF Where
<1>3. /\ k = 0 => Job = "gather"
      /\ k + 1 \in 0 .. 13
      /\ JobsDone(k + 1)'
      /\ k = 0 => Job' = "dof"
      /\ k # 0 /\ Job = "gather" =>
           Job' \in {"optimizeDOFDistribution", "optimizeDOFLabeling", "node"}
      /\ Job \in {"dof", "optimizeDOFDistribution"} => Job' = "distribute"
      /\ Job = "optimizeDOFLabeling" => Job' = "node"
      /\ Job = "node" => Job' = "rdof"
      /\ Job = "rdof" => Job' = "rnode"
      /\ Job = "rnode" => Job' = "mappings"
  BY <1>1, <1>2, JobFacts
<1>4. Job' # "gather"
  BY <1>3 DEF RingJobs, BlockJobs
<1>5. Where(k + 1)'
  BY <1>3, <1>4 DEF Where
<1>6. Level' = LevelAfter
  <2>1. CASE Job = "gather" /\ k = 0
    <3>1. dofDist = <<>> /\ Job' = "dof"
      BY <1>3, <2>1 DEF Where
    <3> QED BY <2>1, <3>1 DEF Level, LevelAfter
  <2>2. CASE Job = "gather" /\ k # 0
    <3>1. dofDist # <<>> /\ Job' \in {"optimizeDOFDistribution", "optimizeDOFLabeling", "node"}
      BY <1>3, <2>2 DEF Where
    <3> QED BY <2>2, <3>1 DEF Level, LevelAfter
  <2>3. CASE Job \in {"dof", "optimizeDOFDistribution"}
    BY <1>3, <2>3 DEF Level, LevelAfter
  <2>4. CASE Job = "optimizeDOFLabeling"
    BY <1>3, <2>4 DEF Level, LevelAfter
  <2>5. CASE Job = "node"
    BY <1>3, <2>5 DEF Level, LevelAfter
  <2>6. CASE Job = "rdof"
    BY <1>3, <2>6 DEF Level, LevelAfter
  <2>7. CASE Job = "rnode"
    BY <1>3, <2>7 DEF Level, LevelAfter
  <2> QED BY <2>1, <2>2, <2>3, <2>4, <2>5, <2>6, <2>7 DEF RingJobs, BlockJobs
<1> QED BY <1>3, <1>5, <1>6

\* Collecting leaves what the ring was to leave.
LEMMA CollectStep ==
  ASSUME MeshInv, Collect
  PROVE  MeshInv'
<1>1. /\ NodesTyped /\ ElementsTyped /\ RingShape /\ RingTyped /\ ring.phase = "collect"
      /\ Known(LevelAfter, FinalNodes)
  BY DEF MeshInv, Collect
<1>2. PICK k \in 0 .. 13 : Where(k)
  BY DEF MeshInv
<1>3. UNCHANGED <<elements, dofDist>>
  BY DEF Collect
<1>4. NodesTyped'
  <2>1. ASSUME NEW r \in Ranks, NEW id \in DOMAIN nodes[r] PROVE nodes'[r][id] \in NodeLabels
    <3>1. FinalNodes[r][id] \in NodeLabels
      <4>1. DOMAIN FinalNodes[r] = DOMAIN nodes[r]
        BY <1>1, CollectTakes
      <4> QED BY <1>1, <4>1 DEF Known
    <3>2. nodes[r][id] \in NodeLabels
      BY <1>1 DEF NodesTyped
    <3> QED BY <1>1, <3>1, <3>2, CollectTakes
  <2>2. \A r \in Ranks : DOMAIN nodes'[r] = DOMAIN nodes[r]
    BY DEF Collect
  <2> QED BY <1>1, <2>1, <2>2 DEF NodesTyped
<1>5. ElementsTyped'
  BY <1>1, <1>3 DEF ElementsTyped
<1>6. CASE ring.p < Size - 1
  <2>1. /\ ring'.phase = "collect" /\ ring'.p \in Ranks /\ ring'.dist = ring.dist
        /\ ring'.buf = Shifted(ring.buf) /\ DOMAIN ring' = {"phase", "p", "dist", "buf", "fresh"}
        /\ UNCHANGED program /\ Job' = Job
        /\ \A b \in Ranks : ring'.buf[Holder(b)'] = ring.buf[Holder(b)]
    BY <1>1, <1>6, RingGoesOn
  <2>2. RingShape'
    BY <1>1, <2>1 DEF RingShape
  <2>3. RingTyped'
    <3>1. DOMAIN ring'.buf = Ranks
      BY <2>1 DEF Shifted
    <3>2. Job = "optimizeDOFLabeling" => Permutes'
      BY <1>1, <2>1 DEF RingTyped, Permutes
    <3> QED BY <1>1, <2>1, <3>1, <3>2 DEF RingTyped
  <2>4. Where(k)'
    BY <1>2, <1>3, <2>1, ProgramKept DEF Where
  <2>5. Known(LevelAfter, FinalNodes)'
    <3>1. PICK l, N : l = LevelAfter /\ N = FinalNodes
      OBVIOUS
    <3>2. l = LevelAfter' /\ N = FinalNodes'
      <4>1. LevelAfter' = LevelAfter
        BY <1>3, <2>1 DEF LevelAfter
      <4> QED BY <1>1, <1>6, <3>1, <4>1, CollectGoesOn
    <3>3. Known(l, N)'
      <4>1. Known(l, N)
        BY <1>1, <3>1
      <4> QED BY <1>3, <4>1, KnownStays
    <3> QED BY <3>2, <3>3
  <2> QED BY <1>4, <1>5, <2>1, <2>2, <2>3, <2>4, <2>5 DEF MeshInv
<1>7. CASE ~ (ring.p < Size - 1)
  <2>1. ring' = Idle /\ program' = Tail(program)
    BY <1>7 DEF Collect
  <2>2. ring'.phase = "idle"
    BY <2>1 DEF Idle
  <2>3. RingShape'
    BY <2>1 DEF RingShape, Idle
  <2>4. k + 1 \in 0 .. 13 /\ Where(k + 1)' /\ Level' = LevelAfter
    <3>1. Job \in RingJobs
      BY <1>1 DEF RingShape
    <3> QED BY <1>2, <1>3, <2>1, <3>1, LevelsMeet
  <2>5. Known(Level, nodes)'
    <3>1. PICK l, N : l = LevelAfter /\ N = FinalNodes
      OBVIOUS
    <3>2. l = Level' /\ N = nodes'
      BY <1>1, <1>7, <2>4, <3>1, CollectEnds
    <3>3. Known(l, N)'
      <4>1. Known(l, N)
        BY <1>1, <3>1
      <4> QED BY <1>3, <4>1, KnownStays
    <3> QED BY <3>2, <3>3
  <2> QED BY <1>4, <1>5, <2>2, <2>3, <2>4, <2>5 DEF MeshInv
<1> QED BY <1>6, <1>7

-----------------------------------------------------------------------------
(* A ring that starts                                                      *)

\* A rank's elements use finitely many nodes; the linear ones are among them.
LEMMA UsedFacts ==
  ASSUME ElementsTyped, NEW r \in Ranks
  PROVE  /\ IsFiniteSet(UsedNodes(r)) /\ UsedNodes(r) \subseteq Int
         /\ ReducedNodes(r) \subseteq UsedNodes(r)
<1> DEFINE used == [e \in elements[r] |-> e.nodes]
<1>1. UsedNodes(r) = UNION {used[e] : e \in elements[r]}
  BY DEF UsedNodes
<1>2. IsFiniteSet(elements[r]) /\ \A e \in elements[r] : IsFiniteSet(used[e]) /\ used[e] \subseteq Int
  BY DEF ElementsTyped
<1>3. ReducedNodes(r) \subseteq UsedNodes(r)
  BY DEF ElementsTyped, ReducedNodes, UsedNodes
<1> HIDE DEF used
<1> QED BY <1>1, <1>2, <1>3, FiniteUnion

\* The numbers f assigns to finitely many nodes on every rank are finitely many.
LEMMA LabelsFinite ==
  ASSUME NodesTyped, NEW part \in [Ranks -> SUBSET Int], \A r \in Ranks : part[r] \subseteq DOMAIN nodes[r],
         NEW f, \A r \in Ranks : \A id \in part[r] : f[r][id] \in Int,
         NEW S, S = UNION {{f[r][id] : id \in part[r]} : r \in Ranks}
  PROVE  S \in SUBSET Int /\ IsFiniteSet(S)
<1> DEFINE here == [r \in Ranks |-> {f[r][id] : id \in part[r]}]
<1>1. S = UNION {here[r] : r \in Ranks}
  OBVIOUS
<1>2. ASSUME NEW r \in Ranks PROVE IsFiniteSet(here[r])
  <2>1. PICK g : g = f[r]
    OBVIOUS
  <2>2. here[r] = {g[id] : id \in part[r]}
    BY <2>1
  <2>3. IsFiniteSet(part[r])
    BY FS_Subset DEF NodesTyped
  <2> HIDE DEF here
  <2> QED BY <2>2, <2>3, FiniteRange
<1>3. IsFiniteSet(Ranks)
  BY RanksFacts
<1>4. S \subseteq Int
  OBVIOUS
<1> HIDE DEF here
<1>5. IsFiniteSet(UNION {here[r] : r \in Ranks})
  BY <1>2, <1>3, FiniteUnion
<1> QED BY <1>1, <1>4, <1>5

\* A ring finds keys, finitely many, and its range covers them.
LEMMA KeysFacts ==
  ASSUME NodesTyped, NEW level, Known(level, nodes)
  PROVE  /\ Keys \in SUBSET Int /\ IsFiniteSet(Keys)
         /\ Min(Keys) \in Int /\ KeyCount \in Nat
         /\ \A r \in Ranks : \A id \in DOMAIN nodes[r] :
              Key(r, id) \in Int /\ Key(r, id) \in Min(Keys) .. Min(Keys) + KeyCount - 1
<1>1. Keys \in SUBSET Int /\ IsFiniteSet(Keys)
  <2> DEFINE f == [r \in Ranks |-> [id \in DOMAIN nodes[r] |-> Key(r, id)]]
             part == [r \in Ranks |-> DOMAIN nodes[r]]
  <2>1. part \in [Ranks -> SUBSET Int] /\ \A r \in Ranks : part[r] \subseteq DOMAIN nodes[r]
    BY DEF NodesTyped
  <2>2. \A r \in Ranks : \A id \in part[r] : f[r][id] = Key(r, id) /\ f[r][id] \in Int
    BY KeyTyped
  <2>t. \A r \in Ranks : part[r] = DOMAIN nodes[r]
    OBVIOUS
  <2> HIDE DEF f, part
  <2>3. Keys = UNION {{f[r][id] : id \in part[r]} : r \in Ranks}
    <3>1. \A r \in Ranks : {Key(r, id) : id \in DOMAIN nodes[r]} = {f[r][id] : id \in part[r]}
      BY <2>2, <2>t
    <3>2. PICK g : g = [r \in Ranks |-> {Key(r, id) : id \in DOMAIN nodes[r]}]
      OBVIOUS
    <3>3. \A r \in Ranks : g[r] = {Key(r, id) : id \in DOMAIN nodes[r]}
            /\ g[r] = {f[r][id] : id \in part[r]}
      BY <3>1, <3>2
    <3>4. Keys = UNION {g[r] : r \in Ranks}
      BY <3>3 DEF Keys
    <3>5. UNION {{f[r][id] : id \in part[r]} : r \in Ranks} = UNION {g[r] : r \in Ranks}
      BY <3>3
    <3> QED BY <3>4, <3>5
  <2> QED BY <2>1, <2>2, <2>3, LabelsFinite
<1>2. Keys # {}
  <2>1. \E r \in Ranks : DOMAIN nodes[r] # {}
    BY DEF Known, InUse, Stored
  <2> QED BY <2>1 DEF Keys
<1>3. Min(Keys) \in Keys /\ Max(Keys) \in Keys /\ \A x \in Keys : Min(Keys) <= x /\ x <= Max(Keys)
  BY <1>1, <1>2, MinMax
<1>4. PICK lo \in Int, hi \in Int : lo = Min(Keys) /\ hi = Max(Keys)
  BY <1>1, <1>3
<1>5. KeyCount = hi - lo + 1 /\ lo <= hi
  BY <1>3, <1>4 DEF KeyCount
<1>6. ASSUME NEW r \in Ranks, NEW id \in DOMAIN nodes[r]
      PROVE  Key(r, id) \in Int /\ Key(r, id) \in Min(Keys) .. Min(Keys) + KeyCount - 1
  <2>1. PICK x \in Keys : x = Key(r, id)
    BY DEF Keys
  <2>2. x \in Int /\ lo <= x /\ x <= hi
    BY <1>1, <1>3, <1>4
  <2> QED BY <1>4, <1>5, <2>1, <2>2
<1> QED BY <1>1, <1>4, <1>5, <1>6

\* Between steps that change neither labels nor elements nor the job, as much
\* is known as before.
LEMMA KnownKept ==
  ASSUME UNCHANGED <<nodes, elements, program, dofDist>>, Known(Level, nodes)
  PROVE  Known(Level, nodes)'
<1>1. PICK l, N : l = Level /\ N = nodes
  OBVIOUS
<1>2. Job' = Job
  BY DEF Job
<1>3. l = Level' /\ N = nodes'
  BY <1>1, <1>2 DEF Level
<1>4. Known(l, N)'
  <2>1. Known(l, N)
    BY <1>1
  <2> QED BY <2>1, KnownStays
<1> QED BY <1>3, <1>4

\* A ring starts with empty buffers that have room for every block.
LEMMA StartRingStep ==
  ASSUME MeshInv, StartRing
  PROVE  MeshInv'
<1>1. NodesTyped /\ ElementsTyped /\ RingShape /\ Known(Level, nodes) /\ ring.phase = "idle"
        /\ Job \in BlockJobs
  BY DEF MeshInv, StartRing, BlockJobs
<1>2. PICK k \in 0 .. 13 : Where(k)
  BY DEF MeshInv
<1>3. UNCHANGED <<nodes, elements, program, dofDist>>
  BY DEF StartRing
<1>4. /\ Job' = Job /\ Where(k)' /\ NodesTyped' /\ ElementsTyped'
      /\ \A r, id : Key(r, id)' = Key(r, id)
  <2>1. Job' = Job
    BY <1>3 DEF Job
  <2>2. Where(k)'
    BY <1>2, <1>3, ProgramKept DEF Where
  <2>3. \A r, id : Key(r, id)' = Key(r, id)
    BY <1>3, <2>1 DEF Key
  <2> QED BY <1>1, <1>3, <2>1, <2>2, <2>3 DEF NodesTyped, ElementsTyped
<1>5. PICK first \in Int, n \in Nat : first = Min(Keys) /\ n = KeyCount
  BY <1>1, KeysFacts
<1>6. /\ DOMAIN ring' = {"phase", "p", "dist", "buf", "fresh"}
      /\ ring'.phase = "fill" /\ ring'.p = 0 /\ ring'.dist = Blocks(first, n)
      /\ DOMAIN ring'.buf = Ranks
      /\ \A r \in Ranks : ring'.buf[r] = [j \in 0 .. LongestBlock(n, Size) - 1 |-> Unset]
      /\ \A r \in Ranks : ring'.fresh[r] = DOMAIN nodes'[r]
  BY <1>3, <1>5 DEF StartRing
<1>7. RingShape'
  BY <1>1, <1>4, <1>6 DEF RingShape, RingJobs
<1>8. /\ Blocks(first, n) \in [0 .. Size -> Int] /\ Ordered(Blocks(first, n))
      /\ Blocks(first, n)[0] = first /\ Blocks(first, n)[Size] = first + n
  BY BlocksFacts, BlocksOrdered
<1>9. RingTyped'
  BY <1>6, <1>8, RanksFacts DEF RingTyped, Ordered
<1>10. FillInv'
  <2>1. HasRoom'
    <3>1. ASSUME NEW b \in Ranks, NEW j \in 0 .. Blocks(first, n)[b + 1] - Blocks(first, n)[b] - 1
          PROVE  j \in 0 .. LongestBlock(n, Size) - 1
      <4>1. PICK x \in Int, y \in Int : x = Blocks(first, n)[b] /\ y = Blocks(first, n)[b + 1]
        <5>1. b \in 0 .. Size /\ b + 1 \in 0 .. Size
          BY RanksFacts
        <5> QED BY <1>8, <5>1
      <4>2. InBlock(x + j, Blocks(first, n), b) /\ x + j \in Int /\ (x + j) - x = j
        BY <4>1 DEF InBlock
      <4>3. (x + j) - Blocks(first, n)[b] \in 0 .. LongestBlock(n, Size) - 1
        BY <4>2, BlocksFacts
      <4> QED BY <4>1, <4>2, <4>3
    <3>2. \A r \in Ranks : DOMAIN ring'.buf[r] = 0 .. LongestBlock(n, Size) - 1
      BY <1>6
    <3>3. PICK B, T : B = Blocks(first, n) /\ T = 0 .. LongestBlock(n, Size) - 1
      OBVIOUS
    <3>4. \A b \in Ranks : 0 .. B[b + 1] - B[b] - 1 \subseteq T
      BY <3>1, <3>3
    <3>5. ring'.dist = B /\ \A r \in Ranks : DOMAIN ring'.buf[r] = T
      BY <1>6, <3>2, <3>3
    <3> QED BY <3>4, <3>5 DEF HasRoom
  <2>2. ASSUME NEW r \in Ranks, NEW id \in DOMAIN nodes'[r]
        PROVE  Key(r, id)' \in ring'.dist[0] .. ring'.dist[Size] - 1
    <3>1. Key(r, id) \in first .. first + n - 1
      BY <1>1, <1>3, <1>5, <2>2, KeysFacts
    <3> QED BY <1>4, <1>6, <1>8, <3>1
  <2>3. \A r \in Ranks : Visited(r)' = {}
    <3>1. \A r, q \in Ranks : ~ ((r - q) % Size < 0)
      BY HolderFacts, RanksFacts
    <3> QED BY <1>6, <3>1 DEF Visited
  <2>4. ASSUME NEW r \in Ranks, NEW j \in DOMAIN ring'.buf[r] PROVE Filled(r, j)'
    <3>1. ~ MarkedBy(Visited(r), BlockHeld(r), j)'
      BY <2>3 DEF MarkedBy
    <3>2. ring'.buf[r][j] = Unset
      <4>1. ring'.buf[r] = [i \in 0 .. LongestBlock(n, Size) - 1 |-> Unset]
        BY <1>6
      <4> QED BY <2>4, <4>1
    <3> QED BY <3>1, <3>2 DEF Filled, Holds
  <2> QED BY <1>1, <1>4, <1>6, <2>1, <2>2, <2>4 DEF FillInv, BlockJobs
<1>11. Known(Level, nodes)'
  BY <1>1, <1>3, KnownKept
<1> QED BY <1>4, <1>6, <1>7, <1>9, <1>10, <1>11 DEF MeshInv

-----------------------------------------------------------------------------
(* A ring that fills                                                       *)

\* The nodes that take part are a rank's own.
LEMMA ParticipantsHere ==
  ASSUME ElementsTyped, Known(Level, nodes), NEW r \in Ranks
  PROVE  Participants(r) \subseteq DOMAIN nodes[r]
<1>1. CASE Job \in {"rdof", "rnode"}
  <2>1. Level \in {5, 6}
    BY <1>1 DEF Level
  <2>2. DOMAIN nodes[r] = UsedNodes(r)
    BY <2>1 DEF Known
  <2> QED BY <1>1, <2>2, UsedFacts DEF Participants
<1>2. CASE Job \notin {"rdof", "rnode"}
  BY <1>2 DEF Participants
<1> QED BY <1>1, <1>2

\* The block a rank fills is the one its predecessor filled before, and after
\* the last turn its own.
LEMMA FillTurns ==
  ASSUME NEW r \in Ranks, NEW p \in Ranks, NEW s, s = (r - 1) % Size, NEW c, c = BlockFilled(r, p)
  PROVE  /\ c \in Ranks /\ s \in Ranks
         /\ c = (r - (p + 1)) % Size
         /\ p > 0 => c = (s - p) % Size
         /\ p = Size - 1 => c = r
         /\ \A q \in Ranks : (r - q) % Size < p + 1 <=> q = r \/ (p > 0 /\ (s - q) % Size < p)
         /\ \A q \in Ranks : (r - q) % Size < Size
<1>1. Size \in Nat \ {0} /\ Ranks = 0 .. Size - 1
  BY RanksFacts
<1>2. s \in Ranks /\ c \in Ranks /\ s = IF 1 <= r THEN r - 1 ELSE r - 1 + Size
  <2>1. r - 1 \in Int /\ r - 1 - p \in Int
    BY <1>1
  <2>2. s \in Ranks /\ c \in Ranks
    BY <2>1, RanksFacts DEF BlockFilled
  <2>3. PICK n \in Int : n = r - 1
    BY <1>1
  <2>4. /\ n \in Ranks => n % Size = n
        /\ n + Size \in Ranks => n % Size = n + Size
    BY Modulo
  <2>5. s = IF 1 <= r THEN n ELSE n + Size
    BY <1>1, <2>3, <2>4
  <2> QED BY <1>1, <2>2, <2>3, <2>5
<1>3. PICK n \in Int : n = r - 1 - p /\ n = r - (p + 1)
  BY <1>1
<1>4. /\ n \in Ranks => n % Size = n
      /\ n + Size \in Ranks => n % Size = n + Size
  BY Modulo
<1>5. c = n % Size
  BY <1>3 DEF BlockFilled
<1>6. c = IF p < r THEN r - 1 - p ELSE r - 1 - p + Size
  BY <1>1, <1>3, <1>4, <1>5
<1>7. (s - p) % Size = IF p <= s THEN s - p ELSE s - p + Size
  BY <1>2, Turns
<1>8. ASSUME p > 0 PROVE c = (s - p) % Size
  <2>1. PICK x \in Int : x = (s - p) % Size
    BY <1>1, <1>2, <1>7
  <2>2. x = c
    BY <1>1, <1>2, <1>6, <1>7, <1>8, <2>1
  <2> QED BY <2>1, <2>2
<1>9. p = Size - 1 => c = r
  BY <1>1, <1>6
<1>10. ASSUME NEW q \in Ranks
       PROVE  /\ (r - q) % Size < p + 1 <=> q = r \/ (p > 0 /\ (s - q) % Size < p)
              /\ (r - q) % Size < Size
  <2>1. /\ (r - q) % Size = IF q <= r THEN r - q ELSE r - q + Size
        /\ (s - q) % Size = IF q <= s THEN s - q ELSE s - q + Size
        /\ (r - q) % Size \in Ranks /\ (s - q) % Size \in Ranks
    BY <1>2, Turns
  <2>2. PICK d \in Ranks, u \in Ranks : d = (r - q) % Size /\ u = (s - q) % Size
    BY <2>1
  <2>3. /\ d = IF q <= r THEN r - q ELSE r - q + Size
        /\ u = IF q <= s THEN s - q ELSE s - q + Size
    BY <2>1, <2>2
  <2>4. CASE q = r
    <3>1. d = 0
      BY <1>1, <2>3, <2>4
    <3> QED BY <1>1, <2>2, <2>4, <3>1
  <2>5. CASE q # r
    <3>1. d = u + 1
      BY <1>1, <1>2, <2>3, <2>5
    <3> QED BY <1>1, <2>2, <2>5, <3>1
  <2> QED BY <2>4, <2>5
<1> QED BY <1>2, <1>3, <1>5, <1>8, <1>9, <1>10

\* What a buffer holds after a rank has filled it: the marks, or labels, of the
\* ranks it had been to and of this rank.
LEMMA FillSpread ==
  ASSUME RingShape, RingTyped, FillInv, Fill, \A q \in Ranks : Participants(q) \subseteq DOMAIN nodes[q],
         NEW r \in Ranks, NEW c, c = BlockFilled(r, ring.p),
         NEW V \in SUBSET Ranks, \A q \in Ranks : q \in V <=> (r - q) % Size < ring.p + 1
  PROVE  /\ \A b \in Ranks : 0 .. ring.dist[b + 1] - ring.dist[b] - 1 \subseteq DOMAIN ring'.buf[r]
         /\ \A k \in DOMAIN ring'.buf[r] : Holds(ring'.buf[r][k], V, c, k)
<1>1. PICK p \in Ranks : p = ring.p
  BY DEF RingTyped
<1>2. PICK s : s = (r - 1) % Size
  OBVIOUS
<1>3. /\ c \in Ranks /\ s \in Ranks
      /\ p > 0 => c = (s - p) % Size
      /\ \A q \in Ranks : (r - q) % Size < p + 1 <=> q = r \/ (p > 0 /\ (s - q) % Size < p)
  BY <1>1, <1>2, FillTurns
<1>4. PICK held : held = IF ring.p > 0 THEN Shifted(ring.buf) ELSE ring.buf
  OBVIOUS
<1>5. held[r] = IF p > 0 THEN ring.buf[s] ELSE ring.buf[r]
  BY <1>1, <1>2, <1>4 DEF Shifted
<1>6. ring'.buf[r] = FilledBuffer(r, held[r])
  <2>1. PICK B : B = [q \in Ranks |-> FilledBuffer(q, held[q])]
    OBVIOUS
  <2>2. ring' = [ring EXCEPT !.buf = B,
                   !.p = IF ring.p = Size - 1 THEN 0 ELSE @ + 1,
                   !.phase = IF ~ (ring.p = Size - 1) THEN @
                             ELSE IF Job = "gather" THEN "collect" ELSE "number"]
    BY <1>4, <2>1 DEF Fill
  <2>3. ring'.buf = B
    BY <2>2 DEF RingShape
  <2> QED BY <2>1, <2>3
<1>7. PICK h : h = held[r]
  OBVIOUS
<1>8. DOMAIN ring'.buf[r] = DOMAIN h
  BY <1>6, <1>7 DEF FilledBuffer
<1>9. \A b \in Ranks : 0 .. ring.dist[b + 1] - ring.dist[b] - 1 \subseteq DOMAIN ring'.buf[r]
  BY <1>3, <1>5, <1>7, <1>8 DEF FillInv, HasRoom
<1>10. ASSUME NEW k \in DOMAIN h PROVE Holds(ring'.buf[r][k], V, c, k)
  <2> DEFINE hits == {id \in Participants(r) : /\ InBlock(Key(r, id), ring.dist, c)
                                               /\ Key(r, id) - ring.dist[c] = k}
  <2>1. ring'.buf[r][k] = IF hits = {} THEN h[k]
                          ELSE IF Job = "gather" THEN nodes[r][CHOOSE id \in hits : TRUE].dof ELSE Set
    BY <1>6, <1>7 DEF FilledBuffer
  <2>2. \A id : id \in hits <=> id \in DOMAIN nodes[r] /\ Fills(r, id, c, k)
    BY DEF Fills
  <2>3. r \in V /\ V \subseteq Ranks /\ \A q \in Ranks :
          q \in V <=> q = r \/ (p > 0 /\ (s - q) % Size < p)
    BY <1>1, <1>3
  <2> HIDE DEF hits
  <2>4. CASE hits # {}
    <3>1. PICK i : i = CHOOSE id \in hits : TRUE
      OBVIOUS
    <3>2. i \in DOMAIN nodes[r] /\ Fills(r, i, c, k)
      BY <2>2, <2>4, <3>1
    <3>3. MarkedBy(V, c, k)
      BY <2>3, <3>2 DEF MarkedBy
    <3>4. ring'.buf[r][k] = IF Job = "gather" THEN nodes[r][i].dof ELSE Set
      BY <2>1, <2>4, <3>1
    <3> QED BY <2>3, <3>2, <3>3, <3>4 DEF Holds
  <2>5. CASE hits = {}
    <3>1. ring'.buf[r][k] = h[k]
      BY <2>1, <2>5
    <3>2. CASE p > 0
      <4>1. h = ring.buf[s] /\ Filled(s, k)
        BY <1>3, <1>5, <1>7, <1>10, <3>2 DEF FillInv
      <4>2. BlockHeld(s) = c /\ Visited(s) = {q \in Ranks : (s - q) % Size < p}
        BY <1>1, <1>3, <3>2 DEF BlockHeld, Visited, Fill
      <4>3. PICK W : W = Visited(s)
        OBVIOUS
      <4>4. \A q : q \in V <=> q = r \/ q \in W
        BY <2>3, <3>2, <4>2, <4>3
      <4>5. \A id \in DOMAIN nodes[r] : ~ Fills(r, id, c, k)
        BY <2>2, <2>5
      <4>6. MarkedBy(W, c, k) <=> MarkedBy(V, c, k)
        BY <4>4, <4>5 DEF MarkedBy
      <4>7. Holds(h[k], W, c, k)
        BY <4>1, <4>2, <4>3 DEF Filled
      <4> QED BY <3>1, <4>4, <4>6, <4>7 DEF Holds
    <3>3. CASE ~ (p > 0)
      <4>1. h = ring.buf[r] /\ Filled(r, k)
        BY <1>5, <1>7, <1>10, <3>3 DEF FillInv
      <4>2. Visited(r) = {}
        <5>1. p = 0
          BY <3>3, RanksFacts
        <5>2. \A q \in Ranks : ~ ((r - q) % Size < p)
          BY <5>1, HolderFacts, RanksFacts
        <5> QED BY <1>1, <5>2 DEF Visited, Fill
      <4>3. ~ MarkedBy(Visited(r), BlockHeld(r), k)
        BY <4>2 DEF MarkedBy
      <4>4. ~ MarkedBy(V, c, k)
        BY <2>2, <2>3, <2>5, <3>3 DEF MarkedBy
      <4>5. Job # "gather" => h[k] = Unset
        BY <4>1, <4>3 DEF Filled, Holds
      <4> QED BY <3>1, <4>4, <4>5 DEF Holds
    <3> QED BY <3>2, <3>3
  <2> QED BY <2>4, <2>5
<1> QED BY <1>8, <1>9, <1>10

\* What a step of Fill does to the ring
LEMMA FillRing ==
  ASSUME RingShape, RingTyped, Fill
  PROVE  /\ ring.phase = "fill" /\ UNCHANGED <<elements, program, dofDist>> /\ Job' = Job
         /\ DOMAIN ring' = {"phase", "p", "dist", "buf", "fresh"}
         /\ ring'.dist = ring.dist /\ ring'.fresh = ring.fresh /\ DOMAIN ring'.buf = Ranks
         /\ ring'.p = IF ring.p = Size - 1 THEN 0 ELSE ring.p + 1
         /\ ring'.p \in Ranks
         /\ ring'.phase = IF ring.p # Size - 1 THEN "fill" ELSE IF Job = "gather" THEN "collect" ELSE "number"
         /\ nodes' = IF ring.p = Size - 1 /\ Job = "gather"
                     THEN [r \in Ranks |-> [id \in UsedNodes(r) |-> Unlabelled(Unset)]] ELSE nodes
<1>1. PICK B : /\ DOMAIN B = Ranks
               /\ ring' = [ring EXCEPT !.buf = B,
                             !.p = IF ring.p = Size - 1 THEN 0 ELSE @ + 1,
                             !.phase = IF ~ (ring.p = Size - 1) THEN @
                                       ELSE IF Job = "gather" THEN "collect" ELSE "number"]
  <2>1. PICK B : B = [q \in Ranks |-> FilledBuffer(q, (IF ring.p > 0 THEN Shifted(ring.buf) ELSE ring.buf)[q])]
    OBVIOUS
  <2> QED BY <2>1 DEF Fill
<1>2. ring.phase = "fill" /\ UNCHANGED <<elements, program, dofDist>>
  BY DEF Fill
<1>3. Job' = Job
  BY <1>2 DEF Job
<1>4. /\ DOMAIN ring' = {"phase", "p", "dist", "buf", "fresh"}
      /\ ring'.dist = ring.dist /\ ring'.fresh = ring.fresh /\ DOMAIN ring'.buf = Ranks
      /\ ring'.p = IF ring.p = Size - 1 THEN 0 ELSE ring.p + 1
      /\ ring'.phase = IF ring.p # Size - 1 THEN "fill" ELSE IF Job = "gather" THEN "collect" ELSE "number"
  BY <1>1, <1>2 DEF RingShape
<1>5. ring'.p \in Ranks
  <2>1. PICK p \in Ranks : p = ring.p
    BY DEF RingTyped
  <2>2. p # Size - 1 => p + 1 \in Ranks
    BY RanksFacts
  <2> QED BY <1>4, <2>1, <2>2, RanksFacts
<1>6. nodes' = IF ring.p = Size - 1 /\ Job = "gather"
               THEN [r \in Ranks |-> [id \in UsedNodes(r) |-> Unlabelled(Unset)]] ELSE nodes
  BY DEF Fill
<1> QED BY <1>2, <1>3, <1>4, <1>5, <1>6

\* Filling goes on, or ends with every mark set.
LEMMA FillOn ==
  ASSUME MeshInv, Fill, ~ (ring.p = Size - 1 /\ Job = "gather")
  PROVE  MeshInv'
<1>1. /\ NodesTyped /\ ElementsTyped /\ RingShape /\ RingTyped /\ FillInv /\ Known(Level, nodes)
      /\ ring.phase = "fill"
  BY DEF MeshInv, Fill
<1>2. PICK k \in 0 .. 13 : Where(k)
  BY DEF MeshInv
<1>3. /\ UNCHANGED <<nodes, elements, program, dofDist>> /\ Job' = Job
      /\ DOMAIN ring' = {"phase", "p", "dist", "buf", "fresh"}
      /\ ring'.dist = ring.dist /\ ring'.fresh = ring.fresh /\ DOMAIN ring'.buf = Ranks
      /\ ring'.p = IF ring.p = Size - 1 THEN 0 ELSE ring.p + 1
      /\ ring'.p \in Ranks
      /\ ring'.phase = IF ring.p # Size - 1 THEN "fill" ELSE "number"
  BY <1>1, FillRing
<1>4. /\ Where(k)' /\ NodesTyped' /\ ElementsTyped' /\ Known(Level, nodes)'
      /\ \A r, id : Key(r, id)' = Key(r, id) /\ Participants(r)' = Participants(r)
  <2>1. Where(k)'
    BY <1>2, <1>3, ProgramKept DEF Where
  <2>2. \A r, id : Key(r, id)' = Key(r, id) /\ Participants(r)' = Participants(r)
    BY <1>3 DEF Key, Participants, ReducedNodes
  <2> QED BY <1>1, <1>3, <2>1, <2>2, KnownKept DEF NodesTyped, ElementsTyped
<1>5. RingShape'
  BY <1>1, <1>3 DEF RingShape, FillInv, RingJobs
<1>6. RingTyped'
  BY <1>1, <1>3 DEF RingTyped, Ordered
<1>7. FillInv'
  <2>1. \A q \in Ranks : Participants(q) \subseteq DOMAIN nodes[q]
    BY <1>1, ParticipantsHere
  <2>2. PICK p \in Ranks : p = ring.p
    BY <1>1 DEF RingTyped
  <2>3. ASSUME NEW r \in Ranks
        PROVE  /\ BlockHeld(r)' = BlockFilled(r, p)
               /\ Visited(r)' = {q \in Ranks : (r - q) % Size < p + 1}
    <3>1. PICK c, s : c = BlockFilled(r, p) /\ s = (r - 1) % Size
      OBVIOUS
    <3>2. /\ c = (r - (p + 1)) % Size
          /\ p = Size - 1 => c = r
          /\ \A q \in Ranks : (r - q) % Size < Size
      BY <3>1, FillTurns
    <3>3. CASE p = Size - 1
      <4>1. ring'.p = 0 /\ ring'.phase = "number"
        BY <1>3, <2>2, <3>3
      <4>2. p + 1 = Size /\ r - 0 = r
        BY <3>3, RanksFacts
      <4>3. r % Size = r
        <5>1. r \in Int
          BY RanksFacts
        <5> QED BY <5>1, Modulo
      <4> QED BY <3>1, <3>2, <3>3, <4>1, <4>2, <4>3 DEF BlockHeld, Visited
    <3>4. CASE p # Size - 1
      <4>1. ring'.p = p + 1 /\ ring'.phase = "fill"
        BY <1>3, <2>2, <3>4
      <4> QED BY <3>1, <3>2, <4>1 DEF BlockHeld, Visited
    <3> QED BY <3>3, <3>4
  <2>4. HasRoom'
    <3>1. ASSUME NEW r \in Ranks
          PROVE  \A b \in Ranks : 0 .. ring.dist[b + 1] - ring.dist[b] - 1 \subseteq DOMAIN ring'.buf[r]
      <4>1. PICK c, V : c = BlockFilled(r, ring.p) /\ V = {q \in Ranks : (r - q) % Size < ring.p + 1}
        OBVIOUS
      <4>2. V \in SUBSET Ranks /\ \A q \in Ranks : q \in V <=> (r - q) % Size < ring.p + 1
        BY <4>1
      <4> QED BY <1>1, <2>1, <4>1, <4>2, FillSpread
    <3> QED BY <1>3, <3>1 DEF HasRoom
  <2>5. ASSUME NEW r \in Ranks, NEW j \in DOMAIN ring'.buf[r] PROVE Filled(r, j)'
    <3>0. PICK c : c = BlockFilled(r, ring.p)
      OBVIOUS
    <3>1. PICK V \in SUBSET Ranks : \A q \in Ranks : q \in V <=> (r - q) % Size < ring.p + 1
      <4>1. {q \in Ranks : (r - q) % Size < ring.p + 1} \in SUBSET Ranks
        OBVIOUS
      <4> QED BY <4>1
    <3>2. Holds(ring'.buf[r][j], V, c, j)
      BY <1>1, <2>1, <2>5, <3>0, <3>1, FillSpread
    <3>3. c = BlockHeld(r)' /\ V = Visited(r)'
      BY <2>2, <2>3, <3>0, <3>1
    <3>4. \A q, id : Fills(q, id, c, j)' <=> Fills(q, id, c, j)
      BY <1>3, <1>4 DEF Fills
    <3>5. Holds(ring.buf[r][j], Visited(r), BlockHeld(r), j)'
      BY <1>3, <3>2, <3>3, <3>4 DEF Holds, MarkedBy
    <3> QED BY <3>5 DEF Filled
  <2>6. ring.p = Size - 1 => Job # "gather"
    OBVIOUS
  <2>7. \A r \in Ranks : ring'.fresh[r] = DOMAIN nodes'[r]
    BY <1>1, <1>3 DEF FillInv
  <2>8. \A r \in Ranks : \A id \in DOMAIN nodes'[r] : Key(r, id)' \in ring'.dist[0] .. ring'.dist[Size] - 1
    BY <1>1, <1>3, <1>4 DEF FillInv
  <2>9. Job' \in BlockJobs /\ (ring'.phase = "number" => Job' # "gather" /\ ring'.p = 0)
    BY <1>1, <1>3, <2>6 DEF FillInv
  <2> QED BY <2>4, <2>5, <2>7, <2>8, <2>9 DEF FillInv, BlockJobs
<1> QED BY <1>3, <1>4, <1>5, <1>6, <1>7 DEF MeshInv

\* A table of the nodes in use that takes over every degree of freedom knows
\* more than the nodes it comes from.
LEMMA GatherKnown ==
  ASSUME NEW l \in {0, 3}, NEW N, Known(l, N), NEW M, DOMAIN M = Ranks,
         \A r \in Ranks : DOMAIN M[r] = UsedNodes(r),
         \A r \in Ranks : \A id \in UsedNodes(r) :
           \E q \in Ranks : id \in DOMAIN N[q] /\ M[r][id] = Unlabelled(N[q][id].dof),
         \A r, q \in Ranks : \A id \in UsedNodes(r) \cap UsedNodes(q) : M[r][id].dof = M[q][id].dof
  PROVE  Known(l + 1, M)
<1>1. \A r \in Ranks : \A id \in DOMAIN M[r] :
        /\ M[r][id] \in NodeLabels /\ M[r][id].rdof = Unset /\ M[r][id].rindex = Unset
        /\ \E q \in Ranks : id \in DOMAIN N[q] /\ M[r][id].dof = N[q][id].dof
  <2>1. ASSUME NEW r \in Ranks, NEW id \in DOMAIN M[r]
        PROVE  /\ M[r][id] \in NodeLabels /\ M[r][id].rdof = Unset /\ M[r][id].rindex = Unset
               /\ \E q \in Ranks : id \in DOMAIN N[q] /\ M[r][id].dof = N[q][id].dof
    <3>1. PICK q \in Ranks : id \in DOMAIN N[q] /\ M[r][id] = Unlabelled(N[q][id].dof)
      OBVIOUS
    <3>2. N[q][id] \in NodeLabels
      BY <3>1 DEF Known
    <3>3. PICK v \in Int : v = N[q][id].dof
      BY <3>2 DEF NodeLabels
    <3>4. M[r][id] = [dof |-> v, index |-> Unset, rdof |-> Unset, rindex |-> Unset]
      BY <3>1, <3>3 DEF Unlabelled
    <3> QED BY <3>1, <3>3, <3>4 DEF NodeLabels, Unset
  <2> QED BY <2>1
<1>2. SameDofs(M)
  BY DEF SameDofs
<1>3. ASSUME l = 3 PROVE DofsNumbered(M) /\ Gathered(M)
  <2>1. SameDofs(N) /\ DofsNumbered(N) /\ Gathered(N) /\ Stored(N) \subseteq InUse
    BY <1>3 DEF Known
  <2>2. ASSUME NEW d \in 0 .. dofDist[Size] - 1
        PROVE  \E r \in Ranks : \E id \in DOMAIN M[r] : M[r][id].dof = d
    <3>1. PICK q \in Ranks : \E i \in DOMAIN N[q] : N[q][i].dof = d
      BY <2>1 DEF DofsNumbered
    <3>i. PICK id \in DOMAIN N[q] : N[q][id].dof = d
      BY <3>1
    <3>2. PICK r \in Ranks : id \in UsedNodes(r)
      BY <2>1, <3>i DEF Stored, InUse
    <3>3. PICK b \in Ranks : id \in DOMAIN N[b] /\ M[r][id].dof = N[b][id].dof
      BY <1>1, <3>2
    <3>4. N[b][id].dof = N[q][id].dof
      BY <2>1, <3>i, <3>3 DEF SameDofs
    <3> QED BY <3>i, <3>2, <3>3, <3>4
  <2>3. DofsNumbered(M)
    BY <1>1, <2>1, <2>2 DEF DofsNumbered
  <2>4. ASSUME NEW r \in Ranks, NEW q \in Ranks, NEW b \in Ranks, NEW e \in elements[r],
               NEW id \in e.nodes \cap DOMAIN M[q], InBlock(M[q][id].dof, dofDist, b)
        PROVE  \E f \in elements[b] : Alike(e, f)
    <3>1. PICK s \in Ranks : id \in DOMAIN N[s] /\ M[q][id].dof = N[s][id].dof
      BY <1>1
    <3> QED BY <2>1, <2>4, <3>1 DEF Gathered
  <2>5. Gathered(M)
    BY <2>4 DEF Gathered
  <2> QED BY <2>3, <2>5
<1>4. ReducedLabelled(l + 1, M)
  BY <1>1 DEF ReducedLabelled
<1>5. l + 1 \in {1, 4} /\ (l + 1 >= 2 => l = 3) /\ ~ (l + 1 >= 5) /\ l + 1 # 3 /\ l + 1 # 0
  OBVIOUS
<1>6. PICK n : n = l + 1
  OBVIOUS
<1>7. n \notin {0, 3} /\ n # 3 /\ (n >= 2 => l = 3) /\ (n >= 3 => l = 3) /\ ~ (n >= 5)
        /\ ReducedLabelled(n, M)
  BY <1>4, <1>5, <1>6
<1>8. Known(n, M)
  BY <1>1, <1>2, <1>3, <1>7 DEF Known
<1> QED BY <1>6, <1>8

\* The nodes that gather_global has asked for find the degrees of freedom of
\* the nodes that were stored.
LEMMA GatheredLabels ==
  ASSUME RingShape, RingTyped, FillInv, NodesTyped, ElementsTyped, Fill, ring.p = Size - 1, Job = "gather",
         \A q \in Ranks : Participants(q) \subseteq DOMAIN nodes[q],
         NEW r \in Ranks, NEW id \in UsedNodes(r), id \in Stored(nodes)
  PROVE  \E b \in Ranks :
           /\ InBlock(id, ring.dist, b)
           /\ FinalNodes'[r][id] = Unlabelled(ring'.buf[b][id - ring.dist[b]])
           /\ \E q \in Ranks : id \in DOMAIN nodes[q]
                /\ ring'.buf[b][id - ring.dist[b]] = nodes[q][id].dof
<1>1. /\ UNCHANGED <<elements, program, dofDist>> /\ Job' = "gather"
      /\ ring'.dist = ring.dist /\ ring'.p = 0 /\ ring'.phase = "collect"
      /\ nodes' = [s \in Ranks |-> [i \in UsedNodes(s) |-> Unlabelled(Unset)]]
  BY FillRing
<1>2. PICK o \in Ranks : id \in DOMAIN nodes[o]
  BY DEF Stored
<1>3. id \in Int /\ Key(o, id) = id /\ id \in ring.dist[0] .. ring.dist[Size] - 1
  <2>1. Key(o, id) = id
    BY DEF Key
  <2>2. Key(o, id) \in ring.dist[0] .. ring.dist[Size] - 1
    BY <1>2 DEF FillInv
  <2> QED BY <1>2, <2>1, <2>2 DEF NodesTyped
<1>4. ring.dist \in [0 .. Size -> Int]
  BY DEF RingTyped
<1>5. PICK b \in Ranks : InBlock(id, ring.dist, b)
  <2>1. ring.dist[0] <= id /\ id < ring.dist[Size]
    <3>1. ring.dist[0] \in Int /\ ring.dist[Size] \in Int
      <4>1. 0 \in 0 .. Size /\ Size \in 0 .. Size
        BY RanksFacts
      <4> QED BY <1>4, <4>1
    <3> QED BY <1>3, <3>1
  <2> QED BY <1>3, <1>4, <2>1, BlockExists
<1>6. PICK k : k = id - ring.dist[b]
  OBVIOUS
<1>7. PICK x \in Int, y \in Int : x = ring.dist[b] /\ y = ring.dist[b + 1]
  <2>1. b \in 0 .. Size /\ b + 1 \in 0 .. Size
    BY RanksFacts
  <2> QED BY <1>4, <2>1
<1>8. k \in 0 .. y - x - 1
  BY <1>3, <1>5, <1>6, <1>7 DEF InBlock
<1>9. PICK c, s, V : c = BlockFilled(b, ring.p) /\ s = (b - 1) % Size
        /\ V = {q \in Ranks : (b - q) % Size < ring.p + 1}
  OBVIOUS
<1>10. V \in SUBSET Ranks /\ \A q \in Ranks : q \in V <=> (b - q) % Size < ring.p + 1
  BY <1>9
<1>11. c = b /\ \A q \in Ranks : q \in V
  <2>1. PICK p \in Ranks : p = ring.p
    BY DEF RingTyped
  <2>2. c = BlockFilled(b, p) /\ p = Size - 1
    BY <1>9, <2>1
  <2>3. (p = Size - 1 => c = b) /\ \A q \in Ranks : (b - q) % Size < Size
    BY <1>9, <2>2, FillTurns
  <2>4. p + 1 = Size
    BY <2>2, RanksFacts
  <2> QED BY <1>10, <2>1, <2>2, <2>3, <2>4
<1>12. k \in DOMAIN ring'.buf[b] /\ Holds(ring'.buf[b][k], V, b, k)
  <2>1. /\ \A a \in Ranks : 0 .. ring.dist[a + 1] - ring.dist[a] - 1 \subseteq DOMAIN ring'.buf[b]
        /\ \A i \in DOMAIN ring'.buf[b] : Holds(ring'.buf[b][i], V, c, i)
    BY <1>9, <1>10, FillSpread
  <2>2. k \in DOMAIN ring'.buf[b]
    BY <1>7, <1>8, <2>1
  <2> QED BY <1>11, <2>1, <2>2
<1>13. MarkedBy(V, b, k)
  <2>1. Fills(o, id, b, k)
    <3>1. id \in Participants(o)
      BY <1>2 DEF Participants
    <3> QED BY <1>3, <1>5, <1>6, <3>1 DEF Fills
  <2> QED BY <1>2, <1>11, <2>1 DEF MarkedBy
<1>g. PICK q \in Ranks : \E i \in DOMAIN nodes[q] : Fills(q, i, b, k)
        /\ ring'.buf[b][k] = nodes[q][i].dof
  BY <1>10, <1>12, <1>13 DEF Holds
<1>14. PICK i \in DOMAIN nodes[q] : Fills(q, i, b, k) /\ ring'.buf[b][k] = nodes[q][i].dof
  BY <1>g
<1>15. i = id
  <2>1. Key(q, i) = i /\ i \in Int
    BY DEF Key, NodesTyped
  <2>2. i - x = id - x
    BY <1>6, <1>7, <1>14, <2>1 DEF Fills
  <2> QED BY <1>3, <2>1, <2>2
<1>16. FinalNodes'[r][id] = Unlabelled(ring'.buf[b][k])
  <2>3. id \in DOMAIN nodes'[r] /\ nodes'[r][id] = Unlabelled(Unset)
    BY <1>1
  <2>4. Key(r, id)' = id
    BY <1>1 DEF Key
  <2>5. Holder(b)' = b
    <3>1. b + 0 = b /\ b \in Int
      BY RanksFacts
    <3>2. b % Size = b
      BY <3>1, Modulo
    <3> QED BY <1>1, <3>1, <3>2 DEF Holder
  <2>6. ComesFrom(b, r, id)'
    <3>1. (r - b) % Size >= 0
      <4>1. (r - b) % Size \in Ranks
        BY HolderFacts
      <4> QED BY <4>1, RanksFacts
    <3> QED BY <1>1, <1>5, <2>4, <3>1 DEF ComesFrom
  <2>7. LabelToCome(r, id)' = LabelFrom(b, r, id)'
    <3>1. \A a \in Ranks : ComesFrom(a, r, id)' => a = b
      <4>1. Ordered(ring.dist)
        BY DEF RingTyped
      <4>2. \A a \in Ranks : ComesFrom(a, r, id)' => InBlock(id, ring.dist, a)
        BY <1>1, <2>4 DEF ComesFrom
      <4> QED BY <1>3, <1>4, <1>5, <4>1, <4>2, BlockUnique
    <3>2. (CHOOSE a \in Ranks : ComesFrom(a, r, id)') = b
      BY <2>6, <3>1
    <3> QED BY <3>2 DEF LabelToCome
  <2>8. LabelFrom(b, r, id)' = ring'.buf[b][k]
    BY <1>1, <1>6, <2>4, <2>5 DEF LabelFrom
  <2>9. Awaits(r, id)'
    <3>1. id \in Participants(r)'
      BY <1>1, <2>3 DEF Participants
    <3>2. ~ Relabels'
      BY <1>1 DEF Relabels
    <3> QED BY <2>6, <3>1, <3>2 DEF Awaits
  <2>10. FinalNodes'[r][id] = Labelled(nodes[r][id], LabelToCome(r, id))'
    BY <2>3, <2>9 DEF FinalNodes
  <2>11. FinalNodes'[r][id] = [Unlabelled(Unset) EXCEPT !.dof = ring'.buf[b][k]]
    BY <1>1, <2>3, <2>7, <2>8, <2>10 DEF Labelled
  <2> QED BY <2>11 DEF Unlabelled
<1> QED BY <1>5, <1>6, <1>14, <1>15, <1>16

\* After its last turn gather_global knows what every node in use will get.
LEMMA GatherEnds ==
  ASSUME MeshInv, Fill, ring.p = Size - 1, Job = "gather"
  PROVE  MeshInv'
<1>1. /\ NodesTyped /\ ElementsTyped /\ RingShape /\ RingTyped /\ FillInv /\ Known(Level, nodes)
      /\ ring.phase = "fill"
  BY DEF MeshInv, Fill
<1>2. PICK k \in 0 .. 13 : Where(k)
  BY DEF MeshInv
<1>3. /\ UNCHANGED <<elements, program, dofDist>> /\ Job' = "gather"
      /\ DOMAIN ring' = {"phase", "p", "dist", "buf", "fresh"}
      /\ ring'.dist = ring.dist /\ DOMAIN ring'.buf = Ranks
      /\ ring'.p \in Ranks /\ ring'.phase = "collect"
      /\ nodes' = [r \in Ranks |-> [id \in UsedNodes(r) |-> Unlabelled(Unset)]]
  BY <1>1, FillRing
<1>4. Where(k)'
  BY <1>2, <1>3, ProgramKept DEF Where
<1>5. RingShape' /\ RingTyped'
  BY <1>1, <1>3 DEF RingShape, RingTyped, Ordered, RingJobs, BlockJobs
<1>6. ElementsTyped'
  BY <1>1, <1>3 DEF ElementsTyped
<1>7. NodesTyped'
  <2>1. \A r \in Ranks : IsFiniteSet(UsedNodes(r)) /\ UsedNodes(r) \subseteq Int
    BY <1>1, UsedFacts
  <2>2. Unlabelled(Unset) \in NodeLabels /\ NodeLabels' = NodeLabels
    BY DEF Unlabelled, NodeLabels, Unset
  <2>3. \A r \in Ranks : DOMAIN nodes'[r] = UsedNodes(r)
          /\ \A j \in UsedNodes(r) : nodes'[r][j] = Unlabelled(Unset)
    BY <1>3
  <2> QED BY <2>1, <2>2, <2>3 DEF NodesTyped
<1>8. Known(LevelAfter, FinalNodes)'
  <2>1. PICK l, M : l = Level /\ M = FinalNodes'
    OBVIOUS
  <2>2. l \in {0, 3} /\ l + 1 = LevelAfter'
    BY <1>3, <2>1 DEF Level, LevelAfter
  <2>3. DOMAIN M = Ranks /\ \A r \in Ranks : DOMAIN M[r] = UsedNodes(r)
    BY <1>3, <2>1 DEF FinalNodes
  <2>4. ASSUME NEW r \in Ranks, NEW id \in UsedNodes(r)
        PROVE  \E b \in Ranks :
                 /\ InBlock(id, ring.dist, b)
                 /\ M[r][id] = Unlabelled(ring'.buf[b][id - ring.dist[b]])
                 /\ \E q \in Ranks : id \in DOMAIN nodes[q]
                      /\ ring'.buf[b][id - ring.dist[b]] = nodes[q][id].dof
    <3>1. \A q \in Ranks : Participants(q) \subseteq DOMAIN nodes[q]
      BY <1>1, ParticipantsHere
    <3>2. id \in Stored(nodes)
      BY <1>1, <2>1, <2>2 DEF Known, InUse
    <3> QED BY <1>1, <2>1, <3>1, <3>2, GatheredLabels
  <2>5. \A r \in Ranks : \A id \in UsedNodes(r) :
          \E q \in Ranks : id \in DOMAIN nodes[q] /\ M[r][id] = Unlabelled(nodes[q][id].dof)
    BY <2>4
  <2>6. ASSUME NEW r \in Ranks, NEW q \in Ranks, NEW id \in UsedNodes(r) \cap UsedNodes(q)
        PROVE  M[r][id].dof = M[q][id].dof
    <3>1. PICK b \in Ranks : InBlock(id, ring.dist, b)
            /\ M[r][id] = Unlabelled(ring'.buf[b][id - ring.dist[b]])
      BY <2>4
    <3>2. PICK c \in Ranks : InBlock(id, ring.dist, c)
            /\ M[q][id] = Unlabelled(ring'.buf[c][id - ring.dist[c]])
      BY <2>4
    <3>3. b = c
      <4>1. id \in Int
        BY <1>1, UsedFacts
      <4> QED BY <1>1, <3>1, <3>2, <4>1, BlockUnique DEF RingTyped
    <3> QED BY <3>1, <3>2, <3>3
  <2>7. Known(l, nodes)
    BY <1>1, <2>1
  <2>8. Known(l + 1, M)
    BY <2>2, <2>3, <2>5, <2>6, <2>7, GatherKnown
  <2>9. PICK n : n = l + 1
    OBVIOUS
  <2>10. Known(n, M)
    BY <2>8, <2>9
  <2>11. Known(n, M)'
    BY <1>3, <2>10, KnownStays
  <2> QED BY <2>1, <2>2, <2>9, <2>11
<1> QED BY <1>3, <1>4, <1>5, <1>6, <1>7, <1>8 DEF MeshInv

\* Filling the buffers keeps the invariant.
LEMMA FillStep ==
  ASSUME MeshInv, Fill
  PROVE  MeshInv'
BY FillOn, GatherEnds

\* Only labels change where no node changes.
LEMMA MeshQuiet ==
  ASSUME MeshInv, UNCHANGED <<nodes, elements, program>>
  PROVE  /\ NodesTyped' /\ ElementsTyped' /\ Job' = Job
         /\ \A r, id : Key(r, id)' = Key(r, id) /\ Participants(r)' = Participants(r)
         /\ UNCHANGED dofDist => \E k \in 0 .. 13 : Where(k)'
<1>1. NodesTyped /\ ElementsTyped
  BY DEF MeshInv
<1>2. PICK k \in 0 .. 13 : Where(k)
  BY DEF MeshInv
<1>3. NodesTyped' /\ ElementsTyped'
  BY <1>1 DEF NodesTyped, ElementsTyped
<1>4. Job' = Job
  BY DEF Job
<1>5. \A r, id : Key(r, id)' = Key(r, id) /\ Participants(r)' = Participants(r)
  BY <1>4 DEF Key, Participants, ReducedNodes
<1>6. UNCHANGED dofDist => Where(k)'
  BY <1>2, <1>4, ProgramKept DEF Where
<1> QED BY <1>3, <1>4, <1>5, <1>6

-----------------------------------------------------------------------------
(* Numbering the marks                                                     *)

\* What a ring will leave, before its first turn
LEMMA FinalLabel ==
  ASSUME ring'.p = 0, ring'.dist \in [0 .. Size -> Int], Ordered(ring'.dist),
         NEW r \in Ranks, NEW id \in DOMAIN nodes'[r], Key(r, id)' \in Int,
         Relabels' => id \in ring'.fresh[r],
         NEW b \in Ranks, InBlock(Key(r, id)', ring'.dist, b),
         Job' = "node" => ring'.buf[b][0] <= id /\ id <= ring'.buf[b][1]
  PROVE  FinalNodes'[r][id] =
           IF id \in Participants(r)' THEN (Labelled(nodes[r][id], LabelFrom(b, r, id)))' ELSE nodes'[r][id]
<1>1. Holder(b)' = b
  <2>1. b + 0 = b /\ b \in Int
    BY RanksFacts
  <2>2. b % Size = b
    BY <2>1, Modulo
  <2> QED BY <2>1, <2>2 DEF Holder
<1>2. ComesFrom(b, r, id)'
  <2>1. (r - b) % Size >= 0
    <3>1. (r - b) % Size \in Ranks
      BY HolderFacts
    <3> QED BY <3>1, RanksFacts
  <2> QED BY <1>1, <2>1 DEF ComesFrom
<1>3. (CHOOSE c \in Ranks : ComesFrom(c, r, id)') = b
  <2>1. \A c \in Ranks : ComesFrom(c, r, id)' => c = b
    <3>1. \A c \in Ranks : ComesFrom(c, r, id)' => InBlock(Key(r, id)', ring'.dist, c)
      BY DEF ComesFrom
    <3> QED BY <3>1, BlockUnique
  <2> QED BY <1>2, <2>1
<1>4. LabelToCome(r, id)' = LabelFrom(b, r, id)'
  BY <1>3 DEF LabelToCome
<1>5. Awaits(r, id)' <=> id \in Participants(r)'
  BY <1>2 DEF Awaits
<1>6. FinalNodes'[r][id] = IF Awaits(r, id)' THEN Labelled(nodes[r][id], LabelToCome(r, id))' ELSE nodes'[r][id]
  BY DEF FinalNodes
<1>7. Labelled(nodes[r][id], LabelToCome(r, id))' = Labelled(nodes[r][id], LabelFrom(b, r, id))'
  BY <1>4 DEF Labelled
<1> QED BY <1>5, <1>6, <1>7

\* The keys that take part are finitely many.
LEMMA KeySetFinite ==
  ASSUME NodesTyped, \A r \in Ranks : Participants(r) \subseteq DOMAIN nodes[r]
  PROVE  KeySet \in SUBSET Int /\ IsFiniteSet(KeySet)
<1> DEFINE f == [r \in Ranks |-> [id \in DOMAIN nodes[r] |-> Key(r, id)]]
           part == [r \in Ranks |-> Participants(r)]
<1>1. part \in [Ranks -> SUBSET Int] /\ \A r \in Ranks : part[r] \subseteq DOMAIN nodes[r]
  BY DEF NodesTyped
<1>2. \A r \in Ranks : \A id \in part[r] : f[r][id] = Key(r, id) /\ f[r][id] \in Int
  BY <1>1, KeyTyped
<1>3. \A r \in Ranks : part[r] = Participants(r)
  OBVIOUS
<1> HIDE DEF f, part
<1>4. KeySet = UNION {{f[r][id] : id \in part[r]} : r \in Ranks}
  <2>1. PICK g : g = [r \in Ranks |-> {Key(r, id) : id \in Participants(r)}]
    OBVIOUS
  <2>2. \A r \in Ranks : g[r] = {Key(r, id) : id \in Participants(r)}
    BY <2>1
  <2>3. \A r \in Ranks : g[r] = {f[r][id] : id \in part[r]}
    BY <1>2, <1>3, <2>2
  <2>4. KeySet = UNION {g[r] : r \in Ranks}
    BY <2>2 DEF KeySet
  <2>5. UNION {{f[r][id] : id \in part[r]} : r \in Ranks} = UNION {g[r] : r \in Ranks}
    BY <2>3
  <2> QED BY <2>4, <2>5
<1> QED BY <1>1, <1>2, <1>4, LabelsFinite

\* Before they are numbered the marks are those of every key.
LEMMA MarksFacts ==
  ASSUME NodesTyped, RingTyped, FillInv, ring.phase = "number",
         \A r \in Ranks : Participants(r) \subseteq DOMAIN nodes[r]
  PROVE  /\ \A m \in KeySet : ring.dist[0] <= m /\ m < ring.dist[Size]
         /\ \A r \in Ranks : \A k \in Int :
              k \in Marks(r) <=> ring.dist[r] + k \in KeySet /\ InBlock(ring.dist[r] + k, ring.dist, r)
<1>1. /\ ring.p = 0 /\ Job # "gather" /\ HasRoom
      /\ \A r \in Ranks : /\ \A id \in DOMAIN nodes[r] : Key(r, id) \in ring.dist[0] .. ring.dist[Size] - 1
                          /\ \A k \in DOMAIN ring.buf[r] : Filled(r, k)
  BY DEF FillInv
<1>2. ring.dist \in [0 .. Size -> Int] /\ 0 \in 0 .. Size /\ Size \in 0 .. Size
  <2>1. 0 \in 0 .. Size /\ Size \in 0 .. Size
    BY RanksFacts
  <2> QED BY <2>1 DEF RingTyped
<1>3. ASSUME NEW m \in KeySet PROVE ring.dist[0] <= m /\ m < ring.dist[Size]
  <2>1. PICK r \in Ranks : \E id \in Participants(r) : m = Key(r, id)
    BY DEF KeySet
  <2>2. PICK id \in Participants(r) : m = Key(r, id)
    BY <2>1
  <2>3. m \in ring.dist[0] .. ring.dist[Size] - 1
    BY <1>1, <2>2
  <2>4. ring.dist[0] \in Int /\ ring.dist[Size] \in Int
    BY <1>2
  <2> QED BY <2>3, <2>4
<1>4. ASSUME NEW r \in Ranks, NEW k \in Int
      PROVE  k \in Marks(r) <=> ring.dist[r] + k \in KeySet /\ InBlock(ring.dist[r] + k, ring.dist, r)
  <2>1. PICK x \in Int, y \in Int : x = ring.dist[r] /\ y = ring.dist[r + 1]
    <3>1. r \in 0 .. Size /\ r + 1 \in 0 .. Size
      BY RanksFacts
    <3> QED BY <1>2, <3>1
  <2>2. InBlock(x + k, ring.dist, r) <=> k \in 0 .. y - x - 1
    BY <2>1 DEF InBlock
  <2>3. BlockHeld(r) = r /\ Visited(r) = Ranks
    <3>1. r - 0 = r /\ r \in Int
      BY RanksFacts
    <3>2. r % Size = r
      BY <3>1, Modulo
    <3> QED BY <1>1, <3>1, <3>2 DEF BlockHeld, Visited
  <2>4. ASSUME k \in 0 .. y - x - 1
        PROVE  ring.buf[r][k] = Set <=> MarkedBy(Ranks, r, k)
    <3>1. k \in DOMAIN ring.buf[r]
      BY <1>1, <2>1, <2>4 DEF HasRoom
    <3>2. Holds(ring.buf[r][k], Ranks, r, k)
      BY <1>1, <2>3, <3>1 DEF Filled
    <3> QED BY <1>1, <3>2 DEF Holds, Set, Unset
  <2>5. ASSUME k \in 0 .. y - x - 1
        PROVE  MarkedBy(Ranks, r, k) <=> x + k \in KeySet
    <3>1. ASSUME NEW q \in Ranks, NEW id \in DOMAIN nodes[q]
          PROVE  Fills(q, id, r, k) <=> id \in Participants(q) /\ Key(q, id) = x + k
      <4>1. PICK c \in Int : c = Key(q, id)
        BY KeyTyped
      <4>2. c - x = k <=> c = x + k
        BY <4>1
      <4> QED BY <2>1, <2>2, <2>5, <4>1, <4>2 DEF Fills
    <3>2. MarkedBy(Ranks, r, k) <=> \E q \in Ranks : \E id \in Participants(q) : Key(q, id) = x + k
      BY <3>1 DEF MarkedBy
    <3> QED BY <3>2 DEF KeySet
  <2>6. k \in Marks(r) <=> k \in 0 .. y - x - 1 /\ ring.buf[r][k] = Set
    BY <2>1 DEF Marks
  <2> QED BY <2>1, <2>2, <2>4, <2>5, <2>6
<1> QED BY <1>3, <1>4

\* What numbering the marks does to the ring: each key finds its place.
LEMMA NumberRing ==
  ASSUME NodesTyped, RingShape, RingTyped, FillInv, Number,
         \A r \in Ranks : Participants(r) \subseteq DOMAIN nodes[r]
  PROVE  /\ DOMAIN ring' = {"phase", "p", "dist", "buf", "fresh"}
         /\ ring'.phase = "collect" /\ ring'.p = 0 /\ ring'.dist = ring.dist /\ ring'.fresh = ring.fresh
         /\ DOMAIN ring'.buf = Ranks
         /\ \A r, b \in Ranks : \A id \in Participants(r) : InBlock(Key(r, id), ring.dist, b) =>
              ring'.buf[b][Key(r, id) - ring.dist[b]] = Place(KeySet, Key(r, id))
         /\ Job = "dof" => dofDist' = Blocks(0, Cardinality(KeySet))
<1>1. ring.phase = "number" /\ ring.p = 0 /\ HasRoom
  BY DEF Number, FillInv
<1>2. PICK B : B = [r \in Ranks |-> Numbered(r)]
  OBVIOUS
<1>3. ring' = [ring EXCEPT !.phase = "collect", !.buf = B]
  BY <1>2 DEF Number
<1>4. /\ DOMAIN ring' = {"phase", "p", "dist", "buf", "fresh"}
      /\ ring'.phase = "collect" /\ ring'.p = 0 /\ ring'.dist = ring.dist /\ ring'.fresh = ring.fresh
      /\ ring'.buf = B
  BY <1>1, <1>3 DEF RingShape
<1>5. PICK S : S = KeySet
  OBVIOUS
<1>6. S \in SUBSET Int /\ IsFiniteSet(S)
  BY <1>5, KeySetFinite
<1>7. PICK marks : marks = [q \in Ranks |-> Marks(q)]
  OBVIOUS
<1>8. /\ \A m \in S : ring.dist[0] <= m /\ m < ring.dist[Size]
      /\ \A q \in Ranks : \A k \in Int :
           k \in marks[q] <=> ring.dist[q] + k \in S /\ InBlock(ring.dist[q] + k, ring.dist, q)
  BY <1>1, <1>5, <1>7, MarksFacts
<1>9. marks \in [Ranks -> SUBSET Int]
  <2>1. \A q \in Ranks : Marks(q) \in SUBSET Int
    BY DEF Marks
  <2> QED BY <1>7, <2>1
<1>10. PICK d \in [0 .. Size -> Int] : d = ring.dist
  BY DEF RingTyped
<1>11. Ordered(d)
  BY <1>10 DEF RingTyped
<1>12. /\ \A q \in Ranks : IsFiniteSet(marks[q])
       /\ \A r \in 0 .. Size : CountBefore(r, marks) = Place(S, d[r])
       /\ \A r \in Ranks : \A k \in marks[r] :
            CountBefore(r, marks) + Place(marks[r], k) = Place(S, d[r] + k)
  <2>1. /\ \A m \in S : d[0] <= m
        /\ \A q \in Ranks : \A k \in Int :
             k \in marks[q] <=> d[q] + k \in S /\ InBlock(d[q] + k, d, q)
    BY <1>8, <1>10
  <2> QED BY <1>6, <1>9, <1>11, <2>1, NumberPlaces
<1>13. ASSUME NEW r \in Ranks, NEW b \in Ranks, NEW id \in Participants(r), InBlock(Key(r, id), ring.dist, b)
       PROVE  ring'.buf[b][Key(r, id) - ring.dist[b]] = Place(KeySet, Key(r, id))
  <2>1. PICK m \in Int : m = Key(r, id) /\ m \in S
    BY <1>5, <1>6 DEF KeySet
  <2>2. PICK x \in Int, y \in Int : x = d[b] /\ y = d[b + 1]
    <3>1. b \in 0 .. Size /\ b + 1 \in 0 .. Size
      BY RanksFacts
    <3> QED BY <3>1
  <2>3. PICK k \in Int : k = m - x
    OBVIOUS
  <2>4. x + k = m
    BY <2>3
  <2>5. k \in marks[b]
    BY <1>8, <1>10, <1>13, <2>1, <2>2, <2>4
  <2>6. k \in DOMAIN ring.buf[b]
    <3>1. k \in 0 .. y - x - 1
      BY <1>10, <1>13, <2>1, <2>2, <2>3 DEF InBlock
    <3> QED BY <1>1, <1>10, <2>2, <3>1 DEF HasRoom
  <2>7. Numbered(b)[k] = CountBefore(b, marks) + Place(marks[b], k)
    BY <1>7, <2>5, <2>6 DEF Numbered, Offset, Place
  <2>8. Numbered(b)[k] = Place(S, m)
    BY <1>12, <2>2, <2>4, <2>5, <2>7
  <2> QED BY <1>2, <1>4, <1>5, <1>10, <2>1, <2>2, <2>3, <2>8
<1>14. ASSUME Job = "dof" PROVE dofDist' = Blocks(0, Cardinality(KeySet))
  <2>1. dofDist' = Blocks(0, CountBefore(Size - 1, marks) + Cardinality(marks[Size - 1]))
    <3>1. Size - 1 \in Ranks
      BY RanksFacts
    <3> QED BY <1>7, <1>14, <3>1 DEF Number, Offset
  <2>2. PICK z \in Ranks : z = Size - 1 /\ z + 1 = Size
    BY RanksFacts
  <2>3. CountBefore(z + 1, marks) = CountBefore(z, marks) + Cardinality(marks[z])
    BY <1>9, <1>12, CountSteps
  <2>4. CountBefore(Size, marks) = Place(S, d[Size])
    <3>1. Size \in 0 .. Size
      BY RanksFacts
    <3> QED BY <1>12, <3>1
  <2>5. Place(S, d[Size]) = Cardinality(S)
    <3>1. {y \in S : y < d[Size]} = S
      BY <1>8, <1>10
    <3> QED BY <3>1 DEF Place
  <2> QED BY <1>5, <2>1, <2>2, <2>3, <2>4, <2>5
<1> QED BY <1>2, <1>4, <1>13, <1>14

\* The node files the numbered marks will leave
LEMMA NumberLeaves ==
  ASSUME NodesTyped, ElementsTyped, RingShape, RingTyped, FillInv, Number,
         \A r \in Ranks : Participants(r) \subseteq DOMAIN nodes[r]
  PROVE  /\ DOMAIN FinalNodes' = Ranks
         /\ \A r \in Ranks : DOMAIN FinalNodes'[r] = DOMAIN nodes[r]
         /\ \A r \in Ranks : \A id \in DOMAIN nodes[r] :
              FinalNodes'[r][id] = IF id \in Participants(r)
                                   THEN Labelled(nodes[r][id], Place(KeySet, Key(r, id))) ELSE nodes[r][id]
<1>1. /\ ring'.phase = "collect" /\ ring'.p = 0 /\ ring'.dist = ring.dist /\ ring'.fresh = ring.fresh
      /\ \A r, b \in Ranks : \A id \in Participants(r) : InBlock(Key(r, id), ring.dist, b) =>
              ring'.buf[b][Key(r, id) - ring.dist[b]] = Place(KeySet, Key(r, id))
  BY NumberRing
<1>2. UNCHANGED <<nodes, elements, program>>
  BY DEF Number
<1>3. /\ Job' = Job /\ Job \in BlockJobs
      /\ \A r, id : Key(r, id)' = Key(r, id) /\ Participants(r)' = Participants(r)
  <2>1. Job' = Job
    BY <1>2 DEF Job
  <2> QED BY <1>2, <2>1 DEF Key, Participants, ReducedNodes, FillInv
<1>4. DOMAIN FinalNodes' = Ranks /\ \A r \in Ranks : DOMAIN FinalNodes'[r] = DOMAIN nodes[r]
  BY <1>2 DEF FinalNodes
<1>5. ASSUME NEW r \in Ranks, NEW id \in DOMAIN nodes[r]
      PROVE  FinalNodes'[r][id] = IF id \in Participants(r)
                                  THEN Labelled(nodes[r][id], Place(KeySet, Key(r, id))) ELSE nodes[r][id]
  <2>1. PICK m \in Int : m = Key(r, id)
    BY KeyTyped
  <2>2. PICK b \in Ranks : InBlock(m, ring.dist, b)
    <3>1. ring.dist \in [0 .. Size -> Int]
      BY DEF RingTyped
    <3>2. m \in ring.dist[0] .. ring.dist[Size] - 1
      BY <2>1 DEF FillInv
    <3>3. 0 \in 0 .. Size /\ Size \in 0 .. Size
      BY RanksFacts
    <3>4. ring.dist[0] \in Int /\ ring.dist[Size] \in Int
      BY <3>1, <3>3
    <3>5. ring.dist[0] <= m /\ m < ring.dist[Size]
      BY <3>2, <3>4
    <3> QED BY <3>1, <3>5, BlockExists
  <2>3. FinalNodes'[r][id] =
          IF id \in Participants(r)' THEN (Labelled(nodes[r][id], LabelFrom(b, r, id)))' ELSE nodes'[r][id]
    <3>1. ring'.dist \in [0 .. Size -> Int] /\ Ordered(ring'.dist)
      BY <1>1 DEF RingTyped
    <3>2. id \in ring'.fresh[r] /\ id \in DOMAIN nodes'[r]
      BY <1>1, <1>2 DEF FillInv
    <3>3. Key(r, id)' = m /\ Job' # "node" /\ InBlock(Key(r, id)', ring'.dist, b)
      BY <1>1, <1>3, <2>1, <2>2 DEF BlockJobs
    <3> QED BY <1>1, <3>1, <3>2, <3>3, FinalLabel
  <2>4. ASSUME id \in Participants(r) PROVE LabelFrom(b, r, id)' = Place(KeySet, Key(r, id))
    <3>1. Holder(b)' = b
      <4>1. b + 0 = b /\ b \in Int
        BY RanksFacts
      <4>2. b % Size = b
        BY <4>1, Modulo
      <4> QED BY <1>1, <4>1, <4>2 DEF Holder
    <3>2. LabelFrom(b, r, id)' = ring'.buf[b][Key(r, id) - ring.dist[b]]
      BY <1>1, <1>3, <3>1 DEF LabelFrom, BlockJobs
    <3> QED BY <1>1, <2>1, <2>2, <2>4, <3>2
  <2>5. \A v : Labelled(nodes[r][id], v)' = Labelled(nodes[r][id], v')
    BY <1>2, <1>3 DEF Labelled
  <2> QED BY <1>2, <1>3, <2>3, <2>4, <2>5
<1> QED BY <1>4, <1>5

\* Numbering the degrees of freedom densely leaves them in blocks.
LEMMA DofsKnown ==
  ASSUME NEW N, Known(1, N), UNCHANGED elements, NEW S \in SUBSET Int, IsFiniteSet(S),
         \A r \in Ranks : \A id \in DOMAIN N[r] : N[r][id].dof \in S,
         \A x \in S : \E r \in Ranks : \E id \in DOMAIN N[r] : N[r][id].dof = x,
         dofDist' = Blocks(0, Cardinality(S)),
         NEW M, DOMAIN M = Ranks, \A r \in Ranks : DOMAIN M[r] = DOMAIN N[r],
         \A r \in Ranks : \A id \in DOMAIN N[r] :
           /\ M[r][id] \in NodeLabels
           /\ M[r][id].dof = Place(S, N[r][id].dof)
           /\ M[r][id].rdof = N[r][id].rdof /\ M[r][id].rindex = N[r][id].rindex
  PROVE  Known(2, M)'
<1>1. /\ Kept /\ InUse # {} /\ (\A r \in Ranks : DOMAIN N[r] = UsedNodes(r)) /\ SameDofs(N)
      /\ ReducedLabelled(1, N)
  BY DEF Known
<1>2. Kept' /\ InUse' # {} /\ \A r \in Ranks : DOMAIN M[r] = UsedNodes(r)'
  <2>1. \A r \in Ranks : UsedNodes(r)' = UsedNodes(r)
    BY DEF UsedNodes
  <2>2. InUse' = InUse
    BY <2>1 DEF InUse
  <2>3. Kept'
    BY <1>1 DEF Kept
  <2> QED BY <1>1, <2>1, <2>2, <2>3
<1>3. SameDofs(M)
  BY <1>1 DEF SameDofs
<1>4. DofsNumbered(M)'
  <2>1. PICK n \in Nat : n = Cardinality(S)
    BY Places
  <2>2. /\ dofDist' \in [0 .. Size -> Int] /\ Ordered(dofDist')
        /\ dofDist'[0] = 0 /\ dofDist'[Size] = n
    <3>1. 0 \in Int /\ dofDist' = Blocks(0, n) /\ 0 + n = n
      BY <2>1
    <3>2. Blocks(0, n) \in [0 .. Size -> Int] /\ Blocks(0, n)[0] = 0 /\ Blocks(0, n)[Size] = 0 + n
      BY <3>1, BlocksFacts
    <3>3. Ordered(Blocks(0, n))
      BY <3>1, BlocksOrdered
    <3> QED BY <3>1, <3>2, <3>3
  <2>4. \A x \in S : Place(S, x) \in 0 .. n - 1
    BY <2>1, Places
  <2>5. ASSUME NEW d \in 0 .. n - 1 PROVE \E r \in Ranks : \E id \in DOMAIN M[r] : M[r][id].dof = d
    <3>1. PICK x \in S : Place(S, x) = d
      BY <2>1, Places
    <3>2. PICK r \in Ranks : \E id \in DOMAIN N[r] : x = N[r][id].dof
      OBVIOUS
    <3> QED BY <3>1, <3>2
  <2>6. ASSUME NEW r \in Ranks, NEW id \in DOMAIN M[r] PROVE M[r][id].dof \in 0 .. n - 1
    <3>1. N[r][id].dof \in S /\ M[r][id].dof = Place(S, N[r][id].dof)
      OBVIOUS
    <3> QED BY <2>4, <3>1
  <2> QED BY <2>2, <2>5, <2>6 DEF DofsNumbered, DistTyped, Ordered
<1>5. ReducedLabelled(2, M)'
  <2>1. \A r \in Ranks : \A id \in DOMAIN M[r] : M[r][id].rdof = Unset /\ M[r][id].rindex = Unset
    BY <1>1 DEF ReducedLabelled
  <2> QED BY <2>1 DEF ReducedLabelled, Unset
<1>6. \A r \in Ranks : \A id \in DOMAIN M[r] : M[r][id] \in NodeLabels'
  BY DEF NodeLabels
<1>7. SameDofs(M)'
  BY <1>3 DEF SameDofs
<1> QED BY <1>2, <1>4, <1>5, <1>6, <1>7 DEF Known

\* Reduced labels do not touch what is known of the others.
LEMMA ReducedKnown ==
  ASSUME NEW l \in {5, 6}, NEW N, Known(l, N), UNCHANGED <<elements, dofDist>>,
         NEW M, DOMAIN M = Ranks, \A r \in Ranks : DOMAIN M[r] = DOMAIN N[r],
         \A r \in Ranks : \A id \in DOMAIN N[r] :
           M[r][id] \in NodeLabels /\ M[r][id].dof = N[r][id].dof /\ M[r][id].index = N[r][id].index,
         ReducedLabelled(l + 1, M)
  PROVE  Known(l + 1, M)'
<1>1. /\ Kept /\ InUse # {} /\ (\A r \in Ranks : DOMAIN N[r] = UsedNodes(r)) /\ SameDofs(N)
      /\ DofsNumbered(N) /\ Gathered(N) /\ NodesNumbered(N)
  BY DEF Known
<1>2. SameDofs(M)
  BY <1>1 DEF SameDofs
<1>3. DofsNumbered(M)
  <2>1. \A d \in 0 .. dofDist[Size] - 1 : \E r \in Ranks : \E id \in DOMAIN M[r] : M[r][id].dof = d
    BY <1>1 DEF DofsNumbered
  <2> QED BY <1>1, <2>1 DEF DofsNumbered
<1>4. Gathered(M)
  BY <1>1 DEF Gathered
<1>5. NodesNumbered(M)
  <2>1. Indices(M) = Indices(N)
    <3>1. PICK g, h : /\ g = [r \in Ranks |-> {N[r][id].index : id \in DOMAIN N[r]}]
                      /\ h = [r \in Ranks |-> {M[r][id].index : id \in DOMAIN M[r]}]
      OBVIOUS
    <3>2. \A r \in Ranks : g[r] = {N[r][id].index : id \in DOMAIN N[r]}
            /\ h[r] = {M[r][id].index : id \in DOMAIN M[r]}
      BY <3>1
    <3>3. ASSUME NEW r \in Ranks PROVE g[r] = h[r]
      <4>1. DOMAIN M[r] = DOMAIN N[r] /\ \A id \in DOMAIN N[r] : M[r][id].index = N[r][id].index
        OBVIOUS
      <4>2. {N[r][id].index : id \in DOMAIN N[r]} = {M[r][id].index : id \in DOMAIN M[r]}
        BY <4>1
      <4> QED BY <3>2, <4>2
    <3>4. Indices(N) = UNION {g[r] : r \in Ranks} /\ Indices(M) = UNION {h[r] : r \in Ranks}
      BY <3>2 DEF Indices
    <3> QED BY <3>3, <3>4
  <2> QED BY <1>1, <2>1 DEF NodesNumbered
<1>6. PICK n : n = l + 1
  OBVIOUS
<1>7. n \in {6, 7} /\ n \notin {0, 3} /\ n # 3
  BY <1>6
<1>8. ReducedLabelled(n, M)
  BY <1>6
<1>9. Known(n, M)
  BY <1>1, <1>2, <1>3, <1>4, <1>5, <1>7, <1>8 DEF Known
<1>10. Known(n, M)'
  BY <1>9, KnownStays
<1> QED BY <1>6, <1>10

\* Where the labels a job reads are the same, the reduced labels to be given are.
LEMMA ReducedSets ==
  ASSUME NEW N, NEW M, \A r \in Ranks : ReducedNodes(r) \subseteq DOMAIN N[r],
         \A r \in Ranks : \A id \in DOMAIN N[r] :
           M[r][id].dof = N[r][id].dof /\ M[r][id].index = N[r][id].index
  PROVE  ReducedDofs(M) = ReducedDofs(N) /\ ReducedIndices(M) = ReducedIndices(N)
<1>1. PICK g, h : /\ g = [r \in Ranks |-> {N[r][id].dof : id \in ReducedNodes(r)}]
                  /\ h = [r \in Ranks |-> {N[r][id].index : id \in ReducedNodes(r)}]
  OBVIOUS
<1>2. \A r \in Ranks : /\ g[r] = {N[r][id].dof : id \in ReducedNodes(r)}
                       /\ h[r] = {N[r][id].index : id \in ReducedNodes(r)}
  BY <1>1
<1>3. \A r \in Ranks : /\ g[r] = {M[r][id].dof : id \in ReducedNodes(r)}
                       /\ h[r] = {M[r][id].index : id \in ReducedNodes(r)}
  BY <1>2
<1>4. ReducedDofs(N) = UNION {g[r] : r \in Ranks} /\ ReducedIndices(N) = UNION {h[r] : r \in Ranks}
  BY <1>2 DEF ReducedDofs, ReducedIndices
<1>5. ReducedDofs(M) = UNION {g[r] : r \in Ranks} /\ ReducedIndices(M) = UNION {h[r] : r \in Ranks}
  BY <1>3 DEF ReducedDofs, ReducedIndices
<1> QED BY <1>4, <1>5

\* Numbering the degrees of freedom
LEMMA NumberDofs ==
  ASSUME MeshInv, Number, Job = "dof"
  PROVE  Known(LevelAfter, FinalNodes)'
<1>1. /\ NodesTyped /\ ElementsTyped /\ RingShape /\ RingTyped /\ FillInv /\ Known(Level, nodes)
  BY DEF MeshInv, Number
<1>2. \A r \in Ranks : Participants(r) \subseteq DOMAIN nodes[r]
  BY <1>1, ParticipantsHere
<1>3. PICK M, S : M = FinalNodes' /\ S = KeySet
  OBVIOUS
<1>4. \A r \in Ranks : Participants(r) = DOMAIN nodes[r] /\ \A id : Key(r, id) = nodes[r][id].dof
  BY DEF Participants, Key
<1>5. /\ DOMAIN M = Ranks /\ \A r \in Ranks : DOMAIN M[r] = DOMAIN nodes[r]
      /\ \A r \in Ranks : \A id \in DOMAIN nodes[r] :
           M[r][id] = Labelled(nodes[r][id], Place(S, nodes[r][id].dof))
  BY <1>1, <1>2, <1>3, <1>4, NumberLeaves
<1>6. dofDist' = Blocks(0, Cardinality(S)) /\ S \in SUBSET Int /\ IsFiniteSet(S)
  BY <1>1, <1>2, <1>3, NumberRing, KeySetFinite
<1>7. /\ \A r \in Ranks : \A id \in DOMAIN nodes[r] : nodes[r][id].dof \in S
      /\ \A x \in S : \E r \in Ranks : \E id \in DOMAIN nodes[r] : nodes[r][id].dof = x
  <2>1. ASSUME NEW x \in S PROVE \E r \in Ranks : \E id \in DOMAIN nodes[r] : nodes[r][id].dof = x
    <3>1. PICK r \in Ranks : \E id \in Participants(r) : x = Key(r, id)
      BY <1>3 DEF KeySet
    <3> QED BY <1>4, <3>1
  <2>2. ASSUME NEW r \in Ranks, NEW id \in DOMAIN nodes[r] PROVE nodes[r][id].dof \in S
    <3>1. id \in Participants(r) /\ Key(r, id) = nodes[r][id].dof
      BY <1>4
    <3> QED BY <1>3, <3>1 DEF KeySet
  <2> QED BY <2>1, <2>2
<1>8. ASSUME NEW r \in Ranks, NEW id \in DOMAIN nodes[r]
      PROVE  /\ M[r][id] \in NodeLabels
             /\ M[r][id].dof = Place(S, nodes[r][id].dof)
             /\ M[r][id].rdof = nodes[r][id].rdof /\ M[r][id].rindex = nodes[r][id].rindex
  <2>1. nodes[r][id] \in NodeLabels
    BY <1>1 DEF NodesTyped
  <2>2. PICK v : v = Place(S, nodes[r][id].dof)
    OBVIOUS
  <2>3. v \in Int
    <3>1. \A x \in Int : Place(S, x) \in 0 .. Cardinality(S)
      BY <1>6, Places
    <3> QED BY <2>1, <2>2, <3>1 DEF NodeLabels
  <2>4. M[r][id] = Labelled(nodes[r][id], v)
    BY <1>5, <2>2
  <2> QED BY <2>1, <2>2, <2>3, <2>4, LabelledFields
<1>9. PICK N : N = nodes
  OBVIOUS
<1>10. Known(1, N)
  BY <1>1, <1>9 DEF Level
<1>11. UNCHANGED elements
  BY DEF Number
<1>12. Known(2, M)'
  BY <1>5, <1>6, <1>7, <1>8, <1>9, <1>10, <1>11, DofsKnown
<1>13. LevelAfter' = 2
  <2>1. Job' = "dof"
    BY DEF Number, Job
  <2> QED BY <2>1 DEF LevelAfter
<1> QED BY <1>3, <1>12, <1>13

\* Numbering the reduced degrees of freedom, or the reduced nodes
LEMMA NumberReduced ==
  ASSUME MeshInv, Number, Job \in {"rdof", "rnode"}
  PROVE  Known(LevelAfter, FinalNodes)'
<1>1. /\ NodesTyped /\ ElementsTyped /\ RingShape /\ RingTyped /\ FillInv /\ Known(Level, nodes)
  BY DEF MeshInv, Number
<1>2. \A r \in Ranks : Participants(r) \subseteq DOMAIN nodes[r]
  BY <1>1, ParticipantsHere
<1>3. PICK M, S, N : M = FinalNodes' /\ S = KeySet /\ N = nodes
  OBVIOUS
<1>4. \A r \in Ranks : /\ Participants(r) = ReducedNodes(r)
                       /\ \A id : Key(r, id) = IF Job = "rdof" THEN N[r][id].dof ELSE N[r][id].index
  BY <1>3 DEF Participants, Key
<1>5. /\ DOMAIN M = Ranks /\ \A r \in Ranks : DOMAIN M[r] = DOMAIN N[r]
      /\ \A r \in Ranks : \A id \in DOMAIN N[r] :
           M[r][id] = IF id \in ReducedNodes(r) THEN Labelled(N[r][id], Place(S, Key(r, id))) ELSE N[r][id]
  BY <1>1, <1>2, <1>3, <1>4, NumberLeaves
<1>6. S \in SUBSET Int /\ IsFiniteSet(S)
  BY <1>1, <1>2, <1>3, KeySetFinite
<1>7. S = IF Job = "rdof" THEN ReducedDofs(N) ELSE ReducedIndices(N)
  <2>1. PICK g : g = [r \in Ranks |-> {Key(r, id) : id \in Participants(r)}]
    OBVIOUS
  <2>2. \A r \in Ranks : g[r] = {Key(r, id) : id \in Participants(r)}
    BY <2>1
  <2>3. S = UNION {g[r] : r \in Ranks}
    BY <1>3, <2>2 DEF KeySet
  <2>4. Job = "rdof" => \A r \in Ranks : g[r] = {N[r][id].dof : id \in ReducedNodes(r)}
    BY <1>4, <2>2
  <2>5. Job = "rnode" => \A r \in Ranks : g[r] = {N[r][id].index : id \in ReducedNodes(r)}
    BY <1>4, <2>2
  <2>6. Job = "rdof" => S = ReducedDofs(N)
    BY <2>3, <2>4 DEF ReducedDofs
  <2>7. Job = "rnode" => S = ReducedIndices(N)
    BY <2>3, <2>5 DEF ReducedIndices
  <2> QED BY <2>6, <2>7
<1>8. ASSUME NEW r \in Ranks, NEW id \in DOMAIN N[r]
      PROVE  /\ N[r][id] \in NodeLabels
             /\ M[r][id] \in NodeLabels /\ M[r][id].dof = N[r][id].dof /\ M[r][id].index = N[r][id].index
             /\ M[r][id].rdof = IF Job = "rdof" /\ id \in ReducedNodes(r) THEN Place(S, N[r][id].dof)
                                ELSE N[r][id].rdof
             /\ M[r][id].rindex = IF Job = "rnode" /\ id \in ReducedNodes(r)
                                  THEN Place(S, N[r][id].index)
                                  ELSE N[r][id].rindex
  <2>1. N[r][id] \in NodeLabels
    BY <1>1, <1>3 DEF NodesTyped
  <2>2. CASE id \in ReducedNodes(r)
    <3>1. PICK key, v : key = Key(r, id) /\ v = Place(S, key)
      OBVIOUS
    <3>2. v \in Int
      <4>1. key \in Int
        BY <1>1, <1>3, <3>1, KeyTyped
      <4>2. \A x \in Int : Place(S, x) \in 0 .. Cardinality(S)
        BY <1>6, Places
      <4> QED BY <3>1, <4>1, <4>2
    <3>3. M[r][id] = Labelled(N[r][id], v)
      BY <1>5, <2>2, <3>1
    <3>4. key = IF Job = "rdof" THEN N[r][id].dof ELSE N[r][id].index
      BY <1>4, <3>1
    <3> QED BY <2>1, <2>2, <3>1, <3>2, <3>3, <3>4, LabelledFields
  <2>3. CASE id \notin ReducedNodes(r)
    <3>1. M[r][id] = N[r][id]
      BY <1>5, <2>3
    <3> QED BY <2>1, <2>3, <3>1
  <2> QED BY <2>2, <2>3
<1>9. PICK l \in {5, 6} : l = Level /\ (l = 5 <=> Job = "rdof")
  BY DEF Level
<1>10. Known(l, N)
  BY <1>1, <1>3, <1>9
<1>11. ReducedDofs(M) = ReducedDofs(N) /\ ReducedIndices(M) = ReducedIndices(N)
  <2>1. \A r \in Ranks : ReducedNodes(r) \subseteq DOMAIN N[r]
    BY <1>2, <1>3, <1>4
  <2> QED BY <1>8, <2>1, ReducedSets
<1>12. ReducedLabelled(l + 1, M)
  <2>1. ASSUME NEW r \in Ranks, NEW id \in DOMAIN N[r]
        PROVE  /\ M[r][id].rdof = IF id \in ReducedNodes(r) THEN Place(ReducedDofs(M), M[r][id].dof) ELSE Unset
               /\ M[r][id].rindex = IF l = 6 /\ id \in ReducedNodes(r)
                                    THEN Place(ReducedIndices(M), M[r][id].index) ELSE Unset
    <3>1. ReducedLabelled(l, N)
      BY <1>10 DEF Known
    <3>2. CASE Job = "rdof"
      <4>1. N[r][id].rdof = Unset /\ N[r][id].rindex = Unset
        BY <1>9, <3>1, <3>2 DEF ReducedLabelled
      <4> QED BY <1>7, <1>8, <1>9, <1>11, <3>2, <4>1
    <3>3. CASE Job = "rnode"
      <4>1. /\ N[r][id].rindex = Unset
            /\ N[r][id].rdof = IF id \in ReducedNodes(r) THEN Place(ReducedDofs(N), N[r][id].dof) ELSE Unset
        BY <1>9, <3>1, <3>3 DEF ReducedLabelled
      <4> QED BY <1>7, <1>8, <1>9, <1>11, <3>3, <4>1
    <3> QED BY <3>2, <3>3
  <2>2. PICK n : n = l + 1
    OBVIOUS
  <2>3. n >= 6 /\ (n >= 7 <=> l = 6)
    BY <2>2
  <2>4. \A r \in Ranks : DOMAIN M[r] = DOMAIN N[r]
    BY <1>5
  <2>5. ReducedLabelled(n, M)
    BY <2>1, <2>3, <2>4 DEF ReducedLabelled
  <2> QED BY <2>2, <2>5
<1>13. UNCHANGED <<elements, dofDist>>
  BY DEF Number
<1>14. Known(l + 1, M)'
  BY <1>5, <1>8, <1>10, <1>12, <1>13, ReducedKnown
<1>15. LevelAfter' = l + 1
  <2>1. Job' = Job
    BY DEF Number, Job
  <2> QED BY <1>9, <2>1 DEF LevelAfter
<1> QED BY <1>3, <1>14, <1>15

\* Numbering the marks keeps the invariant.
LEMMA NumberStep ==
  ASSUME MeshInv, Number
  PROVE  MeshInv'
<1>1. /\ NodesTyped /\ ElementsTyped /\ RingShape /\ RingTyped /\ FillInv /\ Known(Level, nodes)
      /\ ring.phase = "number" /\ Job \in {"dof", "rdof", "rnode"}
  BY DEF MeshInv, Number, FillInv, BlockJobs
<1>2. PICK k \in 0 .. 13 : Where(k)
  BY DEF MeshInv
<1>3. NodesTyped' /\ ElementsTyped' /\ Job' = Job
  BY MeshQuiet DEF Number
<1>4. Where(k)'
  <2>1. UNCHANGED program
    BY DEF Number
  <2> QED BY <1>1, <1>2, <1>3, <2>1, ProgramKept DEF Where
<1>5. /\ DOMAIN ring' = {"phase", "p", "dist", "buf", "fresh"}
      /\ ring'.phase = "collect" /\ ring'.p = 0 /\ ring'.dist = ring.dist
      /\ DOMAIN ring'.buf = Ranks
  <2>1. \A r \in Ranks : Participants(r) \subseteq DOMAIN nodes[r]
    BY <1>1, ParticipantsHere
  <2> QED BY <1>1, <2>1, NumberRing
<1>6. RingShape' /\ RingTyped'
  BY <1>1, <1>3, <1>5, RanksFacts DEF RingShape, RingTyped, Ordered, RingJobs, BlockJobs
<1>7. Known(LevelAfter, FinalNodes)'
  BY <1>1, NumberDofs, NumberReduced
<1> QED BY <1>3, <1>4, <1>5, <1>6, <1>7 DEF MeshInv

-----------------------------------------------------------------------------
(* Labels of the nodes                                                     *)

\* The owner of a node has it.
LEMMA OwnerHas ==
  ASSUME NEW N, DofsNumbered(N), Gathered(N), SameDofs(N),
         \A q \in Ranks : DOMAIN N[q] = UsedNodes(q),
         NEW r \in Ranks, NEW id \in DOMAIN N[r], N[r][id].dof \in Int
  PROVE  \E b \in Ranks : /\ InBlock(N[r][id].dof, dofDist, b)
                          /\ id \in DOMAIN N[b] /\ N[b][id].dof = N[r][id].dof
<1>1. PICK d \in Int : d = N[r][id].dof
  OBVIOUS
<1>2. PICK b \in Ranks : InBlock(d, dofDist, b)
  <2>1. dofDist \in [0 .. Size -> Int] /\ d \in 0 .. dofDist[Size] - 1 /\ dofDist[0] = 0
    BY <1>1 DEF DofsNumbered, DistTyped
  <2>2. Size \in 0 .. Size
    BY RanksFacts
  <2>3. dofDist[Size] \in Int
    BY <2>1, <2>2
  <2>4. dofDist[0] <= d /\ d < dofDist[Size]
    BY <2>1, <2>3
  <2> QED BY <2>1, <2>4, BlockExists
<1>3. PICK e \in elements[r] : id \in e.nodes
  BY DEF UsedNodes
<1>4. PICK f \in elements[b] : Alike(e, f)
  BY <1>1, <1>2, <1>3 DEF Gathered
<1>5. id \in DOMAIN N[b]
  BY <1>3, <1>4 DEF Alike, UsedNodes
<1>6. N[b][id].dof = N[r][id].dof
  BY <1>5 DEF SameDofs
<1> QED BY <1>1, <1>2, <1>5, <1>6

\* The buffer of a rank holds the indices of the nodes it owns.
LEMMA NodeBufferFacts ==
  ASSUME NodesTyped, NEW b \in Ranks, NEW id \in Owned(b)
  PROVE  /\ NodeBuffer(b)[0] <= id /\ id <= NodeBuffer(b)[1]
         /\ NodeBuffer(b)[id - NodeBuffer(b)[0] + 2] = NodeBoundary(b) + Place(Owned(b), id)
<1>1. ASSUME NEW q \in Ranks PROVE Owned(q) \in SUBSET Int /\ IsFiniteSet(Owned(q))
  <2>1. Owned(q) \subseteq DOMAIN nodes[q]
    BY DEF Owned
  <2>2. IsFiniteSet(DOMAIN nodes[q]) /\ DOMAIN nodes[q] \subseteq Int
    BY DEF NodesTyped
  <2> QED BY <2>1, <2>2, FS_Subset
<1>2. ASSUME NEW q \in Ranks
      PROVE  /\ OwnRange(q)[1] \in Int /\ OwnRange(q)[2] \in Int /\ OwnLength(q) \in Int
             /\ OwnLength(q) = OwnRange(q)[2] - OwnRange(q)[1] + 1
             /\ \A x \in Owned(q) : OwnRange(q)[1] <= x /\ x <= OwnRange(q)[2]
  <2>1. CASE Owned(q) = {}
    <3>1. OwnRange(q) = <<1, 0>>
      BY <2>1 DEF OwnRange
    <3> QED BY <2>1, <3>1 DEF OwnLength
  <2>2. CASE Owned(q) # {}
    <3>1. /\ Min(Owned(q)) \in Owned(q) /\ Max(Owned(q)) \in Owned(q)
          /\ \A x \in Owned(q) : Min(Owned(q)) <= x /\ x <= Max(Owned(q))
      BY <1>1, <2>2, MinMax
    <3>2. OwnRange(q) = <<Min(Owned(q)), Max(Owned(q))>>
      BY <2>2 DEF OwnRange
    <3>3. OwnRange(q)[1] = Min(Owned(q)) /\ OwnRange(q)[2] = Max(Owned(q))
      BY <3>2
    <3>4. OwnRange(q)[1] \in Int /\ OwnRange(q)[2] \in Int
      BY <1>1, <3>1, <3>3
    <3> QED BY <3>1, <3>3, <3>4 DEF OwnLength
  <2> QED BY <2>1, <2>2
<1>3. PICK lo \in Int, hi \in Int : lo = OwnRange(b)[1] /\ hi = OwnRange(b)[2]
  BY <1>2
<1>4. id \in Int /\ lo <= id /\ id <= hi /\ OwnLength(b) = hi - lo + 1
  BY <1>1, <1>2, <1>3
<1>5. PICK L \in Int : L = Max({OwnLength(q) : q \in Ranks}) /\ OwnLength(b) <= L
  <2> DEFINE len == [q \in Ranks |-> OwnLength(q)]
             S == {len[q] : q \in Ranks}
  <2>1. IsFiniteSet(S)
    <3>1. IsFiniteSet(Ranks)
      BY RanksFacts
    <3> HIDE DEF len
    <3> QED BY <3>1, FiniteRange
  <2>2. \A q \in Ranks : len[q] = OwnLength(q) /\ len[q] \in Int
    BY <1>2
  <2>3. {OwnLength(q) : q \in Ranks} = S
    BY <2>2
  <2> HIDE DEF len
  <2>4. S \subseteq Int /\ len[b] \in S
    BY <2>2
  <2> HIDE DEF S
  <2>5. Max(S) \in S /\ \A x \in S : x <= Max(S)
    BY <2>1, <2>4, MinMax
  <2> QED BY <2>2, <2>3, <2>4, <2>5
<1>6. PICK B : B = NodeBuffer(b)
  OBVIOUS
<1>7. \A k \in 0 .. L + 1 :
        B[k] = IF k < 2 THEN OwnRange(b)[k + 1]
               ELSE LET i == OwnRange(b)[1] + k - 2
                    IN IF i \in Owned(b) THEN NodeBoundary(b) + Cardinality({j \in Owned(b) : j < i})
                       ELSE IF k - 2 < OwnLength(b) THEN Unset + NodeBoundary(b) ELSE Unset
  BY <1>5, <1>6 DEF NodeBuffer
<1>8. B[0] = lo /\ B[1] = hi
  <2>1. 0 \in 0 .. L + 1 /\ 1 \in 0 .. L + 1
    BY <1>4, <1>5
  <2>2. PICK R : R = OwnRange(b)
    OBVIOUS
  <2>3. \A k \in 0 .. L + 1 : k < 2 => B[k] = R[k + 1]
    BY <1>7, <2>2
  <2>4. B[0] = R[1] /\ B[1] = R[2]
    BY <2>1, <2>3
  <2> QED BY <1>3, <2>2, <2>4
<1>9. PICK k \in Int : k = id - lo + 2
  BY <1>4
<1>10. k \in 0 .. L + 1 /\ ~ (k < 2) /\ lo + k - 2 = id
  BY <1>4, <1>5, <1>9
<1>11. B[k] = NodeBoundary(b) + Cardinality({j \in Owned(b) : j < id})
  <2>1. OwnRange(b)[1] + k - 2 = id
    BY <1>3, <1>10
  <2> QED BY <1>7, <1>10, <2>1
<1> QED BY <1>4, <1>6, <1>8, <1>9, <1>11 DEF Place

\* Indices do not touch what is known of the degrees of freedom.
LEMMA IndexKnown ==
  ASSUME NEW N, Known(4, N), UNCHANGED <<elements, dofDist>>,
         NEW M, DOMAIN M = Ranks, \A r \in Ranks : DOMAIN M[r] = DOMAIN N[r],
         \A r \in Ranks : \A id \in DOMAIN N[r] :
           /\ M[r][id] \in NodeLabels /\ M[r][id].dof = N[r][id].dof
           /\ M[r][id].rdof = N[r][id].rdof /\ M[r][id].rindex = N[r][id].rindex,
         NodesNumbered(M)
  PROVE  Known(5, M)'
<1>1. /\ Kept /\ InUse # {} /\ (\A r \in Ranks : DOMAIN N[r] = UsedNodes(r)) /\ SameDofs(N)
      /\ DofsNumbered(N) /\ Gathered(N) /\ ReducedLabelled(4, N)
  BY DEF Known
<1>2. SameDofs(M)
  BY <1>1 DEF SameDofs
<1>3. DofsNumbered(M)
  <2>1. \A d \in 0 .. dofDist[Size] - 1 : \E r \in Ranks : \E id \in DOMAIN M[r] : M[r][id].dof = d
    BY <1>1 DEF DofsNumbered
  <2> QED BY <1>1, <2>1 DEF DofsNumbered
<1>4. Gathered(M)
  BY <1>1 DEF Gathered
<1>5. ReducedLabelled(5, M)
  <2>1. \A r \in Ranks : \A id \in DOMAIN N[r] : M[r][id].rdof = Unset /\ M[r][id].rindex = Unset
    BY <1>1 DEF ReducedLabelled
  <2> QED BY <2>1 DEF ReducedLabelled
<1>6. Known(5, M)
  BY <1>1, <1>2, <1>3, <1>4, <1>5 DEF Known
<1> QED BY <1>6, KnownStays

\* Every node gets the index its owner has for it.
LEMMA NodeLabels4 ==
  ASSUME MeshInv, StartNodeLabeling,
         NEW r \in Ranks, NEW id \in DOMAIN nodes[r]
  PROVE  \E b \in Ranks :
           /\ InBlock(nodes[r][id].dof, dofDist, b) /\ id \in Owned(b)
           /\ FinalNodes'[r][id] = [nodes[r][id] EXCEPT !.index = NodeBoundary(b) + Place(Owned(b), id)]
<1>1. NodesTyped /\ ElementsTyped /\ Known(Level, nodes) /\ ring.phase = "idle" /\ Job = "node"
  BY DEF MeshInv, StartNodeLabeling
<1>2. /\ DofsNumbered(nodes) /\ Gathered(nodes) /\ SameDofs(nodes)
      /\ \A q \in Ranks : DOMAIN nodes[q] = UsedNodes(q)
  <2>1. Level = 4
    BY <1>1 DEF Level
  <2> QED BY <1>1, <2>1 DEF Known
<1>3. PICK d \in Int : d = nodes[r][id].dof
  BY <1>1 DEF NodesTyped, NodeLabels
<1>4. PICK b \in Ranks : InBlock(d, dofDist, b) /\ id \in DOMAIN nodes[b] /\ nodes[b][id].dof = d
  BY <1>2, <1>3, OwnerHas
<1>5. id \in Owned(b)
  BY <1>4 DEF Owned
<1>6. PICK B : B = NodeBuffer(b)
  OBVIOUS
<1>7. B[0] <= id /\ id <= B[1] /\ B[id - B[0] + 2] = NodeBoundary(b) + Place(Owned(b), id)
  BY <1>1, <1>5, <1>6, NodeBufferFacts
<1>8. /\ ring'.p = 0 /\ ring'.dist = dofDist /\ ring'.buf[b] = B
      /\ UNCHANGED <<nodes, elements, program, dofDist>>
  <2>1. PICK F : F = [q \in Ranks |-> NodeBuffer(q)]
    OBVIOUS
  <2>2. ring' = [Idle EXCEPT !.phase = "collect", !.dist = dofDist, !.buf = F]
    BY <2>1 DEF StartNodeLabeling
  <2> QED BY <1>6, <2>1, <2>2 DEF Idle, StartNodeLabeling
<1>9. Job' = "node" /\ Key(r, id)' = d /\ id \in Participants(r)' /\ id \in DOMAIN nodes'[r]
  <2>1. Job' = "node"
    BY <1>1, <1>8 DEF Job
  <2> QED BY <1>3, <1>8, <2>1 DEF Key, Participants
<1>10. FinalNodes'[r][id] =
         IF id \in Participants(r)' THEN (Labelled(nodes[r][id], LabelFrom(b, r, id)))' ELSE nodes'[r][id]
  <2>1. ring'.dist \in [0 .. Size -> Int] /\ Ordered(ring'.dist)
    BY <1>2, <1>8 DEF DofsNumbered, DistTyped
  <2>2. ~ Relabels'
    BY <1>9 DEF Relabels
  <2>3. ring'.buf[b][0] <= id /\ id <= ring'.buf[b][1]
    BY <1>7, <1>8
  <2>4. Key(r, id)' \in Int /\ InBlock(Key(r, id)', ring'.dist, b)
    BY <1>4, <1>8, <1>9
  <2> QED BY <1>8, <1>9, <2>1, <2>2, <2>3, <2>4, FinalLabel
<1>11. LabelFrom(b, r, id)' = B[id - B[0] + 2]
  <2>1. Holder(b)' = b
    <3>1. b + 0 = b /\ b \in Int
      BY RanksFacts
    <3>2. b % Size = b
      BY <3>1, Modulo
    <3> QED BY <1>8, <3>1, <3>2 DEF Holder
  <2> QED BY <1>8, <1>9, <2>1 DEF LabelFrom
<1>12. FinalNodes'[r][id] = [nodes[r][id] EXCEPT !.index = B[id - B[0] + 2]]
  BY <1>8, <1>9, <1>10, <1>11 DEF Labelled
<1> QED BY <1>3, <1>4, <1>5, <1>7, <1>12

\* Numbering the nodes keeps the invariant.
LEMMA NodeLabelingStep ==
  ASSUME MeshInv, StartNodeLabeling
  PROVE  MeshInv'
<1>1. /\ NodesTyped /\ ElementsTyped /\ RingShape /\ Known(Level, nodes) /\ ring.phase = "idle"
           /\ Job = "node"
  BY DEF MeshInv, StartNodeLabeling
<1>2. UNCHANGED <<nodes, elements, program, dofDist>>
  BY DEF StartNodeLabeling
<1>3. NodesTyped' /\ ElementsTyped' /\ Job' = Job /\ \E k \in 0 .. 13 : Where(k)'
  BY <1>2, MeshQuiet
<1>4. PICK N, M : N = nodes /\ M = FinalNodes'
  OBVIOUS
<1>5. Known(4, N)
  <2>1. Level = 4
    BY <1>1 DEF Level
  <2> QED BY <1>1, <1>4, <2>1
<1>6. /\ DofsNumbered(N) /\ SameDofs(N) /\ Ordered(dofDist) /\ dofDist \in [0 .. Size -> Int]
  BY <1>5 DEF Known, DofsNumbered, DistTyped
<1>7. /\ DOMAIN ring' = {"phase", "p", "dist", "buf", "fresh"}
      /\ ring'.phase = "collect" /\ ring'.p = 0 /\ ring'.dist = dofDist /\ DOMAIN ring'.buf = Ranks
  <2>1. PICK F : F = [q \in Ranks |-> NodeBuffer(q)]
    OBVIOUS
  <2>2. ring' = [Idle EXCEPT !.phase = "collect", !.dist = dofDist, !.buf = F]
    BY <2>1 DEF StartNodeLabeling
  <2> QED BY <2>1, <2>2 DEF Idle
<1>8. RingShape' /\ RingTyped'
  BY <1>1, <1>3, <1>6, <1>7, RanksFacts DEF RingShape, RingTyped, Ordered, RingJobs
<1>9. PICK things : things = [q \in Ranks |-> Owned(q)]
  OBVIOUS
<1>10. things \in [Ranks -> SUBSET Int] /\ \A q \in Ranks : IsFiniteSet(things[q])
  <2>1. ASSUME NEW q \in Ranks PROVE Owned(q) \in SUBSET Int /\ IsFiniteSet(Owned(q))
    <3>1. Owned(q) \subseteq DOMAIN nodes[q]
      BY DEF Owned
    <3>2. IsFiniteSet(DOMAIN nodes[q]) /\ DOMAIN nodes[q] \subseteq Int
      BY <1>1 DEF NodesTyped
    <3> QED BY <3>1, <3>2, FS_Subset
  <2> QED BY <1>9, <2>1
<1>11. PICK bound \in [0 .. Size -> Int] : \A p \in 0 .. Size : bound[p] = CountBefore(p, things)
  <2>1. \A p \in 0 .. Size : CountBefore(p, things) \in Nat
    BY <1>10, CountSteps
  <2>2. [p \in 0 .. Size |-> CountBefore(p, things)] \in [0 .. Size -> Int]
    BY <2>1
  <2> QED BY <2>2
<1>12. /\ bound \in [0 .. Size -> Nat]
       /\ \A q \in Ranks : \A x \in things[q] : bound[q] + Place(things[q], x) \in 0 .. bound[Size] - 1
       /\ \A q, r \in Ranks : \A x \in things[q], y \in things[r] :
            bound[q] + Place(things[q], x) = bound[r] + Place(things[r], y) => q = r /\ x = y
       /\ \A i \in 0 .. bound[Size] - 1 : \E q \in Ranks : \E x \in things[q] :
            bound[q] + Place(things[q], x) = i
  BY <1>10, <1>11, GroupLabels
<1>13. ASSUME NEW r \in Ranks, NEW id \in DOMAIN N[r]
       PROVE  \E b \in Ranks :
                /\ InBlock(N[r][id].dof, dofDist, b) /\ id \in things[b]
                /\ M[r][id] = [N[r][id] EXCEPT !.index = bound[b] + Place(things[b], id)]
  <2>1. PICK b \in Ranks :
           /\ InBlock(N[r][id].dof, dofDist, b) /\ id \in Owned(b)
           /\ M[r][id] = [N[r][id] EXCEPT !.index = NodeBoundary(b) + Place(Owned(b), id)]
    BY <1>4, NodeLabels4
  <2>2. bound[b] = NodeBoundary(b)
    <3>1. b \in 0 .. Size
      BY RanksFacts
    <3> QED BY <1>9, <1>11, <3>1 DEF NodeBoundary
  <2>3. things[b] = Owned(b)
    BY <1>9
  <2> QED BY <2>1, <2>2, <2>3
<1>14. DOMAIN M = Ranks /\ \A r \in Ranks : DOMAIN M[r] = DOMAIN N[r]
  BY <1>2, <1>4 DEF FinalNodes
<1>15. ASSUME NEW r \in Ranks, NEW id \in DOMAIN N[r]
       PROVE  /\ M[r][id] \in NodeLabels /\ M[r][id].dof = N[r][id].dof
              /\ M[r][id].rdof = N[r][id].rdof /\ M[r][id].rindex = N[r][id].rindex
              /\ N[r][id].dof \in Int
              /\ \E b \in Ranks : /\ InBlock(N[r][id].dof, dofDist, b) /\ id \in things[b]
                                  /\ M[r][id].index = bound[b] + Place(things[b], id)
  <2>1. PICK b \in Ranks : /\ InBlock(N[r][id].dof, dofDist, b) /\ id \in things[b]
                           /\ M[r][id] = [N[r][id] EXCEPT !.index = bound[b] + Place(things[b], id)]
    BY <1>13
  <2>2. PICK v \in Int : v = bound[b] + Place(things[b], id)
    <3>1. bound[b] + Place(things[b], id) \in 0 .. bound[Size] - 1
      BY <1>12, <2>1
    <3> QED BY <3>1
  <2>3. N[r][id] \in NodeLabels
    BY <1>1, <1>4 DEF NodesTyped
  <2>4. M[r][id] = [N[r][id] EXCEPT !.index = v]
    BY <2>1, <2>2
  <2> QED BY <2>1, <2>2, <2>3, <2>4 DEF NodeLabels
<1>16. NodesNumbered(M)
  <2>1. PICK n \in Nat : n = bound[Size]
    <3>1. Size \in 0 .. Size
      BY RanksFacts
    <3> QED BY <1>12, <3>1
  <2>2. ASSUME NEW i PROVE i \in Indices(M) <=> i \in 0 .. n - 1
    <3>1. ASSUME i \in Indices(M) PROVE i \in 0 .. n - 1
      <4>1. PICK r \in Ranks : \E id \in DOMAIN M[r] : i = M[r][id].index
        BY <3>1 DEF Indices
      <4>2. PICK id \in DOMAIN N[r] : i = M[r][id].index
        BY <1>14, <4>1
      <4>3. PICK b \in Ranks : id \in things[b] /\ i = bound[b] + Place(things[b], id)
        BY <1>15, <4>2
      <4> QED BY <1>12, <2>1, <4>3
    <3>2. ASSUME i \in 0 .. n - 1 PROVE i \in Indices(M)
      <4>1. PICK q \in Ranks : \E x \in things[q] : bound[q] + Place(things[q], x) = i
        BY <1>12, <2>1, <3>2
      <4>2. PICK x \in things[q] : bound[q] + Place(things[q], x) = i
        BY <4>1
      <4>3. x \in DOMAIN N[q] /\ InBlock(N[q][x].dof, dofDist, q)
        BY <1>4, <1>9, <4>2 DEF Owned
      <4>4. PICK b \in Ranks : /\ InBlock(N[q][x].dof, dofDist, b) /\ x \in things[b]
                               /\ M[q][x].index = bound[b] + Place(things[b], x)
        BY <1>15, <4>3
      <4>5. b = q
        BY <1>6, <1>15, <4>3, <4>4, BlockUnique
      <4>6. M[q][x].index = i /\ x \in DOMAIN M[q]
        BY <1>14, <4>2, <4>3, <4>4, <4>5
      <4> QED BY <4>6 DEF Indices
    <3> QED BY <3>1, <3>2
  <2>3. Indices(M) = 0 .. n - 1
    BY <2>2
  <2>4. Dense(Indices(M))
    <3>1. Cardinality(0 .. n - 1) = n
      <4>1. Cardinality(0 .. n - 1) = IF 0 > n - 1 THEN 0 ELSE (n - 1) - 0 + 1
        BY FS_Interval
      <4> QED BY <4>1
    <3> QED BY <2>3, <3>1 DEF Dense
  <2>5. ASSUME NEW r \in Ranks, NEW q \in Ranks, NEW id \in DOMAIN M[r], NEW j \in DOMAIN M[q]
        PROVE  (id = j) = (M[r][id].index = M[q][j].index)
    <3>1. PICK a \in Ranks : /\ InBlock(N[r][id].dof, dofDist, a) /\ id \in things[a]
                             /\ M[r][id].index = bound[a] + Place(things[a], id)
      BY <1>14, <1>15
    <3>2. PICK b \in Ranks : /\ InBlock(N[q][j].dof, dofDist, b) /\ j \in things[b]
                             /\ M[q][j].index = bound[b] + Place(things[b], j)
      BY <1>14, <1>15
    <3>3. ASSUME id = j PROVE M[r][id].index = M[q][j].index
      <4>1. N[r][id].dof = N[q][j].dof
        BY <1>6, <1>14, <3>3 DEF SameDofs
      <4>2. a = b
        BY <1>6, <1>14, <1>15, <3>1, <3>2, <4>1, BlockUnique
      <4> QED BY <3>1, <3>2, <3>3, <4>2
    <3>4. ASSUME M[r][id].index = M[q][j].index PROVE id = j
      BY <1>12, <3>1, <3>2, <3>4
    <3> QED BY <3>3, <3>4
  <2> QED BY <2>4, <2>5 DEF NodesNumbered
<1>17. Known(5, M)'
  BY <1>2, <1>5, <1>14, <1>15, <1>16, IndexKnown
<1>18. LevelAfter' = 5
  BY <1>1, <1>3 DEF LevelAfter
<1> QED BY <1>3, <1>4, <1>7, <1>8, <1>17, <1>18 DEF MeshInv

-----------------------------------------------------------------------------
(* Moving the degrees of freedom                                           *)

\* A buffer of the optimizers has room for every block.
LEMMA DofBlockRoom ==
  ASSUME DistTyped, NEW b \in Ranks, NEW k \in 0 .. dofDist[b + 1] - dofDist[b] - 1
  PROVE  k \in 0 .. LongestDofBlock - 1
<1> DEFINE len == [q \in Ranks |-> dofDist[q + 1] - dofDist[q]]
           S == {len[q] : q \in Ranks}
<1>1. \A q \in Ranks : dofDist[q] \in Int /\ dofDist[q + 1] \in Int
  <2>1. \A q \in Ranks : q \in 0 .. Size /\ q + 1 \in 0 .. Size
    BY RanksFacts
  <2> QED BY <2>1 DEF DistTyped
<1>2. \A q \in Ranks : len[q] = dofDist[q + 1] - dofDist[q] /\ len[q] \in Int
  BY <1>1
<1>3. {dofDist[q + 1] - dofDist[q] : q \in Ranks} = S
  BY <1>2
<1> HIDE DEF len
<1>4. IsFiniteSet(S)
  <2>1. IsFiniteSet(Ranks)
    BY RanksFacts
  <2> QED BY <2>1, FiniteRange
<1>5. S \subseteq Int /\ len[b] \in S
  BY <1>2
<1> HIDE DEF S
<1>6. Max(S) \in S /\ \A x \in S : x <= Max(S)
  BY <1>4, <1>5, MinMax
<1>7. PICK L \in Int : L = LongestDofBlock /\ len[b] <= L
  BY <1>3, <1>5, <1>6 DEF LongestDofBlock
<1>8. PICK x \in Int : x = len[b] /\ k \in 0 .. x - 1
  BY <1>2
<1> QED BY <1>7, <1>8

\* Relabelling the degrees of freedom of the blocks leaves every node the label
\* in the buffer of its block.
LEMMA DofRing ==
  ASSUME NodesTyped, ElementsTyped, Known(Level, nodes), UNCHANGED <<nodes, elements, program>>,
         Job \in {"optimizeDOFDistribution", "optimizeDOFLabeling"},
         ring'.p = 0, ring'.dist = dofDist,
         Relabels => \A q \in Ranks : ring'.fresh[q] = DOMAIN nodes[q],
         NEW r \in Ranks, NEW id \in DOMAIN nodes[r]
  PROVE  \E b \in Ranks :
           /\ InBlock(nodes[r][id].dof, dofDist, b)
           /\ nodes[r][id].dof - dofDist[b] \in 0 .. dofDist[b + 1] - dofDist[b] - 1
           /\ FinalNodes'[r][id] = [nodes[r][id] EXCEPT !.dof = ring'.buf[b][nodes[r][id].dof - dofDist[b]]]
<1>1. /\ DofsNumbered(nodes) /\ Gathered(nodes) /\ SameDofs(nodes)
      /\ \A q \in Ranks : DOMAIN nodes[q] = UsedNodes(q)
  <2>1. Level = 4
    BY DEF Level
  <2> QED BY <2>1 DEF Known
<1>2. PICK d \in Int : d = nodes[r][id].dof
  BY DEF NodesTyped, NodeLabels
<1>3. PICK b \in Ranks : InBlock(d, dofDist, b)
  BY <1>1, <1>2, OwnerHas
<1>4. d - dofDist[b] \in 0 .. dofDist[b + 1] - dofDist[b] - 1
  <2>1. dofDist[b] \in Int /\ dofDist[b + 1] \in Int
    <3>1. b \in 0 .. Size /\ b + 1 \in 0 .. Size
      BY RanksFacts
    <3> QED BY <1>1, <3>1 DEF DofsNumbered, DistTyped
  <2> QED BY <1>3, <2>1 DEF InBlock
<1>5. /\ Job' = Job /\ Relabels' = Relabels /\ Key(r, id)' = d
      /\ id \in Participants(r)' /\ id \in DOMAIN nodes'[r]
  <2>1. Job' = Job
    BY DEF Job
  <2> QED BY <1>2, <2>1 DEF Key, Participants, Relabels
<1>6. FinalNodes'[r][id] =
         IF id \in Participants(r)' THEN (Labelled(nodes[r][id], LabelFrom(b, r, id)))' ELSE nodes'[r][id]
  <2>1. ring'.dist \in [0 .. Size -> Int] /\ Ordered(ring'.dist)
    BY <1>1 DEF DofsNumbered, DistTyped
  <2>2. Job' # "node"
    BY <1>5
  <2>3. Relabels' => id \in ring'.fresh[r]
    BY <1>5
  <2>4. Key(r, id)' \in Int /\ InBlock(Key(r, id)', ring'.dist, b)
    BY <1>3, <1>5
  <2> QED BY <1>5, <2>1, <2>2, <2>3, <2>4, FinalLabel
<1>7. LabelFrom(b, r, id)' = ring'.buf[b][d - dofDist[b]]
  <2>1. Holder(b)' = b
    <3>1. b + 0 = b /\ b \in Int
      BY RanksFacts
    <3>2. b % Size = b
      BY <3>1, Modulo
    <3> QED BY <3>1, <3>2 DEF Holder
  <2> QED BY <1>5, <2>1 DEF LabelFrom
<1>8. FinalNodes'[r][id] = [nodes[r][id] EXCEPT !.dof = ring'.buf[b][d - dofDist[b]]]
  BY <1>5, <1>6, <1>7 DEF Labelled
<1> QED BY <1>2, <1>3, <1>4, <1>8

\* A partition assigns every degree of freedom to a rank.
LEMMA PartitionTyped ==
  ASSUME NEW N, DofsNumbered(N), NEW part \in Partitions
  PROVE  part \in [0 .. dofDist[Size] - 1 -> Ranks]
<1>1. PICK n \in Int : n = dofDist[Size]
  <2>1. Size \in 0 .. Size
    BY RanksFacts
  <2> QED BY <2>1 DEF DofsNumbered, DistTyped
<1>2. PICK D : D = 0 .. n - 1
  OBVIOUS
<1> DEFINE current == [d \in D |-> CHOOSE p \in Ranks : InBlock(d, dofDist, p)]
<1>3. ASSUME NEW d \in D PROVE current[d] \in Ranks
  <2>1. \E p \in Ranks : InBlock(d, dofDist, p)
    <3>1. d \in Int /\ dofDist[0] <= d /\ d < dofDist[Size]
      BY <1>1, <1>2 DEF DofsNumbered
    <3> QED BY <3>1, BlockExists DEF DofsNumbered, DistTyped
  <2>2. current[d] = CHOOSE p \in Ranks : InBlock(d, dofDist, p)
    OBVIOUS
  <2> QED BY <2>1, <2>2
<1>4. part \in {[d \in D |-> 0], current} \/ part \in [D -> Ranks]
  <2>1. D = Dofs
    BY <1>1, <1>2 DEF Dofs
  <2> QED BY <2>1 DEF Partitions
<1>5. current \in [D -> Ranks]
  BY <1>3
<1>6. [d \in D |-> 0] \in [D -> Ranks]
  BY RanksFacts
<1> HIDE DEF current
<1> QED BY <1>1, <1>2, <1>4, <1>5, <1>6

\* The labels a partition gives are numbered without a gap, and in blocks.
LEMMA PartitionLabels ==
  ASSUME NEW n \in Int, NEW part \in [0 .. n - 1 -> Ranks]
  PROVE  /\ PartitionDist(part) \in [0 .. Size -> Int] /\ Ordered(PartitionDist(part))
         /\ PartitionDist(part)[0] = 0
         /\ \A d \in 0 .. n - 1 : NewLabel(part, d) \in 0 .. PartitionDist(part)[Size] - 1
         /\ \A i \in 0 .. PartitionDist(part)[Size] - 1 : \E d \in 0 .. n - 1 : NewLabel(part, d) = i
<1>1. PICK D : D = 0 .. n - 1 /\ D \in SUBSET Int /\ IsFiniteSet(D) /\ part \in [D -> Ranks]
  BY FS_Interval
<1>2. PICK things : things = [p \in Ranks |-> {d \in D : part[d] = p}]
  OBVIOUS
<1>3. /\ things \in [Ranks -> SUBSET Int]
      /\ \A p \in Ranks : IsFiniteSet(things[p]) /\ things[p] = {d \in D : part[d] = p}
  <2>1. ASSUME NEW p \in Ranks PROVE {d \in D : part[d] = p} \in SUBSET Int /\ IsFiniteSet({d \in D : part[d] = p})
    BY <1>1, FS_Subset
  <2>2. \A p \in Ranks : things[p] = {d \in D : part[d] = p}
    BY <1>2
  <2>3. DOMAIN things = Ranks
    BY <1>2
  <2> QED BY <1>2, <2>1, <2>2, <2>3
<1>t. things \in [Ranks -> SUBSET Int] /\ \A p \in Ranks : IsFiniteSet(things[p])
  BY <1>3
<1>4. ASSUME NEW p \in 0 .. Size
      PROVE  PartitionDist(part)[p] = CountBefore(p, things)
  <2> DEFINE S == {d \in D : part[d] < p}
             T == UNION {{q} \X things[q] : q \in Before(p)}
             f == [d \in S |-> <<part[d], d>>]
  <2>1. IsFiniteSet(S)
    BY <1>1, FS_Subset
  <2>2. f \in [S -> T]
    <3>1. ASSUME NEW d \in S PROVE <<part[d], d>> \in T
      <4>1. part[d] \in Before(p) /\ d \in things[part[d]]
        BY <1>1, <1>3 DEF Before
      <4>2. <<part[d], d>> \in {part[d]} \X things[part[d]]
        BY <4>1
      <4> QED BY <4>1, <4>2
    <3> HIDE DEF S, T
    <3> QED BY <3>1
  <2>3. \A c, d \in S : f[c] = f[d] => c = d
    <3> HIDE DEF S
    <3> QED OBVIOUS
  <2>4. ASSUME NEW t \in T PROVE \E d \in S : f[d] = t
    <3>1. PICK q \in Before(p) : t \in {q} \X things[q]
      OBVIOUS
    <3>2. q \in Ranks /\ q < p
      BY <3>1 DEF Before
    <3>3. t = <<t[1], t[2]>> /\ t[1] = q /\ t[2] \in things[q]
      BY <3>1
    <3>4. t[2] \in S /\ part[t[2]] = q
      BY <1>3, <3>2, <3>3
    <3> QED BY <3>3, <3>4
  <2>5. Cardinality(T) = Cardinality(S)
    <3> HIDE DEF S, T, f
    <3> QED BY <2>1, <2>2, <2>3, <2>4, Image
  <2>6. PartitionDist(part)[p] = Cardinality(S)
    BY <1>1 DEF PartitionDist
  <2> QED BY <2>5, <2>6 DEF CountBefore
<1>5. PICK bound \in [0 .. Size -> Int] : /\ bound = PartitionDist(part)
                                          /\ \A p \in 0 .. Size : bound[p] = CountBefore(p, things)
  <2>1. \A p \in 0 .. Size : PartitionDist(part)[p] \in Int
    <3>1. \A p \in 0 .. Size : CountBefore(p, things) \in Nat
      BY <1>t, CountSteps
    <3> QED BY <1>4, <3>1
  <2>2. PICK bound : bound = PartitionDist(part)
    OBVIOUS
  <2>3. bound = [p \in 0 .. Size |-> bound[p]]
    BY <2>2 DEF PartitionDist
  <2>4. \A p \in 0 .. Size : bound[p] = CountBefore(p, things) /\ bound[p] \in Int
    BY <1>4, <2>1, <2>2
  <2>5. bound \in [0 .. Size -> Int]
    BY <2>3, <2>4
  <2> QED BY <2>2, <2>4, <2>5
<1>6. /\ Ordered(bound) /\ bound[0] = 0
      /\ \A q \in Ranks : \A x \in things[q] : bound[q] + Place(things[q], x) \in 0 .. bound[Size] - 1
      /\ \A i \in 0 .. bound[Size] - 1 : \E q \in Ranks : \E x \in things[q] :
           bound[q] + Place(things[q], x) = i
  <2>1. \A p \in 0 .. Size : bound[p] = CountBefore(p, things)
    BY <1>5
  <2> QED BY <1>t, <2>1, GroupLabels
<1>7. ASSUME NEW d \in D
      PROVE  /\ part[d] \in Ranks /\ d \in things[part[d]]
             /\ NewLabel(part, d) = bound[part[d]] + Place(things[part[d]], d)
  <2>1. PICK p \in Ranks : p = part[d]
    BY <1>1
  <2>2. d \in things[p]
    BY <1>3, <2>1
  <2>3. {e \in D : e < d /\ part[e] = p} = {y \in things[p] : y < d}
    BY <1>3
  <2>4. DOMAIN part = D
    BY <1>1
  <2> QED BY <1>5, <2>1, <2>2, <2>3, <2>4 DEF NewLabel, Place
<1>8. \A d \in D : NewLabel(part, d) \in 0 .. bound[Size] - 1
  BY <1>6, <1>7
<1>9. ASSUME NEW i \in 0 .. bound[Size] - 1 PROVE \E d \in D : NewLabel(part, d) = i
  <2>1. PICK q \in Ranks : \E x \in things[q] : bound[q] + Place(things[q], x) = i
    BY <1>6
  <2>2. PICK x \in things[q] : bound[q] + Place(things[q], x) = i
    BY <2>1
  <2>3. x \in D /\ part[x] = q
    BY <1>3, <2>2
  <2> QED BY <1>7, <2>2, <2>3
<1> QED BY <1>1, <1>5, <1>6, <1>8, <1>9

\* Relabelling the degrees of freedom after a partition
LEMMA PartitionKnown ==
  ASSUME NEW N, Known(4, N), UNCHANGED elements,
         NEW M, DOMAIN M = Ranks, \A r \in Ranks : DOMAIN M[r] = DOMAIN N[r],
         \A r \in Ranks : \A id \in DOMAIN N[r] :
           M[r][id] \in NodeLabels /\ M[r][id].rdof = N[r][id].rdof /\ M[r][id].rindex = N[r][id].rindex,
         SameDofs(M), DofsNumbered(M)'
  PROVE  Known(2, M)'
<1>1. Kept /\ InUse # {} /\ (\A r \in Ranks : DOMAIN N[r] = UsedNodes(r)) /\ ReducedLabelled(4, N)
  BY DEF Known
<1>2. Kept' /\ InUse' # {} /\ \A r \in Ranks : DOMAIN M[r] = UsedNodes(r)'
  <2>1. \A r \in Ranks : UsedNodes(r)' = UsedNodes(r)
    BY DEF UsedNodes
  <2>2. InUse' = InUse
    BY <2>1 DEF InUse
  <2>3. Kept'
    BY <1>1 DEF Kept
  <2> QED BY <1>1, <2>1, <2>2, <2>3
<1>3. ReducedLabelled(2, M)'
  <2>1. \A r \in Ranks : \A id \in DOMAIN M[r] : M[r][id].rdof = Unset /\ M[r][id].rindex = Unset
    BY <1>1 DEF ReducedLabelled
  <2> QED BY <2>1 DEF ReducedLabelled, Unset
<1>4. \A r \in Ranks : \A id \in DOMAIN M[r] : M[r][id] \in NodeLabels'
  BY DEF NodeLabels
<1>5. SameDofs(M)'
  BY DEF SameDofs
<1> QED BY <1>2, <1>3, <1>4, <1>5 DEF Known

\* The optimizer gives every degree of freedom a rank and every rank a block.
LEMMA DofDistributionStep ==
  ASSUME MeshInv, StartOptimizeDOFDistribution
  PROVE  MeshInv'
<1>1. /\ NodesTyped /\ ElementsTyped /\ RingShape /\ Known(Level, nodes) /\ ring.phase = "idle"
      /\ Job = "optimizeDOFDistribution"
  BY DEF MeshInv, StartOptimizeDOFDistribution
<1>2. UNCHANGED <<nodes, elements, program>>
  BY DEF StartOptimizeDOFDistribution
<1>3. NodesTyped' /\ ElementsTyped' /\ Job' = Job
  BY <1>2, MeshQuiet
<1>4. PICK k \in 0 .. 13 : Where(k)
  BY DEF MeshInv
<1>5. Where(k)'
  BY <1>1, <1>2, <1>3, <1>4, ProgramKept DEF Where
<1>6. PICK N, M : N = nodes /\ M = FinalNodes'
  OBVIOUS
<1>7. Known(4, N)
  <2>1. Level = 4
    BY <1>1 DEF Level
  <2> QED BY <1>1, <1>6, <2>1
<1>8. /\ DofsNumbered(N) /\ SameDofs(N) /\ Ordered(dofDist) /\ dofDist \in [0 .. Size -> Int]
           /\ dofDist[0] = 0
  BY <1>7 DEF Known, DofsNumbered, DistTyped
<1>9. PICK n \in Int : n = dofDist[Size]
  <2>1. Size \in 0 .. Size
    BY RanksFacts
  <2> QED BY <1>8, <2>1
<1>10. PICK part \in Partitions :
         /\ dofDist' = PartitionDist(part)
         /\ ring' = [Idle EXCEPT !.phase = "collect", !.dist = dofDist,
                       !.buf = [r \in Ranks |-> [j \in 0 .. LongestDofBlock - 1 |->
                                  IF dofDist[r] + j < dofDist[r + 1]
                                  THEN NewLabel(part, dofDist[r] + j) ELSE 0]],
                       !.fresh = [r \in Ranks |-> DOMAIN nodes[r]]]
  BY DEF StartOptimizeDOFDistribution
<1>11. part \in [0 .. n - 1 -> Ranks]
  BY <1>8, <1>9, PartitionTyped
<1>12. PICK B, F : /\ B = [r \in Ranks |-> [j \in 0 .. LongestDofBlock - 1 |->
                             IF dofDist[r] + j < dofDist[r + 1] THEN NewLabel(part, dofDist[r] + j) ELSE 0]]
                   /\ F = [r \in Ranks |-> DOMAIN nodes[r]]
  OBVIOUS
<1>13. /\ DOMAIN ring' = {"phase", "p", "dist", "buf", "fresh"}
       /\ ring'.phase = "collect" /\ ring'.p = 0 /\ ring'.dist = dofDist
       /\ ring'.buf = B /\ ring'.fresh = F
  <2>1. ring' = [Idle EXCEPT !.phase = "collect", !.dist = dofDist, !.buf = B, !.fresh = F]
    BY <1>10, <1>12
  <2> QED BY <2>1 DEF Idle
<1>14. RingShape' /\ RingTyped'
  <2>1. DOMAIN B = Ranks
    BY <1>12
  <2> QED BY <1>1, <1>3, <1>8, <1>13, <2>1, RanksFacts DEF RingShape, RingTyped, Ordered, RingJobs
<1>15. ASSUME NEW r \in Ranks, NEW id \in DOMAIN N[r]
       PROVE  /\ N[r][id] \in NodeLabels /\ N[r][id].dof \in 0 .. n - 1
              /\ M[r][id] = [N[r][id] EXCEPT !.dof = NewLabel(part, N[r][id].dof)]
  <2>1. N[r][id] \in NodeLabels
    BY <1>1, <1>6 DEF NodesTyped
  <2>2. PICK d \in Int : d = N[r][id].dof
    BY <2>1 DEF NodeLabels
  <2>3. PICK b \in Ranks :
          /\ d - dofDist[b] \in 0 .. dofDist[b + 1] - dofDist[b] - 1
          /\ M[r][id] = [N[r][id] EXCEPT !.dof = ring'.buf[b][d - dofDist[b]]]
    <3>1. \A q \in Ranks : ring'.fresh[q] = DOMAIN nodes[q]
      BY <1>12, <1>13
    <3> QED BY <1>1, <1>2, <1>6, <1>13, <2>2, <3>1, DofRing
  <2>4. PICK x \in Int, y \in Int : x = dofDist[b] /\ y = dofDist[b + 1]
    <3>1. b \in 0 .. Size /\ b + 1 \in 0 .. Size
      BY RanksFacts
    <3> QED BY <1>8, <3>1
  <2>5. PICK j \in Int : j = d - x /\ x + j = d /\ x + j < y
    BY <2>3, <2>4
  <2>6. j \in 0 .. LongestDofBlock - 1
    BY <1>8, <2>3, <2>4, <2>5, DofBlockRoom DEF DistTyped
  <2>7. B[b][j] = NewLabel(part, d)
    BY <1>12, <2>4, <2>5, <2>6
  <2>8. d \in 0 .. n - 1
    BY <1>6, <1>8, <1>9, <2>2 DEF DofsNumbered
  <2> QED BY <1>13, <2>1, <2>2, <2>3, <2>4, <2>5, <2>7, <2>8
<1>16. DOMAIN M = Ranks /\ \A r \in Ranks : DOMAIN M[r] = DOMAIN N[r]
  BY <1>2, <1>6 DEF FinalNodes
<1>17. /\ PartitionDist(part) \in [0 .. Size -> Int] /\ Ordered(PartitionDist(part))
       /\ PartitionDist(part)[0] = 0
       /\ \A d \in 0 .. n - 1 : NewLabel(part, d) \in 0 .. PartitionDist(part)[Size] - 1
       /\ \A i \in 0 .. PartitionDist(part)[Size] - 1 : \E d \in 0 .. n - 1 : NewLabel(part, d) = i
  BY <1>11, PartitionLabels
<1>18. ASSUME NEW r \in Ranks, NEW id \in DOMAIN N[r]
       PROVE  /\ M[r][id] \in NodeLabels /\ M[r][id].dof = NewLabel(part, N[r][id].dof)
              /\ M[r][id].rdof = N[r][id].rdof /\ M[r][id].rindex = N[r][id].rindex
              /\ N[r][id].dof \in 0 .. n - 1
  <2>0. N[r][id].dof \in 0 .. n - 1
    BY <1>15
  <2>1. PICK v \in Int : v = NewLabel(part, N[r][id].dof)
    <3>1. NewLabel(part, N[r][id].dof) \in 0 .. PartitionDist(part)[Size] - 1
      BY <1>17, <2>0
    <3> QED BY <3>1
  <2>2. N[r][id] \in NodeLabels /\ M[r][id] = [N[r][id] EXCEPT !.dof = v] /\ N[r][id].dof \in 0 .. n - 1
    BY <1>15, <2>1
  <2> QED BY <2>1, <2>2 DEF NodeLabels
<1>19. SameDofs(M)
  BY <1>8, <1>16, <1>18 DEF SameDofs
<1>20. DofsNumbered(M)'
  <2>1. PICK dist : dist = PartitionDist(part) /\ dofDist' = dist
    BY <1>10
  <2>2. ASSUME NEW i \in 0 .. dist[Size] - 1
        PROVE  \E r \in Ranks : \E id \in DOMAIN M[r] : M[r][id].dof = i
    <3>1. PICK d \in 0 .. n - 1 : NewLabel(part, d) = i
      BY <1>17, <2>1
    <3>2. PICK r \in Ranks : \E id \in DOMAIN N[r] : N[r][id].dof = d
      BY <1>8, <1>9 DEF DofsNumbered
    <3>3. PICK id \in DOMAIN N[r] : N[r][id].dof = d
      BY <3>2
    <3> QED BY <1>16, <1>18, <3>1, <3>3
  <2>3. \A r \in Ranks : \A id \in DOMAIN M[r] : M[r][id].dof \in 0 .. dist[Size] - 1
    BY <1>16, <1>17, <1>18, <2>1
  <2> QED BY <1>17, <2>1, <2>2, <2>3 DEF DofsNumbered, DistTyped, Ordered
<1>21. Known(2, M)'
  BY <1>2, <1>7, <1>16, <1>18, <1>19, <1>20, PartitionKnown
<1>22. LevelAfter' = 2
  BY <1>1, <1>3 DEF LevelAfter
<1> QED BY <1>3, <1>5, <1>6, <1>13, <1>14, <1>21, <1>22 DEF MeshInv

\* Relabelling the degrees of freedom within their blocks
LEMMA PermutedKnown ==
  ASSUME NEW N, Known(4, N), UNCHANGED <<elements, dofDist>>,
         NEW M, DOMAIN M = Ranks, \A r \in Ranks : DOMAIN M[r] = DOMAIN N[r],
         \A r \in Ranks : \A id \in DOMAIN N[r] :
           /\ N[r][id].dof \in Int /\ M[r][id] \in NodeLabels
           /\ M[r][id].rdof = N[r][id].rdof /\ M[r][id].rindex = N[r][id].rindex
           /\ \E b \in Ranks : InBlock(N[r][id].dof, dofDist, b) /\ InBlock(M[r][id].dof, dofDist, b),
         SameDofs(M),
         \A d \in 0 .. dofDist[Size] - 1 : \E r \in Ranks : \E id \in DOMAIN M[r] : M[r][id].dof = d
  PROVE  Known(4, M)'
<1>1. /\ Kept /\ InUse # {} /\ (\A r \in Ranks : DOMAIN N[r] = UsedNodes(r))
      /\ DofsNumbered(N) /\ Gathered(N) /\ ReducedLabelled(4, N)
  BY DEF Known
<1>2. dofDist \in [0 .. Size -> Int] /\ Ordered(dofDist) /\ dofDist[0] = 0
  BY <1>1 DEF DofsNumbered, DistTyped
<1>3. ASSUME NEW r \in Ranks, NEW id \in DOMAIN M[r] PROVE M[r][id].dof \in 0 .. dofDist[Size] - 1
  <2>1. PICK v \in Int : v = M[r][id].dof
    BY DEF NodeLabels
  <2>2. PICK b \in Ranks : InBlock(v, dofDist, b)
    BY <2>1
  <2>3. b \in 0 .. Size /\ b + 1 \in 0 .. Size /\ 0 \in 0 .. Size /\ Size \in 0 .. Size
          /\ 0 <= b /\ b + 1 <= Size
    BY RanksFacts
  <2>4. /\ dofDist[0] <= dofDist[b] /\ dofDist[b + 1] <= dofDist[Size]
        /\ dofDist[b] \in Int /\ dofDist[b + 1] \in Int /\ dofDist[Size] \in Int
    BY <1>2, <2>3 DEF Ordered
  <2> QED BY <1>2, <2>1, <2>2, <2>4 DEF InBlock
<1>4. DofsNumbered(M)
  BY <1>1, <1>3 DEF DofsNumbered
<1>5. Gathered(M)
  <2>1. ASSUME NEW r \in Ranks, NEW q \in Ranks, NEW b \in Ranks, NEW e \in elements[r],
               NEW id \in e.nodes \cap DOMAIN M[q], InBlock(M[q][id].dof, dofDist, b)
        PROVE  \E f \in elements[b] : Alike(e, f)
    <3>1. id \in DOMAIN N[q]
      OBVIOUS
    <3>2. PICK v \in Int : v = M[q][id].dof
      BY <3>1 DEF NodeLabels
    <3>3. PICK c \in Ranks : InBlock(N[q][id].dof, dofDist, c) /\ InBlock(v, dofDist, c)
      BY <3>1, <3>2
    <3>4. c = b
      BY <1>2, <2>1, <3>2, <3>3, BlockUnique
    <3> QED BY <1>1, <3>1, <3>3, <3>4 DEF Gathered
  <2> QED BY <2>1 DEF Gathered
<1>6. ReducedLabelled(4, M)
  <2>1. \A r \in Ranks : \A id \in DOMAIN M[r] : M[r][id].rdof = Unset /\ M[r][id].rindex = Unset
    BY <1>1 DEF ReducedLabelled
  <2> QED BY <2>1 DEF ReducedLabelled, Unset
<1>7. Known(4, M)
  BY <1>1, <1>4, <1>5, <1>6 DEF Known
<1> QED BY <1>7, KnownStays

\* The bandwidth optimizer keeps every label in the block of its rank.
LEMMA DofLabelingStep ==
  ASSUME MeshInv, StartOptimizeDOFLabeling
  PROVE  MeshInv'
<1>1. /\ NodesTyped /\ ElementsTyped /\ RingShape /\ Known(Level, nodes) /\ ring.phase = "idle"
      /\ Job = "optimizeDOFLabeling"
  BY DEF MeshInv, StartOptimizeDOFLabeling
<1>2. UNCHANGED <<nodes, elements, program, dofDist>>
  BY DEF StartOptimizeDOFLabeling
<1>3. NodesTyped' /\ ElementsTyped' /\ Job' = Job /\ \E k \in 0 .. 13 : Where(k)'
  BY <1>2, MeshQuiet
<1>4. PICK N, M : N = nodes /\ M = FinalNodes'
  OBVIOUS
<1>5. Known(4, N)
  <2>1. Level = 4
    BY <1>1 DEF Level
  <2> QED BY <1>1, <1>4, <2>1
<1>6. /\ DofsNumbered(N) /\ SameDofs(N) /\ Ordered(dofDist) /\ dofDist \in [0 .. Size -> Int]
           /\ dofDist[0] = 0
  BY <1>5 DEF Known, DofsNumbered, DistTyped
<1>7. PICK order \in Orderings :
        ring' = [Idle EXCEPT !.phase = "collect", !.dist = dofDist,
                   !.buf = [r \in Ranks |-> [k \in 0 .. LongestDofBlock - 1 |->
                              IF dofDist[r] + k < dofDist[r + 1] THEN order[dofDist[r] + k] ELSE 0]]]
  BY DEF StartOptimizeDOFLabeling
<1>8. PICK B : B = [r \in Ranks |-> [k \in 0 .. LongestDofBlock - 1 |->
                      IF dofDist[r] + k < dofDist[r + 1] THEN order[dofDist[r] + k] ELSE 0]]
  OBVIOUS
<1>o. /\ \A d \in Dofs : order[d] \in Dofs /\ \E c \in Dofs : order[c] = d
      /\ \A d \in Dofs, p \in Ranks : InBlock(d, dofDist, p) => InBlock(order[d], dofDist, p)
  <2>1. CASE order = [d \in Dofs |-> d]
    BY <2>1
  <2>2. CASE /\ order \in [Dofs -> Dofs] /\ \A d \in Dofs : \E c \in Dofs : order[c] = d
             /\ \A d \in Dofs, p \in Ranks : InBlock(d, dofDist, p) => InBlock(order[d], dofDist, p)
    BY <2>2
  <2> QED BY <2>1, <2>2 DEF Orderings
<1>9. /\ DOMAIN ring' = {"phase", "p", "dist", "buf", "fresh"}
      /\ ring'.phase = "collect" /\ ring'.p = 0 /\ ring'.dist = dofDist /\ ring'.buf = B
      /\ DOMAIN B = Ranks
  <2>1. ring' = [Idle EXCEPT !.phase = "collect", !.dist = dofDist, !.buf = B]
    BY <1>7, <1>8
  <2> QED BY <1>8, <2>1 DEF Idle
<1>10. \A b \in Ranks : dofDist[b] \in Int /\ dofDist[b + 1] \in Int
  <2>1. \A b \in Ranks : b \in 0 .. Size /\ b + 1 \in 0 .. Size
    BY RanksFacts
  <2> QED BY <1>6, <2>1
<1>11. ASSUME NEW b \in Ranks, NEW k \in 0 .. dofDist[b + 1] - dofDist[b] - 1
       PROVE  B[b][k] = order[dofDist[b] + k]
  <2>1. k \in 0 .. LongestDofBlock - 1
    BY <1>6, <1>11, DofBlockRoom DEF DistTyped
  <2>2. dofDist[b] + k < dofDist[b + 1]
    BY <1>10
  <2> QED BY <1>8, <2>1, <2>2
<1>d. ASSUME NEW b \in Ranks, NEW d \in Int, InBlock(d, dofDist, b)
      PROVE  d \in Dofs /\ order[d] \in Dofs /\ order[d] \in Int /\ InBlock(order[d], dofDist, b)
  <2>1. b \in 0 .. Size /\ b + 1 \in 0 .. Size /\ 0 \in 0 .. Size /\ Size \in 0 .. Size
          /\ 0 <= b /\ b + 1 <= Size
    BY RanksFacts
  <2>2. /\ dofDist[0] <= dofDist[b] /\ dofDist[b + 1] <= dofDist[Size] /\ dofDist[Size] \in Int
        /\ dofDist[0] = 0 /\ dofDist[b] <= d /\ d < dofDist[b + 1]
    BY <1>6, <1>d, <2>1 DEF Ordered, InBlock
  <2>3. d \in Dofs
    BY <1>10, <2>2 DEF Dofs
  <2>4. order[d] \in Dofs /\ InBlock(order[d], dofDist, b)
    BY <1>o, <1>d, <2>3
  <2>5. \A c \in Dofs : c \in Int
    BY <2>2 DEF Dofs
  <2> QED BY <2>3, <2>4, <2>5
<1>12. RingShape' /\ RingTyped'
  <2>1. ASSUME NEW b \in Ranks, NEW k \in 0 .. ring'.dist[b + 1] - ring'.dist[b] - 1
        PROVE  ring'.buf[Holder(b)'][k] \in ring'.dist[b] .. ring'.dist[b + 1] - 1
    <3>1. Holder(b)' = b
      <4>1. b + 0 = b /\ b \in Int
        BY RanksFacts
      <4>2. b % Size = b
        BY <4>1, Modulo
      <4> QED BY <1>9, <4>1, <4>2 DEF Holder
    <3>2. PICK x \in Int, y \in Int : x = dofDist[b] /\ y = dofDist[b + 1]
      BY <1>10
    <3>3. k \in 0 .. y - x - 1
      BY <1>9, <2>1, <3>2
    <3>4. B[b][k] = order[x + k]
      BY <1>11, <3>2, <3>3
    <3>5. x + k \in Int /\ InBlock(x + k, dofDist, b)
      BY <3>2, <3>3 DEF InBlock
    <3>6. order[x + k] \in x .. y - 1
      <4>1. order[x + k] \in Int /\ x <= order[x + k] /\ order[x + k] < y
        BY <1>d, <3>2, <3>5 DEF InBlock
      <4> QED BY <4>1
    <3> QED BY <1>9, <3>1, <3>2, <3>4, <3>6
  <2>2. Permutes'
    BY <2>1 DEF Permutes
  <2> QED BY <1>1, <1>3, <1>6, <1>9, <2>2, RanksFacts DEF RingShape, RingTyped, Ordered, RingJobs
<1>13. ASSUME NEW r \in Ranks, NEW id \in DOMAIN N[r]
       PROVE  /\ N[r][id] \in NodeLabels
              /\ \E b \in Ranks : InBlock(N[r][id].dof, dofDist, b)
              /\ M[r][id] = [N[r][id] EXCEPT !.dof = order[N[r][id].dof]]
  <2>1. N[r][id] \in NodeLabels
    BY <1>1, <1>4 DEF NodesTyped
  <2>2. PICK d \in Int : d = N[r][id].dof
    BY <2>1 DEF NodeLabels
  <2>3. PICK b \in Ranks :
          /\ InBlock(d, dofDist, b)
          /\ d - dofDist[b] \in 0 .. dofDist[b + 1] - dofDist[b] - 1
          /\ M[r][id] = [N[r][id] EXCEPT !.dof = ring'.buf[b][d - dofDist[b]]]
    <3>1. ~ Relabels
      BY <1>1 DEF Relabels
    <3> QED BY <1>1, <1>2, <1>4, <1>9, <2>2, <3>1, DofRing
  <2>4. PICK x \in Int : x = dofDist[b]
    BY <1>10
  <2>5. PICK j \in Int : j = d - x /\ x + j = d
    BY <2>4
  <2>6. B[b][j] = order[d]
    BY <1>11, <2>3, <2>4, <2>5
  <2> QED BY <1>9, <2>1, <2>2, <2>3, <2>4, <2>5, <2>6
<1>14. DOMAIN M = Ranks /\ \A r \in Ranks : DOMAIN M[r] = DOMAIN N[r]
  BY <1>2, <1>4 DEF FinalNodes
<1>16. ASSUME NEW r \in Ranks, NEW id \in DOMAIN N[r]
       PROVE  /\ N[r][id].dof \in Int /\ M[r][id] \in NodeLabels
              /\ M[r][id].rdof = N[r][id].rdof /\ M[r][id].rindex = N[r][id].rindex
              /\ M[r][id].dof = order[N[r][id].dof]
              /\ \E b \in Ranks : InBlock(N[r][id].dof, dofDist, b) /\ InBlock(M[r][id].dof, dofDist, b)
  <2>1. N[r][id] \in NodeLabels /\ N[r][id].dof \in Int
    BY <1>13 DEF NodeLabels
  <2>2. PICK b \in Ranks : InBlock(N[r][id].dof, dofDist, b)
    BY <1>13
  <2>3. PICK v \in Int : v = order[N[r][id].dof] /\ InBlock(v, dofDist, b)
    BY <1>d, <2>1, <2>2
  <2>4. M[r][id] = [N[r][id] EXCEPT !.dof = v]
    BY <1>13, <2>3
  <2>5. /\ M[r][id] \in NodeLabels /\ M[r][id].dof = v
        /\ M[r][id].rdof = N[r][id].rdof /\ M[r][id].rindex = N[r][id].rindex
    BY <2>1, <2>4 DEF NodeLabels
  <2> QED BY <2>1, <2>2, <2>3, <2>5
<1>18. SameDofs(M)
  <2>1. ASSUME NEW r \in Ranks, NEW q \in Ranks, NEW id \in DOMAIN M[r] \cap DOMAIN M[q]
        PROVE  M[r][id].dof = M[q][id].dof
    <3>0. id \in DOMAIN N[r] /\ id \in DOMAIN N[q]
      BY <1>14
    <3>1. N[r][id].dof = N[q][id].dof
      BY <1>6, <3>0 DEF SameDofs
    <3> QED BY <1>16, <3>0, <3>1
  <2> QED BY <2>1 DEF SameDofs
<1>19. ASSUME NEW d \in 0 .. dofDist[Size] - 1 PROVE \E r \in Ranks : \E id \in DOMAIN M[r] : M[r][id].dof = d
  <2>1. PICK c \in Dofs : order[c] = d
    BY <1>o DEF Dofs
  <2>2. PICK r \in Ranks : \E id \in DOMAIN N[r] : N[r][id].dof = c
    BY <1>6, <2>1 DEF DofsNumbered, Dofs
  <2>3. PICK id \in DOMAIN N[r] : N[r][id].dof = c
    BY <2>2
  <2> QED BY <1>14, <1>16, <2>1, <2>3
<1>20. Known(4, M)'
  BY <1>2, <1>5, <1>14, <1>16, <1>18, <1>19, PermutedKnown
<1>21. LevelAfter' = 4
  BY <1>1, <1>3 DEF LevelAfter
<1> QED BY <1>3, <1>4, <1>9, <1>12, <1>20, <1>21 DEF MeshInv

-----------------------------------------------------------------------------
(* Handing out the elements                                                *)

\* What a rank sends is an element it owns, with its new owner.
LEMMA SentElements ==
  ASSUME ElementsTyped, DistributeElements, NEW p \in Ranks
  PROVE  /\ IsFiniteSet(elements'[p])
         /\ \A f \in elements'[p] : \E s \in Ranks : \E e \in elements[s] :
              e.owner = s /\ p \in Receivers(s, e) /\ f = [e EXCEPT !.owner = NewOwner(s, e)]
         /\ \A s \in Ranks : \A e \in elements[s] : e.owner = s /\ p \in Receivers(s, e) =>
              [e EXCEPT !.owner = NewOwner(s, e)] \in elements'[p]
<1> DEFINE kept(r) == {f \in elements[r] : f.owner = r /\ p \in Receivers(r, f)}
           sent == [r \in Ranks |-> {[e EXCEPT !.owner = NewOwner(r, e)] : e \in kept(r)}]
<1>1. elements'[p] = UNION {sent[r] : r \in Ranks}
  BY DEF DistributeElements
<1>2. ASSUME NEW r \in Ranks PROVE IsFiniteSet(sent[r])
  <2>1. kept(r) \subseteq elements[r] /\ IsFiniteSet(elements[r])
    BY DEF ElementsTyped
  <2>2. IsFiniteSet(kept(r))
    BY <2>1, FS_Subset
  <2> DEFINE new == [e \in kept(r) |-> [e EXCEPT !.owner = NewOwner(r, e)]]
  <2>3. sent[r] = {new[e] : e \in kept(r)}
    OBVIOUS
  <2>4. IsFiniteSet({new[e] : e \in kept(r)})
    <3> HIDE DEF new, kept
    <3> QED BY <2>2, FiniteRange
  <2> HIDE DEF sent
  <2> QED BY <2>3, <2>4
<1>3. IsFiniteSet(elements'[p])
  <2>1. IsFiniteSet(Ranks)
    BY RanksFacts
  <2> HIDE DEF sent
  <2>2. IsFiniteSet(UNION {sent[r] : r \in Ranks})
    BY <1>2, <2>1, FiniteUnion
  <2> QED BY <1>1, <2>2
<1>4. ASSUME NEW f \in elements'[p]
      PROVE  \E s \in Ranks : \E e \in elements[s] :
               e.owner = s /\ p \in Receivers(s, e) /\ f = [e EXCEPT !.owner = NewOwner(s, e)]
  <2>1. PICK s \in Ranks : f \in sent[s]
    BY <1>1
  <2> QED BY <2>1
<1>5. ASSUME NEW s \in Ranks, NEW e \in elements[s], e.owner = s, p \in Receivers(s, e)
      PROVE  [e EXCEPT !.owner = NewOwner(s, e)] \in elements'[p]
  <2>1. e \in kept(s)
    BY <1>5
  <2>2. [e EXCEPT !.owner = NewOwner(s, e)] \in sent[s]
    BY <2>1
  <2> HIDE DEF sent
  <2> QED BY <1>1, <2>2
<1> QED BY <1>3, <1>4, <1>5

\* It has the nodes it had.
LEMMA SentAlike ==
  ASSUME ElementsTyped, NEW s \in Ranks, NEW e \in elements[s], NEW o, NEW f, f = [e EXCEPT !.owner = o]
  PROVE  Alike(e, f) /\ f.owner = o /\ DOMAIN f = DOMAIN e
<1>1. {"nodes", "linear", "owner"} \subseteq DOMAIN e
  BY DEF ElementsTyped
<1> QED BY <1>1 DEF Alike

\* An element a rank receives is one that was there.
LEMMA ElementsStep ==
  ASSUME ElementsTyped, DistributeElements
  PROVE  ElementsTyped'
<1>1. ASSUME NEW p \in Ranks, NEW f \in elements'[p]
      PROVE  /\ {"nodes", "linear", "owner"} \subseteq DOMAIN f
             /\ IsFiniteSet(f.nodes) /\ f.nodes \subseteq Int /\ f.linear \subseteq f.nodes
  <2>1. PICK s \in Ranks : \E e \in elements[s] : f = [e EXCEPT !.owner = NewOwner(s, e)]
    BY SentElements
  <2>2. PICK e \in elements[s] : f = [e EXCEPT !.owner = NewOwner(s, e)]
    BY <2>1
  <2>3. Alike(e, f) /\ DOMAIN f = DOMAIN e
    BY <2>2, SentAlike
  <2> QED BY <2>3 DEF ElementsTyped, Alike
<1>2. \A p \in Ranks : IsFiniteSet(elements'[p])
  BY SentElements
<1> QED BY <1>1, <1>2 DEF ElementsTyped

\* A rank finds the owner of the degrees of freedom of its nodes.
LEMMA RankFound ==
  ASSUME NodesTyped, DofsNumbered(nodes), NEW r \in Ranks, NEW id \in DOMAIN nodes[r],
         NEW b \in Ranks, InBlock(nodes[r][id].dof, dofDist, b)
  PROVE  RankOfDOF(r, nodes[r][id].dof) = b
<1>1. PICK d \in Int : d = nodes[r][id].dof
  BY DEF NodesTyped, NodeLabels
<1>2. dofDist \in [0 .. Size -> Int] /\ Ordered(dofDist) /\ dofDist[0] = 0
  BY DEF DofsNumbered, DistTyped
<1>3. \A p \in Ranks : p \in 0 .. Size /\ p + 1 \in 0 .. Size /\ dofDist[p] \in Int
        /\ dofDist[p + 1] \in Int
  <2>1. \A p \in Ranks : p \in 0 .. Size /\ p + 1 \in 0 .. Size
    BY RanksFacts
  <2> QED BY <1>2, <2>1
<1>4. IsFiniteSet(Ranks) /\ Ranks \subseteq Int /\ 0 \in Ranks
  BY RanksFacts
<1> DEFINE dofs == {nodes[r][i].dof : i \in DOMAIN nodes[r]}
           P == {p \in Ranks : dofDist[p] <= Min(dofs)}
           from == Max(P)
           Q == {p \in Ranks : p >= from /\ d < dofDist[p + 1]}
<1>5. dofs \subseteq Int /\ d \in dofs /\ IsFiniteSet(dofs) /\ \A x \in dofs : 0 <= x
  <2>1. \A i \in DOMAIN nodes[r] : nodes[r][i].dof \in Int /\ 0 <= nodes[r][i].dof
    <3>1. \A i \in DOMAIN nodes[r] : nodes[r][i].dof \in 0 .. dofDist[Size] - 1
      BY DEF DofsNumbered
    <3> QED BY <3>1
  <2>2. IsFiniteSet(dofs)
    <3> DEFINE g == [i \in DOMAIN nodes[r] |-> nodes[r][i].dof]
    <3>1. dofs = {g[i] : i \in DOMAIN nodes[r]}
      OBVIOUS
    <3>2. IsFiniteSet(DOMAIN nodes[r])
      BY DEF NodesTyped
    <3> HIDE DEF g, dofs
    <3> QED BY <3>1, <3>2, FiniteRange
  <2> QED BY <1>1, <2>1, <2>2
<1> HIDE DEF dofs
<1>6. PICK m \in Int : m = Min(dofs) /\ 0 <= m /\ m <= d
  <2>1. Min(dofs) \in dofs /\ \A x \in dofs : Min(dofs) <= x
    BY <1>5, MinMax
  <2> QED BY <1>5, <2>1
<1>7. from \in Ranks /\ dofDist[from] <= m
  <2>1. P \subseteq Int /\ IsFiniteSet(P) /\ 0 \in P
    BY <1>2, <1>4, <1>6, FS_Subset
  <2> HIDE DEF P
  <2>2. from \in P
    BY <2>1, MinMax
  <2> QED BY <1>6, <2>2 DEF P
<1> HIDE DEF P, from
<1>8. from <= b
  <2>1. SUFFICES ASSUME b + 1 <= from PROVE FALSE
    <3>1. from \in Int /\ b \in Int
      BY <1>4, <1>7
    <3> QED BY <3>1
  <2>2. dofDist[b + 1] <= dofDist[from]
    BY <1>2, <1>3, <1>7, <2>1 DEF Ordered
  <2> QED BY <1>1, <1>3, <1>6, <1>7, <2>2 DEF InBlock
<1>9. b \in Q /\ \A p \in Q : b <= p
  <2>1. b \in Q
    <3>1. from \in Int /\ b \in Int
      BY <1>4, <1>7
    <3> QED BY <1>1, <1>8, <3>1 DEF InBlock
  <2>2. ASSUME NEW p \in Ranks, d < dofDist[p + 1], p + 1 <= b PROVE FALSE
    <3>1. dofDist[p + 1] <= dofDist[b]
      BY <1>2, <1>3, <2>2 DEF Ordered
    <3> QED BY <1>1, <1>3, <2>2, <3>1 DEF InBlock
  <2>3. \A p \in Q : b <= p
    BY <1>4, <2>2
  <2> QED BY <2>1, <2>3
<1>10. Min(Q) = b
  <2>1. Q \subseteq Int /\ IsFiniteSet(Q)
    BY <1>4, FS_Subset
  <2> HIDE DEF Q
  <2>2. Min(Q) \in Q /\ \A x \in Q : Min(Q) <= x
    BY <1>9, <2>1, MinMax
  <2>3. Min(Q) <= b /\ b <= Min(Q) /\ Min(Q) \in Int /\ b \in Int
    BY <1>9, <2>1, <2>2
  <2> QED BY <2>3
<1> QED BY <1>1, <1>10 DEF RankOfDOF, from, P, dofs

\* An element goes to the ranks that own a node of it, and its new owner is
\* one of them.
LEMMA ReceiversFacts ==
  ASSUME NodesTyped, ElementsTyped, Known(2, nodes), NEW s \in Ranks, NEW e \in elements[s]
  PROVE  /\ \A p \in Ranks : p \in Receivers(s, e) <=>
              \E id \in e.nodes : InBlock(nodes[s][id].dof, dofDist, p)
         /\ \A id \in e.nodes : /\ id \in DOMAIN nodes[s]
                                /\ \E b \in Ranks : InBlock(nodes[s][id].dof, dofDist, b)
         /\ e.nodes # {} => NewOwner(s, e) \in Receivers(s, e)
<1>1. DofsNumbered(nodes) /\ IsFiniteSet(e.nodes)
  BY DEF Known, ElementsTyped
<1>2. ASSUME NEW id \in e.nodes
      PROVE  /\ id \in DOMAIN nodes[s]
             /\ \E b \in Ranks : /\ InBlock(nodes[s][id].dof, dofDist, b)
                                 /\ RankOfDOF(s, nodes[s][id].dof) = b
  <2>1. id \in DOMAIN nodes[s]
    BY DEF Known, UsedNodes
  <2>2. PICK d \in Int : d = nodes[s][id].dof
    BY <2>1 DEF NodesTyped, NodeLabels
  <2>3. dofDist \in [0 .. Size -> Int] /\ d \in 0 .. dofDist[Size] - 1 /\ dofDist[0] = 0
    BY <1>1, <2>1, <2>2 DEF DofsNumbered, DistTyped
  <2>4. Size \in 0 .. Size
    BY RanksFacts
  <2>5. dofDist[0] <= d /\ d < dofDist[Size]
    BY <2>3, <2>4
  <2>6. PICK b \in Ranks : InBlock(d, dofDist, b)
    BY <2>3, <2>5, BlockExists
  <2>7. RankOfDOF(s, nodes[s][id].dof) = b
    BY <1>1, <2>1, <2>2, <2>6, RankFound
  <2> QED BY <2>1, <2>2, <2>6, <2>7
<1>3. \A p \in Ranks : \A id \in e.nodes :
        RankOfDOF(s, nodes[s][id].dof) = p <=> InBlock(nodes[s][id].dof, dofDist, p)
  BY <1>1, <1>2, RankFound
<1> DEFINE on(p) == {id \in e.nodes : RankOfDOF(s, nodes[s][id].dof) = p}
<1>4. ASSUME NEW p PROVE NodesOn(s, e, p) \in Nat /\ (NodesOn(s, e, p) > 0 <=> on(p) # {})
  <2>1. NodesOn(s, e, p) = Cardinality(on(p))
    BY DEF NodesOn
  <2>2. IsFiniteSet(on(p))
    BY <1>1, FS_Subset
  <2> HIDE DEF on
  <2>3. Cardinality(on(p)) \in Nat /\ (Cardinality(on(p)) = 0 <=> on(p) = {})
    BY <2>2, FS_CardinalityType, FS_EmptySet
  <2> QED BY <2>1, <2>3
<1>5. \A p \in Ranks : p \in Receivers(s, e)
        <=> \E id \in e.nodes : InBlock(nodes[s][id].dof, dofDist, p)
  BY <1>3, <1>4 DEF Receivers
<1>6. ASSUME e.nodes # {} PROVE NewOwner(s, e) \in Receivers(s, e)
  <2>1. PICK c \in Ranks : NodesOn(s, e, c) > 0
    BY <1>2, <1>4, <1>6
  <2> DEFINE count == [p \in Ranks |-> NodesOn(s, e, p)]
             counts == {count[p] : p \in Ranks}
             most == {p \in Ranks : \A q \in Ranks : NodesOn(s, e, q) <= NodesOn(s, e, p)}
  <2>2. count \in [Ranks -> Nat] /\ \A p \in Ranks : count[p] = NodesOn(s, e, p)
    BY <1>4
  <2> HIDE DEF count
  <2>3. IsFiniteSet(counts)
    BY RanksFacts, FiniteRange
  <2>4. counts \subseteq Int /\ counts # {}
    BY <2>1, <2>2
  <2>5. PICK m \in counts : \A x \in counts : x <= m
    <3> HIDE DEF counts
    <3> QED BY <2>3, <2>4, MinMax
  <2>6. PICK p \in Ranks : m = count[p]
    OBVIOUS
  <2>7. p \in most
    BY <2>2, <2>5, <2>6
  <2>8. most \subseteq Int /\ IsFiniteSet(most)
    <3>1. most \in SUBSET Ranks /\ Ranks \subseteq Int /\ IsFiniteSet(Ranks)
      BY RanksFacts
    <3> HIDE DEF most
    <3> QED BY <3>1, FS_Subset
  <2>9. Min(most) \in most
    <3> HIDE DEF most
    <3> QED BY <2>7, <2>8, MinMax
  <2>10. NodesOn(s, e, Min(most)) > 0
    <3>1. PICK o \in Ranks : o = Min(most) /\ NodesOn(s, e, c) <= NodesOn(s, e, o)
      BY <2>9
    <3>2. NodesOn(s, e, o) \in Nat /\ NodesOn(s, e, c) \in Nat
      BY <1>4
    <3> QED BY <2>1, <3>1, <3>2
  <2> QED BY <2>9, <2>10 DEF NewOwner, Receivers
<1> QED BY <1>2, <1>5, <1>6

\* A node goes to its owner in every element of it that some rank counts as
\* its own.
LEMMA OwnerReceives ==
  ASSUME NodesTyped, ElementsTyped, Known(2, nodes), DistributeElements,
         NEW s \in Ranks, NEW e \in elements[s], e.owner = s, NEW id \in e.nodes,
         NEW b \in Ranks, InBlock(nodes[s][id].dof, dofDist, b)
  PROVE  \E f \in elements'[b] : Alike(e, f)
<1>1. b \in Receivers(s, e)
  BY ReceiversFacts
<1>2. [e EXCEPT !.owner = NewOwner(s, e)] \in elements'[b]
  BY <1>1, SentElements
<1>3. Alike(e, [e EXCEPT !.owner = NewOwner(s, e)])
  BY SentAlike
<1> QED BY <1>2, <1>3

\* Handing out the elements loses none of those with nodes, and leaves the
\* owner of a node with every element of it.
LEMMA DistributeKnown ==
  ASSUME NodesTyped, ElementsTyped, Known(2, nodes), DistributeElements
  PROVE  Kept' /\ InUse' = InUse /\ Gathered(nodes)'
<1>1. /\ Kept /\ SameDofs(nodes) /\ \A r \in Ranks : DOMAIN nodes[r] = UsedNodes(r)
      /\ UNCHANGED <<nodes, dofDist>>
  BY DEF Known, DistributeElements
<1>2. ASSUME NEW p \in Ranks, NEW f \in elements'[p]
      PROVE  \E s \in Ranks : \E e \in elements[s] :
               /\ e.owner = s /\ e.nodes # {} /\ f = [e EXCEPT !.owner = NewOwner(s, e)]
               /\ Alike(e, f)
  <2>1. PICK s \in Ranks : \E e \in elements[s] :
          e.owner = s /\ p \in Receivers(s, e) /\ f = [e EXCEPT !.owner = NewOwner(s, e)]
    BY SentElements
  <2>2. PICK e \in elements[s] :
          e.owner = s /\ p \in Receivers(s, e) /\ f = [e EXCEPT !.owner = NewOwner(s, e)]
    BY <2>1
  <2>3. e.nodes # {}
    BY <2>2, ReceiversFacts
  <2>4. Alike(e, f)
    BY <2>2, SentAlike
  <2> QED BY <2>2, <2>3, <2>4
<1>3. Kept'
  <2>1. ASSUME NEW p \in Ranks, NEW f \in elements'[p]
        PROVE  \E q \in Ranks : \E g \in elements'[q] : g.owner = q /\ Alike(f, g)
    <3>1. PICK s \in Ranks : \E e \in elements[s] :
            e.owner = s /\ e.nodes # {} /\ f = [e EXCEPT !.owner = NewOwner(s, e)]
      BY <1>2
    <3>2. PICK e \in elements[s] : e.owner = s /\ e.nodes # {} /\ f = [e EXCEPT !.owner = NewOwner(s, e)]
      BY <3>1
    <3>3. PICK o : o = NewOwner(s, e)
      OBVIOUS
    <3>4. o \in Receivers(s, e)
      BY <3>2, <3>3, ReceiversFacts
    <3>5. o \in Ranks
      BY <3>4 DEF Receivers
    <3>6. f \in elements'[o]
      BY <3>2, <3>3, <3>4, <3>5, SentElements
    <3>7. f.owner = o
      BY <3>2, <3>3, SentAlike
    <3> QED BY <3>5, <3>6, <3>7 DEF Alike
  <2> QED BY <2>1 DEF Kept
<1>4. InUse' = InUse
  <2>1. ASSUME NEW id \in InUse PROVE id \in InUse'
    <3>1. PICK r \in Ranks : \E e \in elements[r] : id \in e.nodes
      BY DEF InUse, UsedNodes
    <3>2. PICK e \in elements[r] : id \in e.nodes
      BY <3>1
    <3>3. PICK s \in Ranks : \E f \in elements[s] : f.owner = s /\ Alike(e, f)
      BY <1>1 DEF Kept
    <3>4. PICK f \in elements[s] : f.owner = s /\ Alike(e, f)
      BY <3>3
    <3>5. id \in f.nodes
      BY <3>2, <3>4 DEF Alike
    <3>6. PICK b \in Ranks : InBlock(nodes[s][id].dof, dofDist, b)
      BY <3>5, ReceiversFacts
    <3>7. PICK g \in elements'[b] : Alike(f, g)
      BY <3>4, <3>5, <3>6, OwnerReceives
    <3> QED BY <3>5, <3>7 DEF InUse, UsedNodes, Alike
  <2>2. ASSUME NEW id \in InUse' PROVE id \in InUse
    <3>1. PICK p \in Ranks : \E f \in elements'[p] : id \in f.nodes
      BY DEF InUse, UsedNodes
    <3>2. PICK f \in elements'[p] : id \in f.nodes
      BY <3>1
    <3>3. PICK s \in Ranks : \E e \in elements[s] : Alike(e, f)
      BY <1>2
    <3>4. PICK e \in elements[s] : Alike(e, f)
      BY <3>3
    <3> QED BY <3>2, <3>4 DEF InUse, UsedNodes, Alike
  <2> QED BY <2>1, <2>2
<1>5. ASSUME NEW r \in Ranks, NEW q \in Ranks, NEW b \in Ranks, NEW f \in elements'[r],
             NEW id \in f.nodes, id \in DOMAIN nodes[q], InBlock(nodes[q][id].dof, dofDist, b)
      PROVE  \E g \in elements'[b] : Alike(f, g)
  <2>1. PICK s \in Ranks : \E e \in elements[s] : e.owner = s /\ Alike(e, f)
    BY <1>2
  <2>2. PICK e \in elements[s] : e.owner = s /\ Alike(e, f)
    BY <2>1
  <2>3. id \in e.nodes /\ id \in DOMAIN nodes[s]
    BY <2>2, ReceiversFacts DEF Alike
  <2>4. nodes[s][id].dof = nodes[q][id].dof
    BY <1>1, <1>5, <2>3 DEF SameDofs
  <2>5. InBlock(nodes[s][id].dof, dofDist, b)
    BY <1>5, <2>4
  <2>6. PICK g \in elements'[b] : Alike(e, g)
    BY <2>2, <2>3, <2>5, OwnerReceives
  <2> QED BY <2>2, <2>6 DEF Alike
<1>6. Gathered(nodes)'
  <2>1. \A q, b \in Ranks : \A id \in DOMAIN nodes[q] :
          InBlock(nodes'[q][id].dof, dofDist', b) <=> InBlock(nodes[q][id].dof, dofDist, b)
    BY <1>1
  <2> QED BY <1>1, <1>5 DEF Gathered
<1> QED BY <1>3, <1>4, <1>6

\* distributeByRankOfDOF
LEMMA DistributeStep ==
  ASSUME MeshInv, DistributeElements
  PROVE  MeshInv'
<1>1. Job = "distribute" /\ program' = Tail(program) /\ UNCHANGED <<nodes, ring, dofDist>>
  BY DEF DistributeElements
<1>2. NodesTyped /\ ElementsTyped /\ RingShape
  BY DEF MeshInv
<1>3. ring.phase = "idle"
  BY <1>1, <1>2 DEF RingShape, RingJobs, BlockJobs
<1>4. Known(2, nodes)
  BY <1>1, <1>3 DEF MeshInv, Level
<1>5. NodesTyped' /\ ElementsTyped' /\ RingShape' /\ ring'.phase = "idle"
  BY <1>1, <1>2, <1>3, ElementsStep DEF NodesTyped, RingShape
<1>6. PICK k \in 0 .. 13 : Where(k)
  BY DEF MeshInv
<1>7. dofDist # <<>>
  <2>1. 0 \in DOMAIN dofDist
    <3>1. dofDist \in [0 .. Size -> Int]
      BY <1>4 DEF Known, DofsNumbered, DistTyped
    <3> QED BY <3>1, RanksFacts
  <2>2. DOMAIN <<>> = {}
    OBVIOUS
  <2> QED BY <2>1, <2>2
<1>8. k + 1 \in 0 .. 13 /\ JobsDone(k + 1)' /\ Job' = "gather" /\ k # 0
  <2>1. program # <<>> /\ JobsDone(k)
    BY <1>1, <1>6 DEF Job, Where
  <2> QED BY <1>1, <2>1, JobFacts
<1>9. Where(k + 1)' /\ Level' = 3
  <2>1. k + 1 # 0
    BY <1>8
  <2> QED BY <1>1, <1>7, <1>8, <2>1 DEF Where, Level
<1>10. Known(Level, nodes)'
  <2>1. PICK N : N = nodes
    OBVIOUS
  <2>2. Kept' /\ InUse' = InUse /\ Gathered(N)'
    BY <1>1, <1>2, <1>4, <2>1, DistributeKnown
  <2>3. /\ \A r \in Ranks : \A id \in DOMAIN N[r] : N[r][id] \in NodeLabels
        /\ InUse # {} /\ Stored(N) = InUse /\ SameDofs(N) /\ DofsNumbered(N)
        /\ ReducedLabelled(2, N)
    BY <1>4, <2>1 DEF Known, Stored, InUse
  <2>4. DofsNumbered(N)' /\ SameDofs(N)' /\ Stored(N)' = Stored(N)
    BY <1>1, <2>3 DEF DofsNumbered, DistTyped, SameDofs, Stored
  <2>5. ReducedLabelled(3, N)'
    BY <2>3 DEF ReducedLabelled
  <2>6. Known(3, N)'
    BY <2>2, <2>3, <2>4, <2>5 DEF Known
  <2> QED BY <1>1, <1>9, <2>1, <2>6
<1> QED BY <1>5, <1>8, <1>9, <1>10 DEF MeshInv

-----------------------------------------------------------------------------
(* The mappings, and the whole labelling                                   *)

\* createNodeMappings changes no label and ends the program.
LEMMA MappingsStep ==
  ASSUME MeshInv, CreateNodeMappings
  PROVE  MeshInv'
<1>1. Job = "mappings" /\ program' = <<>> /\ UNCHANGED <<nodes, elements, ring, dofDist>>
  BY DEF CreateNodeMappings
<1>2. NodesTyped /\ ElementsTyped /\ RingShape
  BY DEF MeshInv
<1>3. ring.phase = "idle"
  BY <1>1, <1>2 DEF RingShape, RingJobs, BlockJobs
<1>4. Known(7, nodes)
  BY <1>1, <1>3 DEF MeshInv, Level
<1>5. Job' = "none"
  BY <1>1 DEF Job
<1>6. NodesTyped' /\ ElementsTyped' /\ RingShape' /\ ring'.phase = "idle"
  BY <1>1, <1>2, <1>3 DEF NodesTyped, ElementsTyped, RingShape
<1>7. Where(13)'
  <2>1. PICK optimize \in BOOLEAN : TRUE
    OBVIOUS
  <2>2. Remaining(optimize, 13) = <<>>
    <3>1. PICK n \in Int : n = Len(Program(optimize)) /\ n < 14
      BY ProgramFacts
    <3>2. SubSeq(Program(optimize), 14, n) = <<>>
      BY <3>1, SubSeqEmpty
    <3> QED BY <3>1, <3>2 DEF Remaining
  <2> QED BY <1>1, <1>5, <2>1, <2>2 DEF Where, JobsDone, Remaining
<1>8. Known(Level, nodes)'
  <2>1. PICK N : N = nodes
    OBVIOUS
  <2>2. Level' = 7
    BY <1>5 DEF Level
  <2>3. Known(7, N)'
    BY <1>1, <1>4, <2>1, KnownStays
  <2> QED BY <1>1, <2>1, <2>2, <2>3
<1> QED BY <1>6, <1>7, <1>8 DEF MeshInv

\* Before its first job all of the program is left.
LEMMA WholeProgram ==
  ASSUME NEW optimize \in BOOLEAN
  PROVE  Remaining(optimize, 0) = Program(optimize)
<1>1. PICK P \in Seq(JobNames) : P = Program(optimize)
  BY ProgramFacts
<1>2. PICK n \in Nat : n = Len(P)
  OBVIOUS
<1>3. \A i \in 1 .. n : P[i] \in JobNames
  BY <1>2, ElementOfSeq
<1>4. /\ SubSeq(P, 1, n) \in Seq(JobNames)
      /\ Len(SubSeq(P, 1, n)) = IF 1 <= n THEN n - 1 + 1 ELSE 0
      /\ \A i \in 1 .. n - 1 + 1 : SubSeq(P, 1, n)[i] = P[1 + i - 1]
  BY <1>3, SubSeqProperties
<1>5. Len(SubSeq(P, 1, n)) = n
  BY <1>4
<1>6. \A i \in 1 .. n : SubSeq(P, 1, n)[i] = P[i]
  <2>1. \A i \in 1 .. n : i \in 1 .. n - 1 + 1 /\ 1 + i - 1 = i
    OBVIOUS
  <2> QED BY <1>4, <2>1
<1>7. SubSeq(P, 1, n) = P
  <2>1. PICK R \in Seq(JobNames) : R = SubSeq(P, 1, n)
    BY <1>4
  <2>2. Len(R) = Len(P) /\ \A i \in 1 .. Len(R) : R[i] = P[i]
    BY <1>2, <1>5, <1>6, <2>1
  <2> QED BY <2>1, <2>2, SeqEqual
<1> QED BY <1>1, <1>2, <1>7 DEF Remaining

\* What a reader leaves satisfies the invariant of the mesh.
LEMMA MeshStart ==
  ASSUME MeshInit
  PROVE  MeshInv
<1>1. PICK mesh \in Meshes :
        /\ nodes = [r \in Ranks |-> [id \in DOMAIN mesh.nodes[r] |-> Unlabelled(mesh.nodes[r][id])]]
        /\ elements = mesh.elements
        /\ program = Program(mesh.optimize)
  BY DEF MeshInit
<1>2. IsMesh(mesh)
  BY MeshAssumption
<1>3. \A r \in Ranks : DOMAIN nodes[r] = DOMAIN mesh.nodes[r]
  BY <1>1
<1>4. ASSUME NEW r \in Ranks, NEW id \in DOMAIN nodes[r]
      PROVE  nodes[r][id] \in NodeLabels /\ nodes[r][id].rdof = Unset /\ nodes[r][id].rindex = Unset
  <2>1. PICK v \in Int : v = mesh.nodes[r][id]
    BY <1>2, <1>3 DEF IsMesh
  <2>2. nodes[r][id] = Unlabelled(v)
    BY <1>1, <1>3, <2>1
  <2>3. Unset \in Int
    BY DEF Unset
  <2> QED BY <2>2, <2>3 DEF Unlabelled, NodeLabels
<1>5. NodesTyped
  BY <1>2, <1>3, <1>4 DEF IsMesh, NodesTyped
<1>6. ElementsTyped
  <2> DEFINE ids == [q \in Ranks |-> DOMAIN mesh.nodes[q]]
             all == UNION {ids[q] : q \in Ranks}
  <2>1. IsFiniteSet(all) /\ all \subseteq Int
    <3>1. IsFiniteSet(Ranks) /\ \A q \in Ranks : IsFiniteSet(ids[q]) /\ ids[q] \subseteq Int
      BY <1>2, RanksFacts DEF IsMesh
    <3> HIDE DEF ids
    <3>2. IsFiniteSet(all)
      BY <3>1, FiniteUnion
    <3> QED BY <3>1, <3>2
  <2>2. all = UNION {DOMAIN mesh.nodes[q] : q \in Ranks}
    OBVIOUS
  <2>3. ASSUME NEW r \in Ranks, NEW e \in elements[r]
        PROVE  /\ {"nodes", "linear", "owner"} \subseteq DOMAIN e
               /\ IsFiniteSet(e.nodes) /\ e.nodes \subseteq Int /\ e.linear \subseteq e.nodes
    <3>1. {"nodes", "linear", "owner"} \subseteq DOMAIN e /\ e.nodes \subseteq all
            /\ e.linear \subseteq e.nodes
      BY <1>1, <1>2, <2>2 DEF IsMesh
    <3>2. IsFiniteSet(e.nodes) /\ e.nodes \subseteq Int
      BY <2>1, <3>1, FS_Subset
    <3> QED BY <3>1, <3>2
  <2>4. \A r \in Ranks : IsFiniteSet(elements[r])
    BY <1>1, <1>2 DEF IsMesh
  <2> QED BY <2>3, <2>4 DEF ElementsTyped
<1>7. ring.phase = "idle" /\ RingShape /\ dofDist = <<>>
  BY DEF MeshInit, Idle, RingShape
<1>8. JobsDone(0)
  <2>1. PICK optimize \in BOOLEAN : optimize = mesh.optimize
    BY <1>2 DEF IsMesh
  <2> QED BY <1>1, <2>1, WholeProgram DEF JobsDone
<1>9. Job = "gather" /\ Level = 0 /\ Where(0)
  <2>1. Job = "gather"
    BY <1>8, JobFacts
  <2> QED BY <1>7, <1>8, <2>1 DEF Level, Where
<1>10. Kept
  <2>1. \A r \in Ranks : \A e \in elements[r] : e.owner = r
    BY <1>1, <1>2 DEF IsMesh
  <2> QED BY <2>1 DEF Kept, Alike
<1>11. InUse # {} /\ InUse \subseteq Stored(nodes)
  <2>1. \E r \in Ranks : \E e \in elements[r] : e.nodes # {}
    BY <1>1, <1>2 DEF IsMesh
  <2>2. ASSUME NEW id \in InUse PROVE id \in Stored(nodes)
    <3>1. PICK r \in Ranks : \E e \in elements[r] : id \in e.nodes
      BY DEF InUse, UsedNodes
    <3>2. id \in UNION {DOMAIN mesh.nodes[q] : q \in Ranks}
      BY <1>1, <1>2, <3>1 DEF IsMesh
    <3>3. PICK q \in Ranks : id \in DOMAIN mesh.nodes[q]
      BY <3>2
    <3> QED BY <1>3, <3>3 DEF Stored
  <2> QED BY <2>1, <2>2 DEF InUse, UsedNodes
<1>12. Known(0, nodes)
  BY <1>4, <1>10, <1>11 DEF Known, ReducedLabelled
<1> QED BY <1>5, <1>6, <1>7, <1>9, <1>12 DEF MeshInv

\* Every step of the labelling keeps the invariant of the mesh.
LEMMA MeshStep ==
  ASSUME MeshInv, MeshNext
  PROVE  MeshInv'
BY StartRingStep, FillStep, NumberStep, NodeLabelingStep, DofDistributionStep, DofLabelingStep,
   CollectStep, DistributeStep, MappingsStep DEF MeshNext

\* So does a step that leaves the mesh alone.
LEMMA MeshUnchanged ==
  ASSUME MeshInv, UNCHANGED meshVars
  PROVE  MeshInv'
<1> USE DEF meshVars
<1>1. NodesTyped' /\ ElementsTyped' /\ (\E k \in 0 .. 13 : Where(k)') /\ Job' = Job
  BY MeshQuiet
<1>2. RingShape' /\ ring'.phase = ring.phase
  BY <1>1 DEF MeshInv, RingShape
<1>3. ring.phase # "idle" => RingTyped'
  BY <1>1 DEF MeshInv, RingTyped, Permutes, Holder
<1>4. ring.phase \in {"fill", "number"} => FillInv'
  <2>1. \A r, id : Key(r, id)' = Key(r, id) /\ Participants(r)' = Participants(r)
    BY MeshQuiet
  <2>2. HasRoom' = HasRoom
    BY DEF HasRoom
  <2>3. \A r : Visited(r)' = Visited(r) /\ BlockHeld(r)' = BlockHeld(r)
    BY DEF Visited, BlockHeld
  <2>4. \A r, k : Filled(r, k)' = Filled(r, k)
    <3>1. \A q, id, b, k : Fills(q, id, b, k)' = Fills(q, id, b, k)
      BY <2>1 DEF Fills
    <3>2. \A V, b, k : MarkedBy(V, b, k)' = MarkedBy(V, b, k)
      BY <3>1 DEF MarkedBy
    <3> QED BY <1>1, <2>3, <3>1, <3>2 DEF Filled, Holds
  <2> QED BY <1>1, <2>1, <2>2, <2>4 DEF MeshInv, FillInv
<1>5. ring.phase # "collect" => Known(Level, nodes)'
  BY KnownKept DEF MeshInv
<1>6. ring.phase = "collect" => Known(LevelAfter, FinalNodes)'
  <2>1. PICK l, N : l = LevelAfter /\ N = FinalNodes
    OBVIOUS
  <2>2. LevelAfter' = LevelAfter
    BY <1>1 DEF LevelAfter
  <2>3. FinalNodes' = FinalNodes
    BY DEF FinalNodes, Awaits, Participants, Relabels, ComesFrom, LabelToCome, LabelFrom, Labelled, Key,
       Holder, Job, ReducedNodes
  <2>4. ring.phase = "collect" => Known(l, N)
    BY <2>1 DEF MeshInv
  <2>5. ring.phase = "collect" => Known(l, N)'
    BY <2>4, KnownStays
  <2> QED BY <2>1, <2>2, <2>3, <2>5
<1> QED BY <1>1, <1>2, <1>3, <1>4, <1>5, <1>6 DEF MeshInv

-----------------------------------------------------------------------------
(* What the labels say when it ends                                        *)

\* Numbers from 0 on without a gap are dense.
LEMMA DenseInterval ==
  ASSUME NEW n \in Nat, NEW S, S = 0 .. n - 1
  PROVE  Dense(S)
<1>1. Cardinality(0 .. n - 1) = n
  BY FS_Interval
<1> QED BY <1>1 DEF Dense

\* The places in a set are dense.
LEMMA DensePlaces ==
  ASSUME NEW S \in SUBSET Int, IsFiniteSet(S), NEW T, \A t \in T : \E x \in S : t = Place(S, x),
         \A x \in S : Place(S, x) \in T
  PROVE  Dense(T)
<1>1. PICK n \in Nat : n = Cardinality(S)
  BY Places
<1>2. T = 0 .. n - 1
  <2>1. /\ \A x \in S : Place(S, x) \in 0 .. n - 1
        /\ \A i \in 0 .. n - 1 : \E x \in S : Place(S, x) = i
    BY <1>1, Places
  <2>2. ASSUME NEW t \in T PROVE t \in 0 .. n - 1
    BY <2>1
  <2>3. ASSUME NEW i \in 0 .. n - 1 PROVE i \in T
    BY <2>1
  <2> QED BY <2>2, <2>3
<1> QED BY <1>2, DenseInterval

\* The labels of the reduced nodes are finitely many numbers.
LEMMA ReducedFinite ==
  ASSUME NodesTyped, ElementsTyped, Known(7, nodes)
  PROVE  /\ ReducedDofs(nodes) \in SUBSET Int /\ IsFiniteSet(ReducedDofs(nodes))
         /\ ReducedIndices(nodes) \in SUBSET Int /\ IsFiniteSet(ReducedIndices(nodes))
         /\ \A r \in Ranks : ReducedNodes(r) \subseteq DOMAIN nodes[r]
<1>1. \A r \in Ranks : ReducedNodes(r) \subseteq DOMAIN nodes[r]
  <2>1. \A r \in Ranks : DOMAIN nodes[r] = UsedNodes(r)
    BY DEF Known
  <2> QED BY <2>1, UsedFacts
<1> DEFINE part == [r \in Ranks |-> ReducedNodes(r)]
           dofs == [r \in Ranks |-> [id \in DOMAIN nodes[r] |-> nodes[r][id].dof]]
           indices == [r \in Ranks |-> [id \in DOMAIN nodes[r] |-> nodes[r][id].index]]
<1>2. part \in [Ranks -> SUBSET Int] /\ \A r \in Ranks : part[r] = ReducedNodes(r)
        /\ part[r] \subseteq DOMAIN nodes[r]
  BY <1>1 DEF NodesTyped
<1>3. \A r \in Ranks : \A id \in ReducedNodes(r) :
        /\ dofs[r][id] = nodes[r][id].dof /\ dofs[r][id] \in Int
        /\ indices[r][id] = nodes[r][id].index /\ indices[r][id] \in Int
  BY <1>1 DEF NodesTyped, NodeLabels
<1> HIDE DEF part, dofs, indices
<1>4. ReducedDofs(nodes) = UNION {{dofs[r][id] : id \in part[r]} : r \in Ranks}
  <2>1. PICK g : g = [r \in Ranks |-> {nodes[r][id].dof : id \in ReducedNodes(r)}]
    OBVIOUS
  <2>2. \A r \in Ranks : g[r] = {nodes[r][id].dof : id \in ReducedNodes(r)}
          /\ g[r] = {dofs[r][id] : id \in part[r]}
    BY <1>2, <1>3, <2>1
  <2>3. ReducedDofs(nodes) = UNION {g[r] : r \in Ranks}
    BY <2>2 DEF ReducedDofs
  <2>4. UNION {{dofs[r][id] : id \in part[r]} : r \in Ranks} = UNION {g[r] : r \in Ranks}
    BY <2>2
  <2> QED BY <2>3, <2>4
<1>5. ReducedIndices(nodes) = UNION {{indices[r][id] : id \in part[r]} : r \in Ranks}
  <2>1. PICK g : g = [r \in Ranks |-> {nodes[r][id].index : id \in ReducedNodes(r)}]
    OBVIOUS
  <2>2. \A r \in Ranks : g[r] = {nodes[r][id].index : id \in ReducedNodes(r)}
          /\ g[r] = {indices[r][id] : id \in part[r]}
    BY <1>2, <1>3, <2>1
  <2>3. ReducedIndices(nodes) = UNION {g[r] : r \in Ranks}
    BY <2>2 DEF ReducedIndices
  <2>4. UNION {{indices[r][id] : id \in part[r]} : r \in Ranks} = UNION {g[r] : r \in Ranks}
    BY <2>2
  <2> QED BY <2>3, <2>4
<1>6. (\A r \in Ranks : \A id \in part[r] : dofs[r][id] \in Int /\ indices[r][id] \in Int)
      /\ \A r \in Ranks : part[r] \subseteq DOMAIN nodes[r]
  BY <1>2, <1>3
<1>7. ReducedDofs(nodes) \in SUBSET Int /\ IsFiniteSet(ReducedDofs(nodes))
  BY <1>2, <1>4, <1>6, LabelsFinite
<1>8. ReducedIndices(nodes) \in SUBSET Int /\ IsFiniteSet(ReducedIndices(nodes))
  BY <1>2, <1>5, <1>6, LabelsFinite
<1> QED BY <1>1, <1>7, <1>8

\* When a rank makes its mappings its reduced labels are the places of the
\* full ones among those of the reduced nodes.
LEMMA ReducedPlaces ==
  ASSUME NodesTyped, ElementsTyped, Known(7, nodes), NEW r \in Ranks, NEW id \in DOMAIN nodes[r]
  PROVE  /\ id \in ReducedNodes(r) =>
              /\ nodes[r][id].dof \in ReducedDofs(nodes) /\ nodes[r][id].index \in ReducedIndices(nodes)
              /\ nodes[r][id].rdof = Place(ReducedDofs(nodes), nodes[r][id].dof)
              /\ nodes[r][id].rindex = Place(ReducedIndices(nodes), nodes[r][id].index)
              /\ nodes[r][id].rdof \in Nat /\ nodes[r][id].rindex \in Nat
         /\ id \notin ReducedNodes(r) => nodes[r][id].rdof = Unset /\ nodes[r][id].rindex = Unset
<1>1. ReducedLabelled(7, nodes)
  BY DEF Known
<1>2. CASE id \notin ReducedNodes(r)
  BY <1>1, <1>2 DEF ReducedLabelled
<1>3. CASE id \in ReducedNodes(r)
  <2>1. /\ nodes[r][id].rdof = Place(ReducedDofs(nodes), nodes[r][id].dof)
        /\ nodes[r][id].rindex = Place(ReducedIndices(nodes), nodes[r][id].index)
    BY <1>1, <1>3 DEF ReducedLabelled
  <2>2. nodes[r][id].dof \in ReducedDofs(nodes) /\ nodes[r][id].index \in ReducedIndices(nodes)
    BY <1>3 DEF ReducedDofs, ReducedIndices
  <2>3. /\ Place(ReducedDofs(nodes), nodes[r][id].dof) \in Nat
        /\ Place(ReducedIndices(nodes), nodes[r][id].index) \in Nat
    <3>1. PICK D, I : D = ReducedDofs(nodes) /\ I = ReducedIndices(nodes)
      OBVIOUS
    <3>2. D \in SUBSET Int /\ IsFiniteSet(D) /\ I \in SUBSET Int /\ IsFiniteSet(I)
      BY <3>1, ReducedFinite
    <3>3. \A x \in D : Place(D, x) \in Nat
      BY <3>2, Places
    <3>4. \A x \in I : Place(I, x) \in Nat
      BY <3>2, Places
    <3> QED BY <2>2, <3>1, <3>3, <3>4
  <2> QED BY <1>3, <2>1, <2>2, <2>3
<1> QED BY <1>2, <1>3

\* A rank counts the reduced degrees of freedom of its block, all of them.
LEMMA OwnReduced ==
  ASSUME NodesTyped, ElementsTyped, Known(7, nodes), NEW q \in Ranks, NEW k \in Int
  PROVE  k \in ReducedOwn(q) <=> k \in ReducedDofs(nodes) /\ InBlock(k, dofDist, q)
<1>1. SameDofs(nodes) /\ Gathered(nodes) /\ (\A r \in Ranks : DOMAIN nodes[r] = UsedNodes(r))
        /\ DofsNumbered(nodes)
  BY DEF Known
<1>2. dofDist[q] \in Int /\ dofDist[q + 1] \in Int
  <2>1. dofDist \in [0 .. Size -> Int]
    BY <1>1 DEF DofsNumbered, DistTyped
  <2>2. q \in 0 .. Size /\ q + 1 \in 0 .. Size
    BY RanksFacts
  <2> QED BY <2>1, <2>2
<1>3. k \in dofDist[q] .. dofDist[q + 1] - 1 <=> InBlock(k, dofDist, q)
  BY <1>2 DEF InBlock
<1>4. ASSUME k \in ReducedOwn(q) PROVE k \in ReducedDofs(nodes) /\ InBlock(k, dofDist, q)
  BY <1>3, <1>4 DEF ReducedOwn, ReducedDofs
<1>5. ASSUME k \in ReducedDofs(nodes), InBlock(k, dofDist, q) PROVE k \in ReducedOwn(q)
  <2>1. PICK r \in Ranks : \E id \in ReducedNodes(r) : k = nodes[r][id].dof
    BY <1>5 DEF ReducedDofs
  <2>2. PICK id \in ReducedNodes(r) : k = nodes[r][id].dof
    BY <2>1
  <2>3. PICK e \in elements[r] : id \in e.linear
    BY <2>2 DEF ReducedNodes
  <2>4. id \in e.nodes /\ id \in DOMAIN nodes[r]
    BY <1>1, <2>3 DEF ElementsTyped, UsedNodes
  <2>5. PICK f \in elements[q] : Alike(e, f)
    BY <1>1, <1>5, <2>2, <2>4 DEF Gathered
  <2>6. id \in ReducedNodes(q) /\ id \in DOMAIN nodes[q]
    BY <1>1, <2>3, <2>4, <2>5 DEF Alike, ReducedNodes, UsedNodes
  <2>7. nodes[q][id].dof = k
    BY <1>1, <2>2, <2>4, <2>6 DEF SameDofs
  <2> QED BY <1>3, <1>5, <2>6, <2>7 DEF ReducedOwn
<1> QED BY <1>4, <1>5

\* So the blocks of the reduced degrees of freedom are those of the full ones.
LEMMA ReducedBlocks ==
  ASSUME NodesTyped, ElementsTyped, Known(7, nodes), NEW q \in Ranks, NEW d \in ReducedDofs(nodes)
  PROVE  InBlock(d, dofDist, q) <=> InBlock(Place(ReducedDofs(nodes), d), ReducedDist, q)
<1>1. PICK S : S = ReducedDofs(nodes)
  OBVIOUS
<1>2. S \in SUBSET Int /\ IsFiniteSet(S) /\ \A r \in Ranks : ReducedNodes(r) \subseteq DOMAIN nodes[r]
  BY <1>1, ReducedFinite
<1>3. DofsNumbered(nodes)
  BY DEF Known
<1>4. dofDist \in [0 .. Size -> Int] /\ Ordered(dofDist) /\ dofDist[0] = 0
  BY <1>3 DEF DofsNumbered, DistTyped
<1>5. \A m \in S : dofDist[0] <= m
  <2>1. ASSUME NEW m \in S PROVE 0 <= m
    <3>1. PICK r \in Ranks : \E id \in ReducedNodes(r) : m = nodes[r][id].dof
      BY <1>1 DEF ReducedDofs
    <3>2. PICK id \in DOMAIN nodes[r] : m = nodes[r][id].dof
      BY <1>2, <3>1
    <3>3. m \in 0 .. dofDist[Size] - 1
      BY <1>3, <3>2 DEF DofsNumbered
    <3> QED BY <1>2, <3>3
  <2> QED BY <1>4, <2>1
<1>6. PICK own : own = [p \in Ranks |-> ReducedOwn(p)]
  OBVIOUS
<1>7. own \in [Ranks -> SUBSET Int] /\ \A p \in Ranks : own[p] = ReducedOwn(p)
  <2>1. ASSUME NEW p \in Ranks PROVE ReducedOwn(p) \subseteq Int
    BY DEF ReducedOwn
  <2> QED BY <1>6, <2>1
<1>8. PICK shift \in [Ranks -> Int] : \A p \in Ranks : shift[p] = 0
  <2>1. [p \in Ranks |-> 0] \in [Ranks -> Int]
    OBVIOUS
  <2> QED BY <2>1
<1>9. \A p \in Ranks : \A k \in Int :
        k \in own[p] <=> shift[p] + k \in S /\ InBlock(shift[p] + k, dofDist, p)
  <2>1. ASSUME NEW p \in Ranks, NEW k \in Int
        PROVE  k \in own[p] <=> shift[p] + k \in S /\ InBlock(shift[p] + k, dofDist, p)
    <3>1. shift[p] + k = k
      BY <1>8
    <3> QED BY <1>1, <1>7, <3>1, OwnReduced
  <2> QED BY <2>1
<1>10. \A p \in 0 .. Size : CountBefore(p, own) = Place(S, dofDist[p])
  BY <1>2, <1>4, <1>5, <1>7, <1>8, <1>9, CountPlaces
<1>11. q \in 0 .. Size /\ q + 1 \in 0 .. Size
  BY RanksFacts
<1>12. ReducedDist[q] = Place(S, dofDist[q]) /\ ReducedDist[q + 1] = Place(S, dofDist[q + 1])
  BY <1>6, <1>10, <1>11 DEF ReducedDist
<1>13. PICK lo \in Int, hi \in Int : lo = dofDist[q] /\ hi = dofDist[q + 1]
  BY <1>4, <1>11
<1>14. d \in S /\ d \in Int
  BY <1>1, <1>2
<1>15. (lo <= d <=> Place(S, lo) <= Place(S, d)) /\ (hi <= d <=> Place(S, hi) <= Place(S, d))
  BY <1>2, <1>13, <1>14, Places
<1>16. Place(S, lo) \in Int /\ Place(S, hi) \in Int /\ Place(S, d) \in Int
  <2>1. \A x \in Int : Place(S, x) \in Int
    BY <1>2, Places
  <2> QED BY <1>13, <1>14, <2>1
<1> QED BY <1>1, <1>12, <1>13, <1>14, <1>15, <1>16 DEF InBlock

\* When the ranks make their mappings, their labels agree.
LEMMA MeshAgrees ==
  ASSUME MeshInv
  PROVE  LabelsAgree
<1> SUFFICES ASSUME Job = "mappings" PROVE LabelsAgree
  BY DEF LabelsAgree
<1>1. NodesTyped /\ ElementsTyped /\ ring.phase = "idle"
  BY DEF MeshInv, RingShape, RingJobs, BlockJobs
<1>2. Known(7, nodes)
  BY <1>1 DEF MeshInv, Level
<1>3. SameDofs(nodes) /\ DofsNumbered(nodes) /\ NodesNumbered(nodes)
        /\ \A r \in Ranks : DOMAIN nodes[r] = UsedNodes(r)
  BY <1>2 DEF Known
<1>4. Dense(Everywhere(LAMBDA r, id : nodes[r][id].dof))
  <2>1. PICK n \in Nat : n = dofDist[Size]
    <3>1. dofDist \in [0 .. Size -> Int] /\ Ordered(dofDist) /\ dofDist[0] = 0
      BY <1>3 DEF DofsNumbered, DistTyped
    <3>2. 0 \in 0 .. Size /\ Size \in 0 .. Size /\ 0 <= Size
      BY RanksFacts
    <3> QED BY <3>1, <3>2 DEF Ordered
  <2>2. UNION {{nodes[r][id].dof : id \in DOMAIN nodes[r]} : r \in Ranks} = 0 .. n - 1
    BY <1>3, <2>1 DEF DofsNumbered
  <2>3. Dense(UNION {{nodes[r][id].dof : id \in DOMAIN nodes[r]} : r \in Ranks})
    BY <2>2, DenseInterval
  <2> QED BY <2>3 DEF Everywhere
<1>5. Dense(Everywhere(LAMBDA r, id : nodes[r][id].index))
  <2>1. Dense(UNION {{nodes[r][id].index : id \in DOMAIN nodes[r]} : r \in Ranks})
    BY <1>3 DEF NodesNumbered, Indices
  <2> QED BY <2>1 DEF Everywhere
<1>6. PICK D, I : D = ReducedDofs(nodes) /\ I = ReducedIndices(nodes)
  OBVIOUS
<1>7. /\ D \in SUBSET Int /\ IsFiniteSet(D) /\ I \in SUBSET Int /\ IsFiniteSet(I)
      /\ \A r \in Ranks : ReducedNodes(r) \subseteq DOMAIN nodes[r]
  BY <1>1, <1>2, <1>6, ReducedFinite
<1>8. \A r \in Ranks : \A id \in DOMAIN nodes[r] :
        /\ id \in ReducedNodes(r) => /\ nodes[r][id].dof \in D /\ nodes[r][id].index \in I
                                     /\ nodes[r][id].rdof = Place(D, nodes[r][id].dof)
                                     /\ nodes[r][id].rindex = Place(I, nodes[r][id].index)
                                     /\ nodes[r][id].rdof \in Nat /\ nodes[r][id].rindex \in Nat
        /\ id \notin ReducedNodes(r) => nodes[r][id].rdof = Unset /\ nodes[r][id].rindex = Unset
  BY <1>1, <1>2, <1>6, ReducedPlaces
<1>9. \A n \in Nat : n # Unset
  BY DEF Unset
<1>10. Dense(Everywhere(LAMBDA r, id : nodes[r][id].rdof) \ {Unset})
  <2> DEFINE T == (UNION {{nodes[r][id].rdof : id \in DOMAIN nodes[r]} : r \in Ranks}) \ {Unset}
  <2>1. ASSUME NEW t \in T PROVE \E x \in D : t = Place(D, x)
    <3>1. PICK r \in Ranks : \E id \in DOMAIN nodes[r] : t = nodes[r][id].rdof
      OBVIOUS
    <3>2. PICK id \in DOMAIN nodes[r] : t = nodes[r][id].rdof
      BY <3>1
    <3>3. t # Unset
      OBVIOUS
    <3> QED BY <1>8, <3>2, <3>3
  <2>2. ASSUME NEW x \in D PROVE Place(D, x) \in T
    <3>1. PICK r \in Ranks : \E id \in ReducedNodes(r) : x = nodes[r][id].dof
      BY <1>6 DEF ReducedDofs
    <3>2. PICK id \in ReducedNodes(r) : x = nodes[r][id].dof
      BY <3>1
    <3>3. id \in DOMAIN nodes[r] /\ nodes[r][id].rdof = Place(D, x) /\ Place(D, x) # Unset
      BY <1>7, <1>8, <1>9, <3>2
    <3> QED BY <3>3
  <2>3. Dense(T)
    <3> HIDE DEF T
    <3> QED BY <1>7, <2>1, <2>2, DensePlaces
  <2> QED BY <2>3 DEF Everywhere
<1>11. Dense(Everywhere(LAMBDA r, id : nodes[r][id].rindex) \ {Unset})
  <2> DEFINE T == (UNION {{nodes[r][id].rindex : id \in DOMAIN nodes[r]} : r \in Ranks}) \ {Unset}
  <2>1. ASSUME NEW t \in T PROVE \E x \in I : t = Place(I, x)
    <3>1. PICK r \in Ranks : \E id \in DOMAIN nodes[r] : t = nodes[r][id].rindex
      OBVIOUS
    <3>2. PICK id \in DOMAIN nodes[r] : t = nodes[r][id].rindex
      BY <3>1
    <3>3. t # Unset
      OBVIOUS
    <3> QED BY <1>8, <3>2, <3>3
  <2>2. ASSUME NEW x \in I PROVE Place(I, x) \in T
    <3>1. PICK r \in Ranks : \E id \in ReducedNodes(r) : x = nodes[r][id].index
      BY <1>6 DEF ReducedIndices
    <3>2. PICK id \in ReducedNodes(r) : x = nodes[r][id].index
      BY <3>1
    <3>3. id \in DOMAIN nodes[r] /\ nodes[r][id].rindex = Place(I, x) /\ Place(I, x) # Unset
      BY <1>7, <1>8, <1>9, <3>2
    <3> QED BY <3>3
  <2>3. Dense(T)
    <3> HIDE DEF T
    <3> QED BY <1>7, <2>1, <2>2, DensePlaces
  <2> QED BY <2>3 DEF Everywhere
<1>12. ASSUME NEW r \in Ranks, NEW q \in Ranks, NEW id \in DOMAIN nodes[r], NEW j \in DOMAIN nodes[q]
       PROVE  /\ (id = j) = (nodes[r][id].index = nodes[q][j].index)
              /\ id = j => nodes[r][id].dof = nodes[q][j].dof
              /\ id = j /\ id \in ReducedNodes(r) \cap ReducedNodes(q) => nodes[r][id] = nodes[q][j]
  <2>1. (id = j) = (nodes[r][id].index = nodes[q][j].index)
    BY <1>3 DEF NodesNumbered
  <2>2. id = j => nodes[r][id].dof = nodes[q][j].dof
    BY <1>3 DEF SameDofs
  <2>3. ASSUME id = j, id \in ReducedNodes(r) \cap ReducedNodes(q) PROVE nodes[r][id] = nodes[q][j]
    <3>1. PICK a \in NodeLabels, c \in NodeLabels : a = nodes[r][id] /\ c = nodes[q][j]
      BY <1>1 DEF NodesTyped
    <3>2. a.dof = c.dof /\ a.index = c.index
      BY <2>1, <2>2, <2>3, <3>1
    <3>3. a.rdof = Place(D, a.dof) /\ a.rindex = Place(I, a.index)
      BY <1>8, <2>3, <3>1
    <3>4. c.rdof = Place(D, c.dof) /\ c.rindex = Place(I, c.index)
      BY <1>8, <2>3, <3>1
    <3>5. a.rdof = c.rdof /\ a.rindex = c.rindex
      BY <3>2, <3>3, <3>4
    <3>6. a = c
      BY <3>2, <3>5 DEF NodeLabels
    <3> QED BY <3>1, <3>6
  <2> QED BY <2>1, <2>2, <2>3
<1>13. \A r \in Ranks : \A id \in DOMAIN nodes[r] :
         /\ id \in ReducedNodes(r) <=> nodes[r][id].rdof # Unset
         /\ id \in ReducedNodes(r) <=> nodes[r][id].rindex # Unset
  BY <1>8, <1>9
<1>14. ASSUME NEW r \in Ranks, NEW q \in Ranks, NEW id \in ReducedNodes(r)
       PROVE  InBlock(nodes[r][id].dof, dofDist, q) <=> InBlock(nodes[r][id].rdof, ReducedDist, q)
  <2>1. PICK d \in D : d = nodes[r][id].dof /\ nodes[r][id].rdof = Place(D, d)
    BY <1>7, <1>8
  <2>2. InBlock(d, dofDist, q) <=> InBlock(Place(D, d), ReducedDist, q)
    BY <1>1, <1>2, <1>6, ReducedBlocks
  <2> QED BY <2>1, <2>2
<1> QED BY <1>4, <1>5, <1>10, <1>11, <1>12, <1>13, <1>14 DEF LabelsAgree

\* On every mesh and any number of ranks, the labelling keeps its invariant:
\* each job of resolveNodeIds and prepare finds what it depends on, a ring that
\* collects the labels it will leave (FinleyDomain.cpp, NodeFile.cpp).
THEOREM MeshInvariance == MeshInit /\ [][MeshNext]_meshVars => []MeshInv
<1>1. MeshInit => MeshInv
  BY MeshStart
<1>2. MeshInv /\ [MeshNext]_meshVars => MeshInv'
  BY MeshStep, MeshUnchanged
<1> QED BY <1>1, <1>2, PTL
=============================================================================
