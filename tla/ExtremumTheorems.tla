--------------------------- MODULE ExtremumTheorems ---------------------------
(***************************************************************************)
(* What the proofs of the components need of Max of FiniteSetsExt and of   *)
(* finite sets put in order: a set of integers that is not empty and is    *)
(* bounded above has its maximum as an element (MaxOfBounded); a finite    *)
(* set whose elements have distinct ranks can be listed by rank            *)
(* (RankedOrderExists), and such a list has every element (ListReachesAll).*)
(* What holds at first and is kept by each step holds after all of them    *)
(* (StepByStep), and a function defined step by step exists                *)
(* (IterationExists).                                                      *)
(***************************************************************************)
EXTENDS Integers, FiniteSetsExt, FiniteSetTheorems, WellFoundedInduction, TLAPS

(* Every set of naturals that is not empty has a least element. *)
LEMMA LeastExists ==
  ASSUME NEW T \in SUBSET Nat, T # {}
  PROVE  \E m \in T : \A y \in T : m <= y
<1> DEFINE Below == {0..x : x \in T}
           Less == StrictSubsetOrdering(Nat)
<1>1. \A x \in T : 0..x \in FiniteSubsetsOf(Nat)
  <2>1. SUFFICES ASSUME NEW x \in T PROVE 0..x \in FiniteSubsetsOf(Nat)
    OBVIOUS
  <2>2. IsFiniteSet(0..x)
    BY FS_Interval
  <2>. QED
    BY <2>2 DEF FiniteSubsetsOf
<1>2. Below \subseteq FiniteSubsetsOf(Nat) /\ Below # {}
  BY <1>1
<1>3. PICK b \in Below : \A c \in Below : <<c, b>> \notin Less
  <2>1. IsWellFoundedOn(Less, FiniteSubsetsOf(Nat))
    BY FS_StrictSubsetOrderingWellFounded
  <2>. HIDE DEF Less, Below
  <2>. QED
    BY <1>2, <2>1, WFMin
<1>4. PICK m \in T : b = 0..m
  BY <1>3
<1>5. \A y \in T : m <= y
  <2>1. SUFFICES ASSUME NEW y \in T, y < m PROVE FALSE
    OBVIOUS
  <2>2. 0..y \subseteq 0..m /\ 0..y # 0..m
    BY <2>1
  <2>3. <<0..y, 0..m>> \in Less
    BY <2>2 DEF StrictSubsetOrdering
  <2>. QED
    BY <1>3, <1>4, <2>3
<1>. QED
  BY <1>5

(* The maximum of a bounded set of integers is one of them. *)
LEMMA MaxOfBounded ==
  ASSUME NEW T \in SUBSET Int, T # {}, NEW bound \in Int, \A x \in T : x <= bound
  PROVE  Max(T) \in T /\ \A y \in T : Max(T) >= y
<1> DEFINE U == {bound - x : x \in T}
<1>1. U \in SUBSET Nat /\ U # {}
  <2>1. \A x \in T : bound - x \in Nat
    OBVIOUS
  <2>. QED
    BY <2>1
<1>2. PICK m \in U : \A y \in U : m <= y
  BY <1>1, LeastExists
<1>3. PICK x \in T : m = bound - x
  BY <1>2
<1>4. \A y \in T : x >= y
  BY <1>2, <1>3
<1>. QED
  BY <1>3, <1>4 DEF Max

(* The maximum of some of the numbers 1..n. *)
LEMMA MaxOfIndices ==
  ASSUME NEW n \in Nat, NEW T \in SUBSET (1..n), T # {}
  PROVE  Max(T) \in T /\ \A y \in T : Max(T) >= y
<1>1. T \in SUBSET Int /\ \A x \in T : x <= n
  OBVIOUS
<1>2. n \in Int /\ T # {}
  OBVIOUS
<1>. QED
  BY ONLY <1>1, <1>2, MaxOfBounded, Zenon

(* The elements of a finite set can be listed by any rank that tells them apart: the set *)
(* without its least element is no smaller counterexample.                                *)
LEMMA RankedOrderExists ==
  ASSUME NEW T, IsFiniteSet(T), NEW rank, \A t \in T : rank[t] \in Nat,
         \A a, b \in T : rank[a] = rank[b] => a = b
  PROVE  \E s \in [1..Cardinality(T) -> T] :
           \A i, j \in 1..Cardinality(T) : i < j => rank[s[i]] < rank[s[j]]
<1> DEFINE Ordered(U) == \E s \in [1..Cardinality(U) -> U] :
             \A i, j \in 1..Cardinality(U) : i < j => rank[s[i]] < rank[s[j]]
           Bad == {U \in SUBSET T : ~Ordered(U)}
           Sizes == {Cardinality(U) : U \in Bad}
<1>1. SUFFICES ASSUME Bad # {} PROVE FALSE
  <2>1. T \in SUBSET T
    OBVIOUS
  <2>. QED
    BY <2>1
<1>2. \A U \in SUBSET T : IsFiniteSet(U) /\ Cardinality(U) \in Nat
  BY FS_Subset, FS_CardinalityType
<1>3. Sizes \in SUBSET Nat /\ Sizes # {}
  BY <1>1, <1>2
<1>4. PICK m \in Sizes : \A y \in Sizes : m <= y
  BY ONLY <1>3, LeastExists, Zenon
<1>5. PICK U \in Bad : m = Cardinality(U)
  BY <1>4
<1>6. U \in SUBSET T /\ ~Ordered(U) /\ IsFiniteSet(U) /\ m \in Nat
  BY <1>2, <1>5
<1>7. U # {}
  <2>1. SUFFICES ASSUME U = {} PROVE FALSE
    OBVIOUS
  <2>2. Cardinality(U) = 0
    BY <2>1, FS_EmptySet
  <2>3. [i \in 1..0 |-> i] \in [1..Cardinality(U) -> U]
    BY <2>2
  <2>4. \A i, j \in 1..Cardinality(U) : FALSE
    BY <2>2
  <2>. QED
    BY <1>6, <2>3, <2>4
<1> DEFINE Ranks == {rank[u] : u \in U}
<1>8. Ranks \in SUBSET Nat /\ Ranks # {}
  BY <1>6, <1>7
<1>9. PICK least \in Ranks : \A y \in Ranks : least <= y
  BY ONLY <1>8, LeastExists, Zenon
<1>10. PICK u0 \in U : rank[u0] = least
  BY <1>9
<1>11. \A u \in U : rank[u0] <= rank[u]
  BY <1>9, <1>10
<1> DEFINE V == U \ {u0}
<1>12. IsFiniteSet(V) /\ Cardinality(V) = m - 1 /\ m - 1 \in Nat
  <2>1. Cardinality(V) = Cardinality(U) - 1
    BY <1>6, <1>10, FS_RemoveElement
  <2>. QED
    BY <1>2, <1>5, <1>6, <2>1
<1>13. V \notin Bad
  <2>1. SUFFICES ASSUME V \in Bad PROVE FALSE
    OBVIOUS
  <2>2. Cardinality(V) \in Sizes
    BY <2>1
  <2>3. m <= Cardinality(V)
    BY ONLY <1>4, <2>2
  <2>. QED
    BY ONLY <1>6, <1>12, <2>3
<1>14. PICK s \in [1..(m - 1) -> V] : \A i, j \in 1..(m - 1) : i < j => rank[s[i]] < rank[s[j]]
  <2>1. V \in SUBSET T
    BY <1>6
  <2>2. Ordered(V)
    BY <1>13, <2>1
  <2>. QED
    BY <1>12, <2>2
<1> DEFINE r == [i \in 1..m |-> IF i = 1 THEN u0 ELSE s[i - 1]]
<1>15. r \in [1..m -> U]
  <2>1. \A i \in 1..m : i # 1 => i - 1 \in 1..(m - 1)
    BY <1>6
  <2>. QED
    BY <1>10, <1>14, <2>1
<1>16. \A i, j \in 1..m : i < j => rank[r[i]] < rank[r[j]]
  <2>1. SUFFICES ASSUME NEW i \in 1..m, NEW j \in 1..m, i < j
                 PROVE  rank[r[i]] < rank[r[j]]
    OBVIOUS
  <2>2. j - 1 \in 1..(m - 1) /\ r[j] = s[j - 1] /\ s[j - 1] \in V
    BY <1>6, <1>14, <2>1
  <2>3. CASE i = 1
    <3>1. r[i] = u0 /\ rank[u0] <= rank[s[j - 1]] /\ rank[u0] # rank[s[j - 1]]
      BY <1>6, <1>10, <1>11, <2>2, <2>3
    <3>2. rank[u0] \in Nat /\ rank[s[j - 1]] \in Nat
      BY <1>6, <1>10, <2>2
    <3>. QED
      BY <2>2, <3>1, <3>2
  <2>4. CASE i # 1
    <3>1. i - 1 \in 1..(m - 1) /\ r[i] = s[i - 1] /\ i - 1 < j - 1
      BY <1>6, <2>1, <2>4
    <3>. QED
      BY <1>14, <2>2, <3>1
  <2>. QED
    BY <2>3, <2>4
<1>. QED
  BY <1>5, <1>6, <1>15, <1>16

(* A list of as many elements as the set has, no two of them the same, misses none. *)
LEMMA ListReachesAll ==
  ASSUME NEW T, IsFiniteSet(T), NEW s \in [1..Cardinality(T) -> T],
         \A i, j \in 1..Cardinality(T) : i < j => s[i] # s[j]
  PROVE  /\ Cardinality(T) \in Nat
         /\ \A t \in T : \E i \in 1..Cardinality(T) : s[i] = t
<1> DEFINE n == Cardinality(T)
<1>1. n \in Nat
  BY FS_CardinalityType
<1>. HIDE DEF n
<1>2. IsFiniteSet(1..n) /\ Cardinality(1..n) = n
  <2>1. 0 \in Int /\ 1 \in Int /\ n \in Int
    BY <1>1
  <2>. QED
    BY <1>1, <2>1, FS_Interval
<1>3. s \in Injection(1..n, T)
  <2>1. \A i, j \in 1..n : s[i] = s[j] => i = j
    BY <1>1 DEF n
  <2>. QED
    BY <2>1 DEF Injection, IsInjective, n
<1>4. s \in Surjection(1..n, T)
  BY <1>2, <1>3, FS_Injection DEF n
<1>. QED
  BY <1>1, <1>4 DEF Surjection, n
(* What holds of 0 and goes from each number to the next holds up to n. *)
LEMMA StepByStep ==
  ASSUME NEW n \in Nat, NEW T, 0 \in T, \A i \in 0..(n - 1) : i \in T => i + 1 \in T
  PROVE  \A i \in 0..n : i \in T
<1> DEFINE Bad == {i \in 0..n : i \notin T}
<1>1. SUFFICES ASSUME Bad # {} PROVE FALSE
  OBVIOUS
<1>2. Bad \in SUBSET Nat
  OBVIOUS
<1>3. PICK m \in Bad : \A y \in Bad : m <= y
  BY ONLY <1>1, <1>2, LeastExists, Zenon
<1>4. m # 0 /\ m \in 0..n /\ m \notin T
  BY <1>3
<1>5. m - 1 \in 0..(n - 1) /\ m - 1 \in 0..n /\ m - 1 < m /\ (m - 1) + 1 = m
  BY <1>4
<1>6. m - 1 \in T
  <2>1. m - 1 \notin Bad
    BY <1>3, <1>5
  <2>. QED
    BY <1>5, <2>1
<1>. QED
  BY <1>4, <1>5, <1>6

(* A finite set of naturals that is not empty has a maximum. *)
LEMMA MaxOfFinite ==
  ASSUME NEW T \in SUBSET Nat, T # {}, IsFiniteSet(T)
  PROVE  Max(T) \in T /\ \A y \in T : Max(T) >= y
<1> DEFINE n == Cardinality(T)
           rank == [t \in T |-> t]
<1>1. PICK s \in [1..n -> T] : \A i, j \in 1..n : i < j => rank[s[i]] < rank[s[j]]
  <2>1. /\ \A t \in T : rank[t] \in Nat
        /\ \A a, b \in T : rank[a] = rank[b] => a = b
    OBVIOUS
  <2>. HIDE DEF rank
  <2>. QED
    BY <2>1, RankedOrderExists
<1>2. n \in Nat /\ n # 0
  BY FS_CardinalityType, FS_EmptySet
<1>3. \A i, j \in 1..n : i < j => s[i] < s[j]
  BY <1>1
<1>4. \A t \in T : \E i \in 1..n : s[i] = t
  <2>1. \A i, j \in 1..n : i < j => s[i] # s[j]
    <3>1. \A i \in 1..n : s[i] \in Nat
      BY <1>1
    <3>. QED
      BY <1>3, <3>1
  <2>2. s \in [1..n -> T]
    BY <1>1
  <2>. QED
    BY ONLY IsFiniteSet(T), <2>1, <2>2, ListReachesAll
<1>. HIDE DEF n
<1>5. n \in 1..n
  BY <1>2
<1>6. s[n] \in T
  BY <1>1, <1>5
<1>7. \A t \in T : t \in Int
  OBVIOUS
<1>8. s[n] \in Int
  BY ONLY <1>6, <1>7, Zenon
<1>9. \A x \in T : x <= s[n]
  <2>1. SUFFICES ASSUME NEW x \in T PROVE x <= s[n]
    OBVIOUS
  <2>2. PICK i \in 1..n : s[i] = x
    BY <1>4
  <2>. QED
    BY <1>2, <1>3, <1>5, <1>8, <2>2
<1>10. T \in SUBSET Int
  BY <1>7
<1>. QED
  BY ONLY T # {}, <1>8, <1>9, <1>10, MaxOfBounded, Zenon

(* A function has finitely many values on a finite set. *)
LEMMA ValuesAreFinite ==
  ASSUME NEW S, IsFiniteSet(S), NEW f
  PROVE  IsFiniteSet({f[x] : x \in S})
<1> DEFINE T == {f[x] : x \in S}
           g == [x \in S |-> f[x]]
<1>1. g \in Surjection(S, T)
  BY DEF Surjection
<1>. HIDE DEF g, T
<1>2. IsFiniteSet(T)
  BY <1>1, FS_Surjection
<1>. QED
  BY <1>2 DEF T

(* A step taken for each of the numbers 1..n, from a first value, gives a value of each. *)
IsIteration(f, n, S, first, step) ==
  f \in [0..n -> S] /\ f[0] = first /\ \A i \in 1..n : f[i] = step[i][f[i - 1]]

LEMMA IterationExists ==
  ASSUME NEW n \in Nat, NEW S, NEW first \in S, NEW step \in [1..n -> [S -> S]]
  PROVE  \E f : IsIteration(f, n, S, first, step)
<1> DEFINE Up(f, m) == f \in [0..m -> S] /\ f[0] = first /\ \A i \in 1..m : f[i] = step[i][f[i - 1]]
           T == {m \in 0..n : \E f : Up(f, m)}
<1>1. 0 \in T
  <2>1. Up([i \in 0..0 |-> first], 0)
    OBVIOUS
  <2>2. 0 \in 0..n
    OBVIOUS
  <2>. HIDE DEF Up
  <2>. QED
    BY <2>1, <2>2
<1>2. ASSUME NEW m \in 0..(n - 1), m \in T PROVE m + 1 \in T
  <2>1. PICK f : Up(f, m)
    BY <1>2
  <2>2. m \in Nat /\ m + 1 \in 0..n /\ m + 1 \in 1..n /\ m \in 0..m
    BY <1>2
  <2> DEFINE g == [i \in 0..(m + 1) |-> IF i = m + 1 THEN step[m + 1][f[m]] ELSE f[i]]
  <2>3. f[m] \in S /\ step[m + 1][f[m]] \in S
    BY <2>1, <2>2
  <2>4. g \in [0..(m + 1) -> S]
    <3>1. \A i \in 0..(m + 1) : i # m + 1 => i \in 0..m
      BY <2>2
    <3>. QED
      BY <2>1, <2>3, <3>1
  <2>5. g[0] = first
    BY <2>1, <2>2
  <2>6. ASSUME NEW i \in 1..(m + 1) PROVE g[i] = step[i][g[i - 1]]
    <3>1. i - 1 \in 0..(m + 1) /\ i - 1 # m + 1 /\ g[i - 1] = f[i - 1]
      BY <2>2
    <3>2. CASE i = m + 1
      BY <2>2, <3>1, <3>2
    <3>3. CASE i # m + 1
      <4>1. i \in 1..m /\ g[i] = f[i] /\ i - 1 # m + 1
        BY <2>2, <3>3
      <4>2. f[i] = step[i][f[i - 1]]
        BY <2>1, <4>1
      <4>. QED
        BY <3>1, <4>1, <4>2
    <3>. QED
      BY <3>2, <3>3
  <2>. HIDE DEF g
  <2>7. Up(g, m + 1)
    BY <2>4, <2>5, <2>6
  <2>. QED
    BY <2>2, <2>7
<1>3. n \in T
  <2>. HIDE DEF T
  <2>1. \A i \in 0..n : i \in T
    BY <1>1, <1>2, StepByStep
  <2>. QED
    BY <2>1
<1>. QED
  BY <1>3 DEF IsIteration

(* In a finite set put in order, the elements have places 0, 1, 2, ...; under[a] are those *)
(* before a.                                                                              *)
LEMMA PlacesReachAll ==
  ASSUME NEW S, IsFiniteSet(S), NEW under \in [S -> SUBSET S],
         \A a \in S : a \notin under[a],
         \A a, b, c \in S : a \in under[b] /\ b \in under[c] => a \in under[c],
         \A a, b \in S : a # b => a \in under[b] \/ b \in under[a]
  PROVE  /\ Cardinality(S) \in Nat
         /\ \A a \in S : Cardinality(under[a]) \in 0..(Cardinality(S) - 1)
         /\ \A a, b \in S : Cardinality(under[a]) = Cardinality(under[b]) => a = b
         /\ \A k \in 0..(Cardinality(S) - 1) : \E a \in S : Cardinality(under[a]) = k
<1> DEFINE n == Cardinality(S)
           place == [a \in S |-> Cardinality(under[a])]
<1>1. n \in Nat
  BY FS_CardinalityType
<1>2. \A a \in S : under[a] \in SUBSET S /\ IsFiniteSet(under[a]) /\ Cardinality(under[a]) \in Nat
  BY FS_Subset, FS_CardinalityType
<1>3. \A a \in S : Cardinality(under[a]) \in 0..(n - 1)
  <2>1. SUFFICES ASSUME NEW a \in S PROVE Cardinality(under[a]) \in 0..(n - 1)
    OBVIOUS
  <2>2. under[a] \in SUBSET S /\ under[a] # S /\ Cardinality(under[a]) \in Nat
    BY <1>2
  <2>3. Cardinality(under[a]) <= n /\ Cardinality(under[a]) # n
    BY <2>2, FS_Subset
  <2>. QED
    BY <1>1, <2>2, <2>3
<1>4. ASSUME NEW a \in S, NEW b \in S, a \in under[b]
      PROVE  Cardinality(under[a]) < Cardinality(under[b])
  <2>1. under[a] \in SUBSET under[b] /\ a \notin under[a]
    BY <1>2, <1>4
  <2>2. IsFiniteSet(under[b]) /\ Cardinality(under[b]) \in Nat /\ Cardinality(under[a]) \in Nat
    BY <1>2
  <2>3. Cardinality(under[a]) <= Cardinality(under[b]) /\ Cardinality(under[a]) # Cardinality(under[b])
    BY <1>4, <2>1, <2>2, FS_Subset
  <2>. QED
    BY <2>2, <2>3
<1>5. \A a, b \in S : Cardinality(under[a]) = Cardinality(under[b]) => a = b
  <2>1. SUFFICES ASSUME NEW a \in S, NEW b \in S, Cardinality(under[a]) = Cardinality(under[b]), a # b
                 PROVE  FALSE
    OBVIOUS
  <2>2. Cardinality(under[a]) \in Nat /\ Cardinality(under[b]) \in Nat
    BY <1>2
  <2>3. Cardinality(under[a]) < Cardinality(under[b]) \/ Cardinality(under[b]) < Cardinality(under[a])
    BY <1>4, <2>1
  <2>. QED
    BY <2>1, <2>2, <2>3
<1>. HIDE DEF n
<1>6. IsFiniteSet(0..(n - 1)) /\ Cardinality(0..(n - 1)) = n
  <2>1. 0 \in Int /\ n - 1 \in Int
    BY <1>1
  <2>. QED
    BY <1>1, <2>1, FS_Interval
<1>7. place \in Injection(S, 0..(n - 1))
  BY <1>3, <1>5 DEF Injection, IsInjective
<1>8. place \in Surjection(S, 0..(n - 1))
  <2>. HIDE DEF place
  <2>. QED
    BY <1>6, <1>7, FS_Injection DEF n
<1>9. \A k \in 0..(n - 1) : \E a \in S : Cardinality(under[a]) = k
  BY <1>8 DEF Surjection
<1>. QED
  BY <1>1, <1>3, <1>5, <1>9 DEF n

(* As many have one of the first k places as there are, or k. *)
LEMMA FirstPlaces ==
  ASSUME NEW S, IsFiniteSet(S), NEW under \in [S -> SUBSET S], NEW k \in Nat,
         \A a \in S : a \notin under[a],
         \A a, b, c \in S : a \in under[b] /\ b \in under[c] => a \in under[c],
         \A a, b \in S : a # b => a \in under[b] \/ b \in under[a]
  PROVE  Cardinality({a \in S : Cardinality(under[a]) < k})
           = IF k <= Cardinality(S) THEN k ELSE Cardinality(S)
<1> DEFINE n == Cardinality(S)
           First == {a \in S : Cardinality(under[a]) < k}
           m == IF k <= n THEN k ELSE n
           f == [a \in First |-> Cardinality(under[a])]
<1>1. /\ n \in Nat
      /\ \A a \in S : Cardinality(under[a]) \in 0..(n - 1)
      /\ \A a, b \in S : Cardinality(under[a]) = Cardinality(under[b]) => a = b
      /\ \A j \in 0..(n - 1) : \E a \in S : Cardinality(under[a]) = j
  BY PlacesReachAll
<1>. HIDE DEF n
<1>2. m \in Nat /\ \A a \in First : Cardinality(under[a]) \in 0..(m - 1)
  BY <1>1
<1>3. \A j \in 0..(m - 1) : j \in 0..(n - 1) /\ j < k
  BY <1>1
<1>4. f \in Bijection(First, 0..(m - 1))
  <2>1. f \in Injection(First, 0..(m - 1))
    BY <1>1, <1>2 DEF Injection, IsInjective
  <2>2. f \in Surjection(First, 0..(m - 1))
    <3>1. \A j \in 0..(m - 1) : \E a \in First : Cardinality(under[a]) = j
      BY <1>1, <1>3
    <3>. QED
      BY <1>2, <3>1 DEF Surjection
  <2>. QED
    BY <2>1, <2>2 DEF Bijection
<1>5. IsFiniteSet(First)
  <2>1. First \in SUBSET S
    OBVIOUS
  <2>. HIDE DEF First
  <2>. QED
    BY <2>1, FS_Subset
<1>. HIDE DEF First, m
<1>6. ExistsBijection(First, 0..(m - 1))
  BY <1>4 DEF ExistsBijection
<1>7. Cardinality(0..(m - 1)) = Cardinality(First)
  BY <1>5, <1>6, FS_Bijection
<1>8. Cardinality(0..(m - 1)) = m
  <2>1. 0 \in Int /\ m - 1 \in Int
    BY <1>2
  <2>. QED
    BY <1>2, <2>1, FS_Interval
<1>. QED
  BY <1>7, <1>8 DEF First, m, n
=============================================================================
