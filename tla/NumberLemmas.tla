---------------------------- MODULE NumberLemmas ----------------------------
(***************************************************************************)
(* What the proofs of several components need about numbers: the least of  *)
(* a set, functions defined by recursion, the ranks of a finite set.       *)
(***************************************************************************)
EXTENDS Integers, FiniteSetTheorems, WellFoundedInduction, TLAPS

-----------------------------------------------------------------------------
\* Least numbers and recursion

LEMMA LeastNumber ==
    ASSUME NEW S \in SUBSET Nat, S # {}
    PROVE  \E x \in S : \A y \in S : x <= y
  <1>. DEFINE less == OpToRel(<, Nat)
  <1>1. \A x, y \in Nat : <<x, y>> \in less <=> x < y
    BY DEF OpToRel
  <1>2. IsWellFoundedOn(less, Nat)
    BY NatLessThanWellFounded
  <1>. HIDE DEF less
  <1>3. PICK x \in S : \A y \in S : ~(<<y, x>> \in less)
    BY <1>2, WFMin
  <1>4. \A y \in S : ~(y < x)
    BY <1>1, <1>3
  <1>5. \A y \in S : x <= y
    BY <1>4
  <1>. QED  BY <1>5

LEMMA SetInduction ==
    ASSUME NEW S \in SUBSET Nat, 0 \in S, \A n \in S : n + 1 \in S
    PROVE  S = Nat
  <1>. SUFFICES ASSUME Nat \ S # {}
                PROVE  FALSE
    OBVIOUS
  <1>1. PICK x \in Nat \ S : \A y \in Nat \ S : x <= y
    BY LeastNumber
  <1>2. x - 1 \in Nat /\ x - 1 \in S
    BY <1>1
  <1>. QED  BY <1>1, <1>2

\* f has its first value and each next one from the one before.
Recursive(f, n, start, next) ==
    f[0] = start /\ \A i \in 1 .. n : f[i] = next[i][f[i - 1]]

\* There is such a function.
LEMMA RecursionDefined ==
    ASSUME NEW n \in Nat, NEW T, NEW start \in T, NEW next \in [1 .. n -> [T -> T]]
    PROVE  \E f \in [0 .. n -> T] : Recursive(f, n, start, next)
  <1>. DEFINE Defined(k) == \E f \in [0 .. k -> T] :
                 /\ f[0] = start
                 /\ \A i \in 1 .. k : f[i] = next[i][f[i - 1]]
              undefined == {k \in 0 .. n : ~Defined(k)}
  <1>1. Defined(0)
    <2>1. [i \in 0 .. 0 |-> start] \in [0 .. 0 -> T] /\ [i \in 0 .. 0 |-> start][0] = start
      OBVIOUS
    <2>2. 1 .. 0 = {}
      OBVIOUS
    <2>. QED  BY <2>1, <2>2
  <1>2. ASSUME NEW k \in 1 .. n, Defined(k - 1)
        PROVE  Defined(k)
    <2>1. PICK g \in [0 .. k - 1 -> T] : g[0] = start /\ \A i \in 1 .. k - 1 : g[i] = next[i][g[i - 1]]
      BY <1>2
    <2>. DEFINE f == [i \in 0 .. k |-> IF i = k THEN next[k][g[k - 1]] ELSE g[i]]
    <2>2. k - 1 \in 0 .. k - 1 /\ g[k - 1] \in T
      OBVIOUS
    <2>3. next[k][g[k - 1]] \in T
      BY <2>2
    <2>4. f \in [0 .. k -> T]
      BY <2>3
    <2>5. f[0] = start /\ f[k] = next[k][f[k - 1]]
      BY <2>1
    <2>6. ASSUME NEW i \in 1 .. k - 1
          PROVE  f[i] = next[i][f[i - 1]]
      <3>1. f[i] = g[i] /\ f[i - 1] = g[i - 1]
        OBVIOUS
      <3>. HIDE DEF f
      <3>. QED  BY <2>1, <3>1
    <2>. HIDE DEF f
    <2>7. \A i \in 1 .. k : f[i] = next[i][f[i - 1]]
      BY <2>5, <2>6
    <2>. QED  BY <2>4, <2>5, <2>7
  <1>. HIDE DEF Defined
  <1>3. undefined = {}
    <2>. SUFFICES ASSUME undefined # {}
                  PROVE  FALSE
      OBVIOUS
    <2>1. undefined \in SUBSET Nat
      OBVIOUS
    <2>. HIDE DEF undefined
    <2>2. PICK k \in undefined : \A j \in undefined : k <= j
      BY <2>1, LeastNumber
    <2>3. k \in 0 .. n /\ ~Defined(k) /\ \A j \in 0 .. n : j < k => Defined(j)
      BY <2>2 DEF undefined
    <2>4. k \in 1 .. n /\ Defined(k - 1)
      BY <1>1, <2>3
    <2>. QED  BY <1>2, <2>3, <2>4
  <1>4. Defined(n)
    BY <1>3
  <1>. QED  BY <1>4 DEF Defined, Recursive

-----------------------------------------------------------------------------
\* Ranks

LEMMA RankBounds ==
    ASSUME NEW S \in SUBSET Nat, IsFiniteSet(S), NEW x \in S
    PROVE  Cardinality({y \in S : y <= x}) \in 1 .. Cardinality(S)
  <1>. DEFINE below == {y \in S : y <= x}
  <1>1. IsFiniteSet(below) /\ Cardinality(below) <= Cardinality(S)
    BY FS_Subset
  <1>2. Cardinality(below) \in Nat /\ Cardinality(S) \in Nat
    BY <1>1, FS_CardinalityType
  <1>3. below # {}
    OBVIOUS
  <1>4. Cardinality(below) # 0
    BY <1>1, <1>3, FS_EmptySet
  <1>. QED  BY <1>1, <1>2, <1>4

LEMMA RankGrows ==
    ASSUME NEW S \in SUBSET Nat, IsFiniteSet(S), NEW x \in Nat, NEW y \in S, x < y
    PROVE  Cardinality({z \in S : z <= x}) < Cardinality({z \in S : z <= y})
  <1>. DEFINE lower == {z \in S : z <= x}
              upper == {z \in S : z <= y}
  <1>3. IsFiniteSet(upper)
    BY FS_Subset
  <1>1. y \in Nat /\ y <= y /\ ~(y <= x) /\ \A z \in S : z <= x => z <= y
    OBVIOUS
  <1>2. lower \subseteq upper /\ y \in upper /\ y \notin lower
    BY <1>1
  <1>. HIDE DEF lower, upper
  <1>4. Cardinality(lower) <= Cardinality(upper) /\ Cardinality(upper) # Cardinality(lower)
    BY <1>2, <1>3, FS_Subset
  <1>5. Cardinality(lower) \in Nat /\ Cardinality(upper) \in Nat
    BY <1>2, <1>3, FS_Subset, FS_CardinalityType
  <1>. QED  BY <1>4, <1>5 DEF lower, upper

\* Every rank is taken, by one element.
LEMMA RanksTaken ==
    ASSUME NEW S \in SUBSET Nat, IsFiniteSet(S), NEW i \in 1 .. Cardinality(S)
    PROVE  \E x \in S : /\ Cardinality({y \in S : y <= x}) = i
                        /\ \A z \in S : Cardinality({y \in S : y <= z}) = i => z = x
  <1>. DEFINE rank(x) == Cardinality({y \in S : y <= x})
              ranks == [x \in S |-> rank(x)]
              n == Cardinality(S)
  <1>1. n \in Nat /\ IsFiniteSet(1 .. n) /\ Cardinality(1 .. n) = n
    BY FS_CardinalityType, FS_Interval
  <1>2. \A x \in S : rank(x) \in 1 .. n
    BY RankBounds
  <1>3. \A x, y \in S : x < y => rank(x) < rank(y)
    BY RankGrows
  <1>. HIDE DEF rank, n
  <1>4. \A x, y \in S : rank(x) = rank(y) => x = y
    <2>. SUFFICES ASSUME NEW x \in S, NEW y \in S, rank(x) = rank(y), x # y
                  PROVE  FALSE
      OBVIOUS
    <2>1. x < y \/ y < x
      OBVIOUS
    <2>2. rank(x) \in 1 .. n /\ rank(y) \in 1 .. n
      BY <1>2
    <2>. QED  BY <1>1, <1>3, <2>1, <2>2
  <1>5. ranks \in Injection(S, 1 .. n)
    BY <1>2, <1>4 DEF Injection, IsInjective
  <1>6. ranks \in Surjection(S, 1 .. n)
    <2>. HIDE DEF ranks
    <2>. QED  BY <1>1, <1>5, FS_Injection DEF n
  <1>7. \E x \in S : ranks[x] = i
    BY <1>6 DEF Surjection, n
  <1>. QED  BY <1>4, <1>7 DEF rank
=============================================================================
