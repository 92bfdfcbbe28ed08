-------------------------- MODULE TraversalsProofs --------------------------
(***************************************************************************)
(* Both searches give every statement its right answer, in every graph.    *)
(***************************************************************************)
EXTENDS Traversals, NumberLemmas, SequenceTheorems

-----------------------------------------------------------------------------
\* Sequences

Distinct(seq) == \A i, j \in DOMAIN seq : seq[i] = seq[j] => i = j

LEMMA DistinctSize ==
    ASSUME NEW S, NEW u \in Seq(S), Distinct(u)
    PROVE  Cardinality(Range(u)) = Len(u)
  <1>1. Len(u) \in Nat /\ DOMAIN u = 1 .. Len(u) /\ u \in [1 .. Len(u) -> S]
    BY LenProperties
  <1>2. IsFiniteSet(1 .. Len(u)) /\ Cardinality(1 .. Len(u)) = Len(u)
    <2>. DEFINE n == Len(u)
    <2>1. n \in Nat /\ 1 \in Int
      BY <1>1
    <2>. HIDE DEF n
    <2>2. IsFiniteSet(1 .. n) /\ Cardinality(1 .. n) = IF 1 > n THEN 0 ELSE n - 1 + 1
      BY <2>1, FS_Interval
    <2>3. Cardinality(1 .. n) = n
      BY <2>1, <2>2
    <2>. QED  BY <2>2, <2>3 DEF n
  <1>3. u \in [1 .. Len(u) -> Range(u)] /\ \A x \in Range(u) : \E i \in 1 .. Len(u) : u[i] = x
    BY <1>1 DEF Range
  <1>4. u \in Injection(1 .. Len(u), Range(u)) /\ u \in Surjection(1 .. Len(u), Range(u))
    BY <1>1, <1>3 DEF Distinct, Injection, IsInjective, Surjection
  <1>5. u \in Bijection(1 .. Len(u), Range(u))
    BY <1>4 DEF Bijection
  <1>6. ExistsBijection(1 .. Len(u), Range(u))
    BY <1>5 DEF ExistsBijection
  <1>7. Cardinality(Range(u)) = Cardinality(1 .. Len(u))
    BY <1>2, <1>6, FS_Bijection
  <1>. QED  BY <1>2, <1>7

LEMMA AppendDistinct ==
    ASSUME NEW S, NEW t \in Seq(S), NEW x \in S, x \notin Range(t), Distinct(t)
    PROVE  Append(t, x) \in Seq(S) /\ Distinct(Append(t, x)) /\ Range(Append(t, x)) = Range(t) \cup {x}
  <1>. DEFINE u == Append(t, x)
              n == Len(t)
  <1>1. n \in Nat /\ DOMAIN t = 1 .. n
    BY LenProperties
  <1>2. /\ u \in Seq(S) /\ Len(u) = n + 1 /\ DOMAIN u = 1 .. Len(u)
        /\ \A i \in 1 .. n : u[i] = t[i]
        /\ u[n + 1] = x
    BY AppendProperties, LenProperties
  <1>. HIDE DEF u, n
  <1>3. \A i \in 1 .. n : t[i] # x
    BY <1>1 DEF Range
  <1>4. \A i \in 1 .. n + 1 : i = n + 1 \/ i \in 1 .. n
    BY <1>1
  <1>5. Distinct(u)
    BY <1>1, <1>2, <1>3, <1>4 DEF Distinct
  <1>6. Range(u) = Range(t) \cup {x}
    BY <1>1, <1>2, <1>4 DEF Range
  <1>. QED  BY <1>2, <1>5, <1>6 DEF u

\* What a list keeps of a set, once each if the list has each once.
LEMMA KeptProperties ==
    ASSUME NEW S, NEW list \in Seq(S), Distinct(list), NEW ids
    PROVE  /\ Kept(list, ids) \in Seq(S)
           /\ Distinct(Kept(list, ids))
           /\ Range(Kept(list, ids)) = Range(list) \cap ids
  <1>. DEFINE n == Len(list)
              step(x, i) == IF list[i] \in ids THEN Append(x, list[i]) ELSE x
              next == [i \in 1 .. n |-> [x \in Seq(S) |-> step(x, i)]]
              made(f) == [i \in 0 .. n |-> IF i = 0 THEN << >> ELSE step(f[i - 1], i)]
              upTo == CHOOSE f : f = made(f)
  <1>1. n \in Nat /\ DOMAIN list = 1 .. n /\ \A i \in 1 .. n : list[i] \in S
    BY LenProperties, ElementOfSeq
  <1>2. \A i \in 1 .. n : \A x \in Seq(S) : step(x, i) \in Seq(S)
    BY <1>1, AppendProperties
  <1>3. Kept(list, ids) = upTo[n]
    BY Zenon DEF Kept
  <1>. HIDE DEF n, step
  <1>4. << >> \in Seq(S) /\ next \in [1 .. n -> [Seq(S) -> Seq(S)]]
    BY <1>2, EmptySeq
  <1>5. PICK f \in [0 .. n -> Seq(S)] : Recursive(f, n, << >>, next)
    <2>. HIDE DEF next
    <2>. QED  BY <1>1, <1>4, RecursionDefined
  <1>6. \A i \in 1 .. n : f[i] = step(f[i - 1], i)
    <2>. TAKE i \in 1 .. n
    <2>1. i - 1 \in 0 .. n
      BY <1>1
    <2>2. f[i - 1] \in Seq(S) /\ f[i] = next[i][f[i - 1]]
      BY <1>5, <2>1 DEF Recursive
    <2>. QED  BY <2>2
  <1>7. f = made(f)
    BY <1>1, <1>5, <1>6 DEF Recursive
  <1>8. upTo = made(upTo)
    <2>. HIDE DEF made
    <2>. QED  BY <1>7
  <1>9. upTo[0] = << >> /\ \A i \in 1 .. n : upTo[i] = step(upTo[i - 1], i)
    <2>. HIDE DEF upTo
    <2>. QED  BY <1>1, <1>8
  <1>. HIDE DEF upTo, next, made
  <1>. DEFINE Right(i) == /\ upTo[i] \in Seq(S)
                          /\ Distinct(upTo[i])
                          /\ Range(upTo[i]) = {list[j] : j \in 1 .. i} \cap ids
              rights == {i \in Nat : i <= n => Right(i)}
  <1>10. Right(0)
    <2>1. << >> \in Seq(S) /\ DOMAIN << >> = {} /\ 1 .. 0 = {}
      BY EmptySeq
    <2>. QED  BY <1>9, <2>1 DEF Distinct, Range
  <1>11. ASSUME NEW i \in Nat, i + 1 <= n, Right(i)
         PROVE  Right(i + 1)
    <2>1. i + 1 \in 1 .. n /\ i + 1 - 1 = i
      BY <1>1, <1>11
    <2>2. upTo[i + 1] = IF list[i + 1] \in ids THEN Append(upTo[i], list[i + 1]) ELSE upTo[i]
      BY <1>9, <2>1 DEF step
    <2>3. {list[j] : j \in 1 .. i + 1} = {list[j] : j \in 1 .. i} \cup {list[i + 1]}
      BY <2>1
    <2>4. list[i + 1] \in S /\ list[i + 1] \notin {list[j] : j \in 1 .. i}
      <3>1. \A j \in 1 .. i : j \in 1 .. n /\ j # i + 1
        BY <1>1, <2>1
      <3>. QED  BY <1>1, <2>1, <3>1 DEF Distinct
    <2>5. CASE list[i + 1] \notin ids
      BY <1>11, <2>2, <2>3, <2>5
    <2>6. CASE list[i + 1] \in ids
      <3>. DEFINE t == upTo[i]
                  x == list[i + 1]
      <3>1. t \in Seq(S) /\ x \in S /\ x \notin Range(t) /\ Distinct(t)
        BY <1>11, <2>4
      <3>2. upTo[i + 1] = Append(t, x)
        BY <2>2, <2>6
      <3>. HIDE DEF t, x
      <3>3. Append(t, x) \in Seq(S) /\ Distinct(Append(t, x)) /\ Range(Append(t, x)) = Range(t) \cup {x}
        BY <3>1, AppendDistinct
      <3>. QED  BY <1>11, <2>3, <2>6, <3>2, <3>3 DEF t, x
    <2>. QED  BY <2>5, <2>6
  <1>12. rights = Nat
    <2>1. rights \in SUBSET Nat /\ 0 \in rights
      BY <1>10
    <2>2. \A i \in rights : i + 1 \in rights
      <3>. TAKE i \in rights
      <3>. HIDE DEF Right
      <3>1. i \in Nat /\ (i <= n => Right(i)) /\ (i + 1 <= n => i <= n)
        BY <1>1
      <3>. QED  BY <1>11, <3>1
    <2>. HIDE DEF rights
    <2>. QED  BY <2>1, <2>2, SetInduction
  <1>13. Right(n)
    <2>. HIDE DEF Right
    <2>. QED  BY <1>1, <1>12
  <1>14. {list[j] : j \in 1 .. n} = Range(list)
    BY <1>1 DEF Range
  <1>. QED  BY <1>3, <1>13, <1>14

-----------------------------------------------------------------------------
\* The lists of the graph

LEMMA AscendingLists ==
    ASSUME NEW ids \in SUBSET Nat, IsFiniteSet(ids)
    PROVE  /\ Cardinality(ids) \in Nat
           /\ Ascending(ids) \in [1 .. Cardinality(ids) -> ids]
           /\ \A x \in ids : Rank(ids, x) \in 1 .. Cardinality(ids) /\ Ascending(ids)[Rank(ids, x)] = x
           /\ \A i \in 1 .. Cardinality(ids) : Rank(ids, Ascending(ids)[i]) = i
  <1>. DEFINE n == Cardinality(ids)
  <1>1. n \in Nat
    BY FS_CardinalityType
  <1>2. \A x \in ids : Rank(ids, x) \in 1 .. n
    BY RankBounds DEF Rank
  <1>3. \A i \in 1 .. n : \E x \in ids : Rank(ids, x) = i /\ \A z \in ids : Rank(ids, z) = i => z = x
    BY RanksTaken DEF Rank
  <1>4. \A i \in 1 .. n : Ascending(ids)[i] = CHOOSE x \in ids : Rank(ids, x) = i
    BY DEF Ascending
  <1>5. \A i \in 1 .. n : Ascending(ids)[i] \in ids /\ Rank(ids, Ascending(ids)[i]) = i
    BY <1>3, <1>4
  <1>6. \A x \in ids : Ascending(ids)[Rank(ids, x)] = x
    BY <1>2, <1>3, <1>5
  <1>7. Ascending(ids) \in [1 .. n -> ids]
    BY <1>5 DEF Ascending
  <1>. QED  BY <1>1, <1>2, <1>5, <1>6, <1>7

LEMMA ListedElements ==
    ASSUME NEW ids \in SUBSET Nat, IsFiniteSet(ids)
    PROVE  Listed(ids) \in Seq(ids) /\ Range(Listed(ids)) = ids
  <1>. DEFINE n == Cardinality(ids)
  <1>1. /\ n \in Nat /\ Ascending(ids) \in [1 .. n -> ids]
        /\ \A x \in ids : Rank(ids, x) \in 1 .. n /\ Ascending(ids)[Rank(ids, x)] = x
    BY AscendingLists
  <1>. HIDE DEF n
  <1>2. CASE upward
    <2>1. Ascending(ids) \in Seq(ids)
      BY <1>1
    <2>2. Range(Ascending(ids)) = ids
      BY <1>1 DEF Range
    <2>. QED  BY <1>2, <2>1, <2>2 DEF Listed
  <1>3. CASE ~upward
    <2>1. Descending(ids) = [i \in 1 .. n |-> Ascending(ids)[n + 1 - i]]
      BY DEF Descending, n
    <2>2. \A i \in 1 .. n : n + 1 - i \in 1 .. n /\ n + 1 - (n + 1 - i) = i
      BY <1>1
    <2>3. Descending(ids) \in [1 .. n -> ids]
      BY <1>1, <2>1, <2>2
    <2>4. \A x \in ids : Descending(ids)[n + 1 - Rank(ids, x)] = x
      BY <1>1, <2>1, <2>2
    <2>5. Descending(ids) \in Seq(ids)
      BY <1>1, <2>3
    <2>6. Range(Descending(ids)) = ids
      BY <1>1, <2>2, <2>3, <2>4 DEF Range
    <2>. QED  BY <1>3, <2>5, <2>6 DEF Listed
  <1>. QED  BY <1>2, <1>3

\* What stays of the graph: the nodes are finitely many numbers.
GraphOK == members \subseteq NodeIds /\ links \subseteq members \X members

LEMMA MembersFinite ==
    ASSUME GraphOK, NEW ids \in SUBSET members
    PROVE  ids \in SUBSET Nat /\ IsFiniteSet(ids)
  BY FS_Subset, TraversalsAssumption DEF GraphOK

\* The two lists of a node have the nodes next to it.
LEMMA NeighbourLists ==
    ASSUME GraphOK, NEW n
    PROVE  NeighbourIds(n) \in Seq(members) /\ Range(NeighbourIds(n)) = Adjacent(n)
  <1>. DEFINE to == {m \in members : <<n, m>> \in links}
              from == {m \in members : <<m, n>> \in links}
  <1>1. to \in SUBSET members /\ from \in SUBSET members /\ to \cup from = Adjacent(n)
    BY DEF Adjacent
  <1>2. NeighbourIds(n) = Listed(to) \o Listed(from)
    BY DEF NeighbourIds
  <1>. HIDE DEF to, from
  <1>3. Listed(to) \in Seq(to) /\ Range(Listed(to)) = to
    BY <1>1, MembersFinite, ListedElements
  <1>4. Listed(from) \in Seq(from) /\ Range(Listed(from)) = from
    BY <1>1, MembersFinite, ListedElements
  <1>5. Listed(to) \in Seq(members) /\ Listed(from) \in Seq(members)
    BY <1>1, <1>3, <1>4, SeqMonotonic
  <1>6. Range(Listed(to) \o Listed(from)) = Range(Listed(to)) \cup Range(Listed(from))
    BY <1>5, RangeConcatenation
  <1>. QED  BY <1>1, <1>2, <1>3, <1>4, <1>5, <1>6, ConcatProperties

-----------------------------------------------------------------------------
\* Distances.  A graph is its nodes M and links L here, so that what is said of it
\* is said of the next state's as well.

NextTo(M, L, n) == {m \in M : <<n, m>> \in L \/ <<m, n>> \in L}
Wider(M, L, B) == B \cup UNION {NextTo(M, L, n) : n \in B}

\* Within, of any graph.
BallOf(M, L, s, h) ==
    LET ball[i \in 0 .. h] == IF i = 0 THEN {s} ELSE Wider(M, L, ball[i - 1])
    IN  ball[h]

LEMMA WithinIsBall == \A h : Within(h) = BallOf(members, links, request.source, h)
  BY Zenon DEF Within, BallOf, Wider, NextTo, Adjacent

\* Ball by ball, up to the h-th.
Balls(M, L, s, h, f) ==
    /\ f \in [0 .. h -> SUBSET M]
    /\ f[0] = {s} /\ \A i \in 1 .. h : f[i] = Wider(M, L, f[i - 1])

LEMMA BallDefined ==
    ASSUME NEW M, NEW L, NEW s \in M, NEW h \in Nat
    PROVE  \E f : Balls(M, L, s, h, f) /\ BallOf(M, L, s, h) = f[h]
  <1>. DEFINE next == [i \in 1 .. h |-> [B \in SUBSET M |-> Wider(M, L, B)]]
              made(f) == [i \in 0 .. h |-> IF i = 0 THEN {s} ELSE Wider(M, L, f[i - 1])]
              ball == CHOOSE f : f = made(f)
  <1>1. \A B \in SUBSET M : Wider(M, L, B) \in SUBSET M
    BY DEF Wider, NextTo
  <1>2. {s} \in SUBSET M /\ next \in [1 .. h -> [SUBSET M -> SUBSET M]]
    BY <1>1
  <1>3. PICK f \in [0 .. h -> SUBSET M] : Recursive(f, h, {s}, next)
    <2>. HIDE DEF next
    <2>. QED  BY <1>2, RecursionDefined
  <1>4. f[0] = {s} /\ \A i \in 1 .. h : f[i] = Wider(M, L, f[i - 1])
    <2>1. f[0] = {s} /\ \A i \in 1 .. h : f[i] = next[i][f[i - 1]]
      BY <1>3 DEF Recursive
    <2>2. \A i \in 1 .. h : f[i - 1] \in SUBSET M
      <3>. TAKE i \in 1 .. h
      <3>1. i - 1 \in 0 .. h
        OBVIOUS
      <3>. QED  BY <3>1
    <2>. QED  BY <2>1, <2>2
  <1>5. f = made(f)
    BY <1>4
  <1>6. BallOf(M, L, s, h) = ball[h]
    BY Zenon DEF BallOf
  <1>7. ball = made(ball)
    <2>. HIDE DEF made
    <2>. QED  BY <1>5
  <1>8. ball[0] = {s} /\ \A i \in 1 .. h : ball[i] = Wider(M, L, ball[i - 1])
    <2>. HIDE DEF ball
    <2>1. \A i \in 0 .. h : ball[i] = IF i = 0 THEN {s} ELSE Wider(M, L, ball[i - 1])
      BY <1>7
    <2>2. \A i \in 1 .. h : i \in 0 .. h /\ i # 0
      OBVIOUS
    <2>. HIDE DEF made
    <2>. QED  BY <2>1, <2>2
  <1>9. ball \in [0 .. h -> SUBSET M]
    <2>1. DOMAIN ball = 0 .. h /\ ball = [i \in 0 .. h |-> ball[i]]
      <3>. HIDE DEF ball
      <3>. QED  BY <1>7
    <2>. HIDE DEF ball
    <2>. DEFINE sound == {i \in Nat : i <= h => ball[i] \in SUBSET M}
    <2>2. 0 \in sound
      BY <1>2, <1>8
    <2>3. \A i \in sound : i + 1 \in sound
      <3>. SUFFICES ASSUME NEW i \in Nat, ball[i] \in SUBSET M, i + 1 <= h
                    PROVE  ball[i + 1] \in SUBSET M
        OBVIOUS
      <3>1. ball[i + 1] = Wider(M, L, ball[i])
        BY <1>8
      <3>. QED  BY <1>1, <3>1
    <2>4. sound = Nat
      <3>1. sound \in SUBSET Nat
        OBVIOUS
      <3>. HIDE DEF sound
      <3>. QED  BY <2>2, <2>3, <3>1, SetInduction
    <2>5. \A i \in 0 .. h : ball[i] \in SUBSET M
      BY <2>4
    <2>. QED  BY <2>1, <2>5
  <1>. HIDE DEF ball
  <1>. QED  BY <1>6, <1>8, <1>9 DEF Balls

BallLaws(M, L, s) ==
    /\ BallOf(M, L, s, 0) = {s}
    /\ \A h \in Nat : BallOf(M, L, s, h) \in SUBSET M
    /\ \A h \in Nat : BallOf(M, L, s, h + 1) = Wider(M, L, BallOf(M, L, s, h))

LEMMA BallSteps ==
    ASSUME NEW M, NEW L, NEW s \in M
    PROVE  BallLaws(M, L, s)
  <1>. DEFINE ball(h) == BallOf(M, L, s, h)
  <1>1. \A h \in Nat : \E f : Balls(M, L, s, h, f) /\ ball(h) = f[h]
    BY BallDefined
  <1>. HIDE DEF ball
  <1>2. ball(0) = {s}
    BY <1>1 DEF Balls
  <1>3. \A h \in Nat : ball(h) \in SUBSET M
    BY <1>1 DEF Balls
  <1>4. ASSUME NEW h \in Nat
        PROVE  ball(h + 1) = Wider(M, L, ball(h))
    <2>1. PICK f : Balls(M, L, s, h, f) /\ ball(h) = f[h]
      BY <1>1
    <2>2. h + 1 \in Nat
      OBVIOUS
    <2>3. PICK g : Balls(M, L, s, h + 1, g) /\ ball(h + 1) = g[h + 1]
      BY <1>1, <2>2
    <2>. DEFINE same == {i \in Nat : i <= h => f[i] = g[i]}
    <2>4. 0 \in same
      BY <2>1, <2>3 DEF Balls
    <2>5. \A i \in same : i + 1 \in same
      <3>. SUFFICES ASSUME NEW i \in Nat, f[i] = g[i], i + 1 <= h
                    PROVE  f[i + 1] = g[i + 1]
        OBVIOUS
      <3>1. i + 1 \in 1 .. h /\ i + 1 \in 1 .. h + 1 /\ i + 1 - 1 = i
        OBVIOUS
      <3>. QED  BY <2>1, <2>3, <3>1 DEF Balls
    <2>6. same = Nat
      <3>1. same \in SUBSET Nat
        OBVIOUS
      <3>. HIDE DEF same
      <3>. QED  BY <2>4, <2>5, <3>1, SetInduction
    <2>7. f[h] = g[h]
      BY <2>6
    <2>8. h + 1 \in 1 .. h + 1 /\ h + 1 - 1 = h
      OBVIOUS
    <2>9. g[h + 1] = Wider(M, L, g[h])
      BY <2>3, <2>8 DEF Balls
    <2>. QED  BY <2>1, <2>3, <2>7, <2>9
  <1>. QED  BY <1>2, <1>3, <1>4 DEF ball, BallLaws

\* A closed set that has the source has all balls.
LEMMA ClosedHasBalls ==
    ASSUME NEW M, NEW L, NEW s \in M, NEW C, s \in C, Wider(M, L, C) \subseteq C, NEW h \in Nat
    PROVE  BallOf(M, L, s, h) \subseteq C
  <1>. DEFINE inside == {i \in Nat : BallOf(M, L, s, i) \subseteq C}
  <1>0. BallLaws(M, L, s)
    BY BallSteps
  <1>1. 0 \in inside
    BY <1>0 DEF BallLaws
  <1>2. \A i \in inside : i + 1 \in inside
    <2>. SUFFICES ASSUME NEW i \in Nat, BallOf(M, L, s, i) \subseteq C
                  PROVE  BallOf(M, L, s, i + 1) \subseteq C
      OBVIOUS
    <2>1. BallOf(M, L, s, i + 1) = Wider(M, L, BallOf(M, L, s, i))
      BY <1>0 DEF BallLaws
    <2>. QED  BY <2>1 DEF Wider
  <1>3. inside = Nat
    <2>1. inside \in SUBSET Nat
      OBVIOUS
    <2>. HIDE DEF inside
    <2>. QED  BY <1>1, <1>2, <2>1, SetInduction
  <1>. QED  BY <1>3

\* A ball grows until it has all that is in reach, which takes fewer steps than
\* there are nodes.
LEMMA ReachClosed ==
    ASSUME NEW M \in SUBSET NodeIds, NEW L, NEW s \in M
    PROVE  LET reach == BallOf(M, L, s, Cardinality(NodeIds))
           IN  Wider(M, L, reach) = reach
  <1>. DEFINE ball(h) == BallOf(M, L, s, h)
              c == Cardinality(NodeIds)
              still(h) == \E j \in 0 .. h - 1 : ball(j + 1) = ball(j)
              counted == {h \in Nat : still(h) \/ Cardinality(ball(h)) >= h + 1}
  <1>1. /\ ball(0) = {s} /\ \A h \in Nat : ball(h) \in SUBSET M
        /\ \A h \in Nat : ball(h + 1) = Wider(M, L, ball(h))
    <2>1. BallLaws(M, L, s)
      BY BallSteps
    <2>. QED  BY <2>1 DEF BallLaws
  <1>. HIDE DEF ball
  <1>2. \A h \in Nat : IsFiniteSet(ball(h)) /\ Cardinality(ball(h)) \in Nat /\ Cardinality(ball(h)) <= c
    <2>. TAKE h \in Nat
    <2>1. ball(h) \in SUBSET NodeIds
      BY <1>1
    <2>. QED  BY <2>1, FS_Subset, FS_CardinalityType, TraversalsAssumption
  <1>3. c \in Nat
    BY FS_CardinalityType, TraversalsAssumption
  <1>. HIDE DEF c
  <1>4. 0 \in counted
    <2>1. Cardinality(ball(0)) = 1
      BY <1>1, FS_Singleton
    <2>. QED  BY <2>1
  <1>5. \A h \in counted : h + 1 \in counted
    <2>. SUFFICES ASSUME NEW h \in Nat, still(h) \/ Cardinality(ball(h)) >= h + 1, ~still(h + 1)
                  PROVE  Cardinality(ball(h + 1)) >= h + 2
      BY <1>2
    <2>1. ~still(h) /\ ball(h + 1) # ball(h)
      OBVIOUS
    <2>2. ball(h) \in SUBSET ball(h + 1)
      BY <1>1 DEF Wider
    <2>3. IsFiniteSet(ball(h + 1)) /\ Cardinality(ball(h + 1)) \in Nat /\ Cardinality(ball(h)) \in Nat
      BY <1>2
    <2>4. Cardinality(ball(h)) <= Cardinality(ball(h + 1)) /\ Cardinality(ball(h)) # Cardinality(ball(h + 1))
      BY <2>1, <2>2, <2>3, FS_Subset
    <2>5. Cardinality(ball(h)) >= h + 1
      BY <2>1
    <2>. QED  BY <2>3, <2>4, <2>5
  <1>6. counted = Nat
    <2>1. counted \in SUBSET Nat
      OBVIOUS
    <2>. HIDE DEF counted
    <2>. QED  BY <1>4, <1>5, <2>1, SetInduction
  <1>7. PICK j \in 0 .. c - 1 : ball(j + 1) = ball(j)
    BY <1>2, <1>3, <1>6
  <1>. DEFINE same == {i \in Nat : ball(j + i) = ball(j)}
  <1>8. 0 \in same
    <2>1. j + 0 = j
      BY <1>3
    <2>. QED  BY <2>1
  <1>9. \A i \in same : i + 1 \in same
    <2>. SUFFICES ASSUME NEW i \in Nat, ball(j + i) = ball(j)
                  PROVE  ball(j + (i + 1)) = ball(j)
      OBVIOUS
    <2>1. j \in Nat /\ j + i \in Nat /\ j + (i + 1) = (j + i) + 1
      BY <1>3
    <2>2. ball((j + i) + 1) = Wider(M, L, ball(j + i)) /\ ball(j + 1) = Wider(M, L, ball(j))
      BY <1>1, <2>1
    <2>. QED  BY <1>7, <2>1, <2>2
  <1>10. same = Nat
    <2>1. same \in SUBSET Nat
      OBVIOUS
    <2>. HIDE DEF same
    <2>. QED  BY <1>8, <1>9, <2>1, SetInduction
  <1>11. ball(c) = ball(j)
    <2>1. c - j \in Nat /\ j + (c - j) = c
      BY <1>3
    <2>2. c - j \in same
      BY <1>10, <2>1
    <2>. QED  BY <2>1, <2>2
  <1>12. Wider(M, L, ball(j)) = ball(j)
    BY <1>1, <1>3, <1>7
  <1>. QED  BY <1>11, <1>12 DEF ball, c

\* What is in reach, and in how many steps.
ReachOf(M, L, s) == BallOf(M, L, s, Cardinality(NodeIds))
StepsOf(M, L, s, n) ==
    CHOOSE h \in 0 .. Cardinality(NodeIds) :
        n \in BallOf(M, L, s, h) /\ \A i \in 0 .. h - 1 : n \notin BallOf(M, L, s, i)

\* The source is no step away, neighbours of a node at most one more, and every
\* other node is the neighbour of one that is a step nearer.
Distances(M, L, s) ==
    /\ ReachOf(M, L, s) \in SUBSET M
    /\ s \in ReachOf(M, L, s)
    /\ \A n \in ReachOf(M, L, s) :
         /\ StepsOf(M, L, s, n) \in 0 .. Cardinality(NodeIds)
         /\ StepsOf(M, L, s, n) = 0 <=> n = s
         /\ \A m \in NextTo(M, L, n) :
              m \in ReachOf(M, L, s) /\ StepsOf(M, L, s, m) <= StepsOf(M, L, s, n) + 1
         /\ n # s => \E p \in ReachOf(M, L, s) :
              n \in NextTo(M, L, p) /\ StepsOf(M, L, s, n) = StepsOf(M, L, s, p) + 1

LEMMA StepsDefined ==
    ASSUME NEW M \in SUBSET NodeIds, NEW L, NEW s \in M, NEW n \in ReachOf(M, L, s)
    PROVE  /\ StepsOf(M, L, s, n) \in 0 .. Cardinality(NodeIds)
           /\ \A h \in Nat : n \in BallOf(M, L, s, h) <=> StepsOf(M, L, s, n) <= h
  <1>. DEFINE ball(h) == BallOf(M, L, s, h)
              c == Cardinality(NodeIds)
              hits == {h \in Nat : n \in ball(h)}
              d == StepsOf(M, L, s, n)
  <1>1. \A h \in Nat : ball(h + 1) = Wider(M, L, ball(h))
    <2>1. BallLaws(M, L, s)
      BY BallSteps
    <2>. QED  BY <2>1 DEF BallLaws
  <1>2. c \in Nat /\ n \in ball(c)
    BY FS_CardinalityType, TraversalsAssumption DEF ReachOf
  <1>3. d = CHOOSE h \in 0 .. c : n \in ball(h) /\ \A i \in 0 .. h - 1 : n \notin ball(i)
    BY DEF StepsOf
  <1>. HIDE DEF ball, c, d
  <1>4. PICK h \in hits : \A i \in hits : h <= i
    BY <1>2, LeastNumber
  <1>5. h \in 0 .. c /\ n \in ball(h) /\ \A i \in 0 .. h - 1 : n \notin ball(i)
    BY <1>2, <1>4
  <1>6. d \in 0 .. c /\ n \in ball(d) /\ \A i \in 0 .. d - 1 : n \notin ball(i)
    BY <1>3, <1>5
  <1>. DEFINE kept == {i \in Nat : n \in ball(d + i)}
  <1>7. kept = Nat
    <2>1. 0 \in kept
      <3>1. d + 0 = d
        BY <1>2, <1>6
      <3>. QED  BY <1>6, <3>1
    <2>2. \A i \in kept : i + 1 \in kept
      <3>. SUFFICES ASSUME NEW i \in Nat, n \in ball(d + i)
                    PROVE  n \in ball(d + (i + 1))
        OBVIOUS
      <3>1. d + i \in Nat /\ d + (i + 1) = (d + i) + 1
        BY <1>2, <1>6
      <3>2. ball((d + i) + 1) = Wider(M, L, ball(d + i))
        BY <1>1, <3>1
      <3>. QED  BY <3>1, <3>2 DEF Wider
    <2>3. kept \in SUBSET Nat
      OBVIOUS
    <2>. HIDE DEF kept
    <2>. QED  BY <2>1, <2>2, <2>3, SetInduction
  <1>8. ASSUME NEW i \in Nat
        PROVE  n \in ball(i) <=> d <= i
    <2>1. CASE d <= i
      <3>1. i - d \in Nat /\ d + (i - d) = i
        BY <1>2, <1>6, <2>1
      <3>2. i - d \in kept
        BY <1>7, <3>1
      <3>. QED  BY <2>1, <3>1, <3>2
    <2>2. CASE ~(d <= i)
      <3>1. i \in 0 .. d - 1
        BY <1>2, <1>6, <2>2
      <3>. QED  BY <1>6, <2>2, <3>1
    <2>. QED  BY <2>1, <2>2
  <1>. QED  BY <1>6, <1>8 DEF ball, c, d

LEMMA DistancesHold ==
    ASSUME NEW M \in SUBSET NodeIds, NEW L, NEW s \in M
    PROVE  Distances(M, L, s)
  <1>. DEFINE reach == ReachOf(M, L, s)
              c == Cardinality(NodeIds)
              d(n) == StepsOf(M, L, s, n)
              ball(h) == BallOf(M, L, s, h)
  <1>1. /\ ball(0) = {s} /\ \A h \in Nat : ball(h) \in SUBSET M
        /\ \A h \in Nat : ball(h + 1) = Wider(M, L, ball(h))
    <2>1. BallLaws(M, L, s)
      BY BallSteps
    <2>. QED  BY <2>1 DEF BallLaws
  <1>2. c \in Nat /\ reach = ball(c)
    BY FS_CardinalityType, TraversalsAssumption DEF ReachOf
  <1>3. Wider(M, L, reach) = reach
    BY ReachClosed DEF ReachOf
  <1>4. \A n \in reach : d(n) \in 0 .. c
    BY StepsDefined
  <1>5. \A n \in reach : \A h \in Nat : n \in ball(h) <=> d(n) <= h
    BY StepsDefined
  <1>6. \A h \in Nat : ball(h) \in SUBSET reach
    <2>1. s \in reach
      <3>. DEFINE having == {h \in Nat : s \in ball(h)}
      <3>1. 0 \in having /\ \A h \in having : h + 1 \in having
        <4>. HIDE DEF ball
        <4>. QED  BY <1>1 DEF Wider
      <3>2. having \in SUBSET Nat
        OBVIOUS
      <3>3. having = Nat
        <4>. HIDE DEF having
        <4>. QED  BY <3>1, <3>2, SetInduction
      <3>. QED  BY <1>2, <3>3
    <2>. QED  BY <1>3, <2>1, ClosedHasBalls
  <1>. HIDE DEF reach, c, d, ball
  <1>7. s \in reach
    BY <1>1, <1>6
  <1>8. reach \in SUBSET M
    BY <1>1, <1>2
  <1>9. \A n \in reach : d(n) = 0 <=> n = s
    <2>. TAKE n \in reach
    <2>1. n \in ball(0) <=> d(n) <= 0
      BY <1>5
    <2>2. d(n) \in Nat
      BY <1>2, <1>4
    <2>. QED  BY <1>1, <2>1, <2>2
  <1>10. ASSUME NEW n \in reach, NEW m \in NextTo(M, L, n)
         PROVE  m \in reach /\ d(m) <= d(n) + 1
    <2>1. m \in reach
      BY <1>3 DEF Wider
    <2>2. d(n) \in Nat /\ d(n) + 1 \in Nat /\ d(n) <= d(n)
      BY <1>2, <1>4
    <2>3. n \in ball(d(n))
      BY <1>5, <2>2
    <2>4. ball(d(n) + 1) = Wider(M, L, ball(d(n)))
      BY <1>1, <2>2
    <2>5. m \in ball(d(n) + 1)
      BY <2>3, <2>4 DEF Wider
    <2>. QED  BY <1>5, <2>1, <2>2, <2>5
  <1>11. ASSUME NEW n \in reach, n # s
         PROVE  \E p \in reach : n \in NextTo(M, L, p) /\ d(n) = d(p) + 1
    <2>. DEFINE e == d(n) - 1
    <2>1. e \in Nat /\ d(n) = e + 1 /\ d(n) \in Nat
      BY <1>2, <1>4, <1>9, <1>11
    <2>. HIDE DEF e
    <2>2. n \in ball(e + 1) /\ n \notin ball(e)
      BY <1>5, <2>1
    <2>3. ball(e + 1) = Wider(M, L, ball(e))
      BY <1>1, <2>1
    <2>4. PICK p \in ball(e) : n \in NextTo(M, L, p)
      BY <2>2, <2>3 DEF Wider
    <2>5. p \in reach
      BY <1>6, <2>1, <2>4
    <2>6. d(p) <= e /\ d(p) \in Nat
      BY <1>2, <1>4, <1>5, <2>1, <2>4, <2>5
    <2>7. d(n) <= d(p) + 1
      BY <1>10, <2>4, <2>5
    <2>8. d(n) = d(p) + 1
      BY <2>1, <2>6, <2>7
    <2>. QED  BY <2>4, <2>5, <2>8
  <1>12. ASSUME NEW n \in reach
         PROVE  /\ d(n) \in 0 .. c
                /\ d(n) = 0 <=> n = s
                /\ \A m \in NextTo(M, L, n) : m \in reach /\ d(m) <= d(n) + 1
                /\ n # s => \E p \in reach : n \in NextTo(M, L, p) /\ d(n) = d(p) + 1
    BY <1>4, <1>9, <1>10, <1>11
  <1>. QED  BY <1>7, <1>8, <1>12 DEF Distances, reach, c, d, ball

LEMMA BallOfSteps ==
    ASSUME NEW M \in SUBSET NodeIds, NEW L, NEW s \in M, NEW h \in Nat
    PROVE  BallOf(M, L, s, h) = {n \in ReachOf(M, L, s) : StepsOf(M, L, s, n) <= h}
  <1>1. \A n \in ReachOf(M, L, s) : n \in BallOf(M, L, s, h) <=> StepsOf(M, L, s, n) <= h
    BY StepsDefined
  <1>2. s \in ReachOf(M, L, s)
    BY DistancesHold DEF Distances
  <1>3. Wider(M, L, ReachOf(M, L, s)) = ReachOf(M, L, s)
    BY ReachClosed DEF ReachOf
  <1>4. BallOf(M, L, s, h) \in SUBSET ReachOf(M, L, s)
    BY <1>2, <1>3, ClosedHasBalls
  <1>. QED  BY <1>1, <1>4

-----------------------------------------------------------------------------
\* Chains of parents

\* From every node of V a chain of parents leads to the root, which is the only one
\* at depth 0, by one less with every step.
Chained(parents, root, V, deep) ==
    /\ \A n \in V : deep[n] \in 0 .. Cardinality(NodeIds) /\ (deep[n] = 0 <=> n = root)
    /\ \A n \in V : n # root =>
         n \in DOMAIN parents /\ parents[n] \in V /\ deep[n] = deep[parents[n]] + 1

LEMMA AncestorSteps ==
    ASSUME NEW parents, NEW n
    PROVE  /\ Ancestor(parents, n)[0] = n
           /\ \A i \in 1 .. Cardinality(NodeIds) :
                LET child == Ancestor(parents, n)[i - 1]
                IN  Ancestor(parents, n)[i] = IF child \in DOMAIN parents THEN parents[child] ELSE child
  <1>. DEFINE c == Cardinality(NodeIds)
              T == {n} \cup DOMAIN parents \cup {parents[x] : x \in DOMAIN parents}
              above(x) == IF x \in DOMAIN parents THEN parents[x] ELSE x
              next == [i \in 1 .. c |-> [x \in T |-> above(x)]]
              made(f) == [i \in 0 .. c |-> IF i = 0 THEN n ELSE above(f[i - 1])]
              up == CHOOSE f : f = made(f)
  <1>1. c \in Nat
    BY FS_CardinalityType, TraversalsAssumption
  <1>2. Ancestor(parents, n) = up
    BY Zenon DEF Ancestor
  <1>. HIDE DEF c
  <1>3. n \in T /\ \A x \in T : above(x) \in T
    OBVIOUS
  <1>. HIDE DEF T, above
  <1>4. next \in [1 .. c -> [T -> T]]
    BY <1>3
  <1>5. PICK f \in [0 .. c -> T] : Recursive(f, c, n, next)
    <2>. HIDE DEF next
    <2>. QED  BY <1>1, <1>3, <1>4, RecursionDefined
  <1>6. \A i \in 1 .. c : f[i] = above(f[i - 1])
    <2>. TAKE i \in 1 .. c
    <2>1. i - 1 \in 0 .. c
      BY <1>1
    <2>2. f[i - 1] \in T /\ f[i] = next[i][f[i - 1]]
      BY <1>5, <2>1 DEF Recursive
    <2>. QED  BY <2>2
  <1>7. f = made(f)
    BY <1>1, <1>5, <1>6 DEF Recursive
  <1>8. up = made(up)
    <2>. HIDE DEF made
    <2>. QED  BY <1>7
  <1>9. up[0] = n /\ \A i \in 1 .. c : up[i] = above(up[i - 1])
    <2>. HIDE DEF up
    <2>. QED  BY <1>1, <1>8
  <1>. HIDE DEF up
  <1>. QED  BY <1>2, <1>9 DEF above, c

\* The i-th ancestor is i steps nearer to the root, and the path of ancestors is
\* as long as the node is deep.
PathOf(parents, root, V, deep, n, path) ==
    /\ path \in [1 .. deep[n] + 1 -> V]
    /\ path[1] = root /\ path[deep[n] + 1] = n
    /\ \A i \in 1 .. deep[n] : path[i + 1] \in DOMAIN parents /\ path[i + 1] # root /\ path[i] = parents[path[i + 1]]

LEMMA PathFound ==
    ASSUME NEW parents, NEW root, NEW V, NEW deep, Chained(parents, root, V, deep), NEW n \in V
    PROVE  /\ HopsTo(parents, root, n) = deep[n]
           /\ PathOf(parents, root, V, deep, n, PathTo(parents, root, n))
  <1>. DEFINE c == Cardinality(NodeIds)
              up == Ancestor(parents, n)
              d == deep[n]
              climbed == {i \in Nat : i <= d => up[i] \in V /\ deep[up[i]] = d - i}
  <1>1. up[0] = n /\ \A i \in 1 .. c : up[i] = IF up[i - 1] \in DOMAIN parents THEN parents[up[i - 1]] ELSE up[i - 1]
    BY AncestorSteps
  <1>2. c \in Nat /\ d \in 0 .. c
    BY FS_CardinalityType, TraversalsAssumption DEF Chained
  <1>3. /\ \A m \in V : deep[m] \in 0 .. c /\ (deep[m] = 0 <=> m = root)
        /\ \A m \in V : m # root => m \in DOMAIN parents /\ parents[m] \in V /\ deep[m] = deep[parents[m]] + 1
    BY DEF Chained
  <1>4. HopsTo(parents, root, n) = CHOOSE h \in 0 .. c : up[h] = root /\ \A i \in 0 .. h - 1 : up[i] # root
    BY DEF HopsTo
  <1>. HIDE DEF up, c
  <1>5. climbed = Nat
    <2>1. 0 \in climbed
      BY <1>1, <1>2
    <2>2. \A i \in climbed : i + 1 \in climbed
      <3>. SUFFICES ASSUME NEW i \in Nat, up[i] \in V, deep[up[i]] = d - i, i + 1 <= d
                    PROVE  up[i + 1] \in V /\ deep[up[i + 1]] = d - (i + 1)
        BY <1>2
      <3>1. i + 1 \in 1 .. c /\ i + 1 - 1 = i
        BY <1>2
      <3>2. up[i] # root
        BY <1>2, <1>3
      <3>3. up[i + 1] = parents[up[i]]
        BY <1>1, <1>3, <3>1, <3>2
      <3>4. up[i + 1] \in V /\ deep[up[i]] = deep[up[i + 1]] + 1
        BY <1>3, <3>2, <3>3
      <3>5. deep[up[i + 1]] \in Int
        BY <1>3, <3>4
      <3>. QED  BY <1>2, <3>4, <3>5
    <2>3. climbed \in SUBSET Nat
      OBVIOUS
    <2>. HIDE DEF climbed
    <2>. QED  BY <2>1, <2>2, <2>3, SetInduction
  <1>6. \A i \in 0 .. d : up[i] \in V /\ deep[up[i]] = d - i /\ (up[i] = root <=> i = d)
    <2>. TAKE i \in 0 .. d
    <2>1. i \in climbed /\ i <= d
      BY <1>2, <1>5
    <2>2. up[i] \in V /\ deep[up[i]] = d - i
      BY <2>1
    <2>. QED  BY <1>2, <1>3, <2>2
  <1>. HIDE DEF d
  <1>7. HopsTo(parents, root, n) = d
    <2>. DEFINE first(h) == up[h] = root /\ \A i \in 0 .. h - 1 : up[i] # root
    <2>1. d \in 0 .. c /\ first(d)
      BY <1>2, <1>6
    <2>2. ASSUME NEW h \in 0 .. c, first(h)
          PROVE  h = d
      <3>1. CASE h < d
        BY <1>2, <1>6, <2>2, <3>1
      <3>2. CASE h > d
        <4>1. d \in 0 .. h - 1
          BY <1>2, <3>2
        <4>2. up[d] = root
          BY <2>1
        <4>. QED  BY <2>2, <4>1, <4>2
      <3>. QED  BY <1>2, <3>1, <3>2
    <2>3. HopsTo(parents, root, n) = CHOOSE h \in 0 .. c : first(h)
      BY <1>4
    <2>. HIDE DEF first
    <2>. QED  BY <2>1, <2>2, <2>3
  <1>. DEFINE path == PathTo(parents, root, n)
  <1>8. path = [i \in 1 .. d + 1 |-> up[d + 1 - i]]
    BY <1>7 DEF PathTo, up
  <1>. HIDE DEF path
  <1>9. \A i \in 1 .. d + 1 : d + 1 - i \in 0 .. d
    BY <1>2
  <1>10. path \in [1 .. d + 1 -> V]
    BY <1>6, <1>8, <1>9
  <1>11. path[1] = root /\ path[d + 1] = n
    <2>1. 1 \in 1 .. d + 1 /\ d + 1 \in 1 .. d + 1 /\ d + 1 - 1 = d /\ d + 1 - (d + 1) = 0 /\ d \in 0 .. d
      BY <1>2
    <2>. QED  BY <1>1, <1>6, <1>8, <2>1
  <1>12. \A i \in 1 .. d : path[i + 1] \in DOMAIN parents /\ path[i + 1] # root /\ path[i] = parents[path[i + 1]]
    <2>. TAKE i \in 1 .. d
    <2>. DEFINE j == d - i
    <2>1. j \in 0 .. d - 1 /\ d + 1 - (i + 1) = j /\ d + 1 - i = j + 1 /\ j + 1 \in 1 .. c /\ j + 1 - 1 = j
      BY <1>2
    <2>2. i \in 1 .. d + 1 /\ i + 1 \in 1 .. d + 1
      BY <1>2
    <2>. HIDE DEF j
    <2>3. path[i + 1] = up[j] /\ path[i] = up[j + 1]
      BY <1>8, <2>1, <2>2
    <2>4. up[j] \in V /\ up[j] # root
      BY <1>2, <1>6, <2>1
    <2>5. up[j + 1] = parents[up[j]] /\ up[j] \in DOMAIN parents
      BY <1>1, <1>3, <2>1, <2>4
    <2>. QED  BY <2>3, <2>4, <2>5
  <1>. QED  BY <1>7, <1>10, <1>11, <1>12 DEF PathOf, d, path

-----------------------------------------------------------------------------
\* Right answers

NearOf(M, L, s) == [n \in ReachOf(M, L, s) |-> NextTo(M, L, n)]
DepthOf(M, L, s) == [n \in ReachOf(M, L, s) |-> StepsOf(M, L, s, n)]

\* A way of so many steps.
Way(M, L, s, t, deep, nodes) ==
    /\ nodes \in Seq(M) /\ Len(nodes) = deep + 1
    /\ nodes[1] = s /\ nodes[deep + 1] = t
    /\ \A i \in 1 .. deep : nodes[i + 1] \in NextTo(M, L, nodes[i])

\* Correct, and more: each node once, and a way as short as there is.
Right(M, L, req, answer) ==
    LET deep == DepthOf(M, L, req.source)
    IN  IF req.source \notin M THEN answer = NoSource
        ELSE /\ answer = Found(answer.nodes)
             /\ IF req.mode = "SHORTEST_PATH"
                THEN IF req.target \in DOMAIN deep
                     THEN Way(M, L, req.source, req.target, deep[req.target], answer.nodes)
                     ELSE answer.nodes = << >>
                ELSE /\ answer.nodes \in Seq(M) /\ Distinct(answer.nodes)
                     /\ Range(answer.nodes) =
                          {n \in DOMAIN deep : req.mode = "KHOP" => deep[n] <= req.k}

-----------------------------------------------------------------------------
\* The inductive invariant.  d is the depth of a node, or of an index, and near has
\* its neighbours.

\* The parents of what has been seen lead to the source, each a step nearer.
Tree(d, near, s, seen, up) ==
    /\ s \in seen /\ seen \subseteq DOMAIN d /\ DOMAIN up \subseteq seen
    /\ \A n \in seen \ {s} :
         n \in DOMAIN up /\ up[n] \in seen /\ n \in near[up[n]] /\ d[n] = d[up[n]] + 1

\* What has been seen has been visited or waits, once.
Listing(seen, queue, order) ==
    /\ Distinct(order) /\ Distinct(queue) /\ Range(order) \cap Range(queue) = {}
    /\ seen = Range(order) \cup Range(queue)

\* The nodes come by depth: all that are no deeper than the one being visited have
\* been seen, and none that is deeper than its neighbours.
ByDepth(d, s, seen, queue, order, todo, at) ==
    /\ \A i, j \in DOMAIN queue : i < j => d[queue[i]] <= d[queue[j]]
    /\ order = << >> => queue = <<s>> /\ todo = << >>
    /\ order # << >> =>
         /\ at \in Range(order)
         /\ \A n \in seen : d[n] <= d[at] + 1
         /\ \A n \in DOMAIN d \ seen : d[n] > d[at]
         /\ \A n \in Range(queue) : d[n] >= d[at]

\* The neighbours of the visited have been seen, but for those still to visit.
Expanded(near, seen, order, todo, at) ==
    /\ \A n \in Range(order) : \A m \in near[n] : m \in seen \/ (n = at /\ m \in Range(todo))
    /\ todo # << >> => Range(todo) \subseteq near[at]

Live(d, near, s, seen, up, queue, order, todo, at) ==
    /\ Tree(d, near, s, seen, up)
    /\ Listing(seen, queue, order)
    /\ ByDepth(d, s, seen, queue, order, todo, at)
    /\ Expanded(near, seen, order, todo, at)

\* All of the depths up to one, and only they, have been seen ...
BetweenLayers(d, layer_, seen, frontier) ==
    /\ seen = {i \in DOMAIN d : d[i] <= layer_}
    /\ Range(frontier) = {i \in DOMAIN d : d[i] = layer_}

\* ... and in the middle of one, some of the next.
InLayer(d, near, layer_, seen, frontier, next, toExpand, todo, at) ==
    /\ Range(frontier) = {i \in DOMAIN d : d[i] = layer_}
    /\ Range(next) \subseteq {i \in DOMAIN d : d[i] = layer_ + 1}
    /\ seen = {i \in DOMAIN d : d[i] <= layer_} \cup Range(next)
    /\ Range(toExpand) \subseteq Range(frontier)
    /\ todo # << >> => at \in Range(frontier) /\ Range(todo) \subseteq near[at]
    /\ \A i \in Range(frontier) \ Range(toExpand) :
         \A j \in near[i] : j \in seen \/ (i = at /\ j \in Range(todo))

\* The graph in indexes.
NodeOf(M) == [i \in 0 .. Cardinality(M) - 1 |-> Ascending(M)[i + 1]]
IndexDepth(M, L, s) ==
    [i \in {j \in DOMAIN NodeOf(M) : NodeOf(M)[j] \in ReachOf(M, L, s)} |-> StepsOf(M, L, s, NodeOf(M)[i])]
IndexNear(M, L, s) ==
    [i \in DOMAIN IndexDepth(M, L, s) |-> {j \in DOMAIN NodeOf(M) : NodeOf(M)[j] \in NextTo(M, L, NodeOf(M)[i])}]

GraphInv == GraphOK /\ upward \in BOOLEAN /\ request \in Requests

LiveTypes ==
    /\ visited \subseteq members /\ DOMAIN parent \subseteq visited
    /\ visitQueue \in Seq(members) /\ visitOrder \in Seq(members) /\ neighbours \in Seq(members)

LiveInv ==
    /\ pc = "start" =>
         /\ visited = {} /\ parent = EmptyMap
         /\ visitQueue = << >> /\ visitOrder = << >> /\ neighbours = << >>
    /\ pc = "live" =>
         /\ request.source \in members
         /\ Live(DepthOf(members, links, request.source), NearOf(members, links, request.source),
                 request.source, visited, parent, visitQueue, visitOrder, neighbours, current)
    /\ pc \in {"map", "layer", "expand", "done"} => Right(members, links, request, live)

SnapshotTypes ==
    /\ visited_ \subseteq DOMAIN csrToNode /\ DOMAIN parent_ \subseteq visited_
    /\ frontier_ \in Seq(DOMAIN csrToNode) /\ next_frontier_ \in Seq(DOMAIN csrToNode)
    /\ layer \in Seq(DOMAIN csrToNode) /\ row \in Seq(DOMAIN csrToNode)
    /\ found \in BOOLEAN /\ depth \in Nat

AtLayer(d, near, req, step, seen, frontier, next, toExpand, todo, at, count, l) ==
    /\ req.mode = "KHOP" => count = l
    /\ step = "layer" =>
         BetweenLayers(d, l, seen, frontier) /\ todo = << >> /\ (req.mode = "KHOP" => l <= req.k)
    /\ step = "expand" =>
         InLayer(d, near, l, seen, frontier, next, toExpand, todo, at) /\ (req.mode = "KHOP" => l < req.k)

Searching(M, L, req, step, seen, up, frontier, next, toExpand, todo, at, isFound, count) ==
    LET s == Rank(M, req.source) - 1
        d == IndexDepth(M, L, req.source)
        near == IndexNear(M, L, req.source)
    IN  /\ req.source \in M /\ (req.mode = "SHORTEST_PATH" => req.target \in M)
        /\ Tree(d, near, s, seen, up)
        /\ isFound => req.mode = "SHORTEST_PATH" /\ Rank(M, req.target) - 1 \in seen
        /\ ~isFound => \E l \in Nat :
             AtLayer(d, near, req, step, seen, frontier, next, toExpand, todo, at, count, l)

SnapshotInv ==
    /\ pc \in {"start", "live", "map"} =>
         /\ visited_ = {} /\ parent_ = EmptyMap /\ frontier_ = << >> /\ next_frontier_ = << >>
         /\ layer = << >> /\ row = << >> /\ found = FALSE /\ depth = 0
    /\ pc \in {"layer", "expand"} =>
         Searching(members, links, request, pc, visited_, parent_, frontier_, next_frontier_, layer, row,
                   current, found, depth)
    /\ pc = "done" => Right(members, links, request, snapshot)

SearchInv ==
    /\ pc \in {"start", "live", "map", "layer", "expand", "done"}
    /\ GraphInv /\ LiveTypes /\ LiveInv /\ SnapshotTypes /\ SnapshotInv

-----------------------------------------------------------------------------
\* Depths, of nodes and of indexes

Metric(d, near, s) ==
    /\ near \in [DOMAIN d -> SUBSET DOMAIN d] /\ s \in DOMAIN d
    /\ \A n \in DOMAIN d : d[n] \in 0 .. Cardinality(NodeIds) /\ (d[n] = 0 <=> n = s)
    /\ \A n \in DOMAIN d : \A m \in near[n] : d[m] <= d[n] + 1
    /\ \A n \in DOMAIN d : n # s => \E p \in DOMAIN d : n \in near[p] /\ d[n] = d[p] + 1

LEMMA NodeMetric ==
    ASSUME NEW M \in SUBSET NodeIds, NEW L, NEW s \in M
    PROVE  Metric(DepthOf(M, L, s), NearOf(M, L, s), s)
  <1>. DEFINE reach == ReachOf(M, L, s)
              d == DepthOf(M, L, s)
              near == NearOf(M, L, s)
  <1>1. Distances(M, L, s)
    BY DistancesHold
  <1>2. DOMAIN d = reach /\ \A n \in reach : d[n] = StepsOf(M, L, s, n)
    BY DEF DepthOf
  <1>3. DOMAIN near = reach /\ \A n \in reach : near[n] = NextTo(M, L, n)
    BY DEF NearOf
  <1>4. near = [n \in reach |-> near[n]]
    BY <1>3 DEF NearOf
  <1>. HIDE DEF d, near
  <1>5. \A n \in reach : near[n] \in SUBSET reach
    BY <1>1, <1>3 DEF Distances
  <1>6. near \in [reach -> SUBSET reach]
    BY <1>4, <1>5
  <1>7. s \in reach /\ \A n \in reach : d[n] \in 0 .. Cardinality(NodeIds) /\ (d[n] = 0 <=> n = s)
    BY <1>1, <1>2 DEF Distances
  <1>8. \A n \in reach : \A m \in near[n] : d[m] <= d[n] + 1
    BY <1>1, <1>2, <1>3 DEF Distances
  <1>9. \A n \in reach : n # s => \E p \in reach : n \in near[p] /\ d[n] = d[p] + 1
    BY <1>1, <1>2, <1>3 DEF Distances
  <1>. QED  BY <1>2, <1>6, <1>7, <1>8, <1>9 DEF Metric, d, near

\* What has the source and is closed has everything.
LEMMA ClosedHasAll ==
    ASSUME NEW d, NEW near, NEW s, Metric(d, near, s), NEW C, s \in C,
           \A n \in C \cap DOMAIN d : near[n] \subseteq C
    PROVE  DOMAIN d \subseteq C
  <1>. SUFFICES ASSUME DOMAIN d \ C # {}
                PROVE  FALSE
    OBVIOUS
  <1>. DEFINE missed == {d[n] : n \in DOMAIN d \ C}
  <1>1. missed \in SUBSET Nat /\ missed # {}
    BY DEF Metric
  <1>2. PICK x \in missed : \A y \in missed : x <= y
    <2>. HIDE DEF missed
    <2>. QED  BY <1>1, LeastNumber
  <1>3. PICK n \in DOMAIN d \ C : \A m \in DOMAIN d \ C : d[n] <= d[m]
    BY <1>2
  <1>4. PICK p \in DOMAIN d : n \in near[p] /\ d[n] = d[p] + 1
    BY <1>3 DEF Metric
  <1>5. d[p] \in Nat /\ d[n] \in Nat
    BY <1>3, <1>4 DEF Metric
  <1>. QED  BY <1>3, <1>4, <1>5

LEMMA TreeIsChained ==
    ASSUME NEW d, NEW near, NEW s, Metric(d, near, s), NEW seen, NEW up, Tree(d, near, s, seen, up)
    PROVE  Chained(up, s, seen, d)
  BY DEF Metric, Tree, Chained

LEMMA TreeGrows ==
    ASSUME NEW d, NEW near, NEW s, Metric(d, near, s), NEW seen, NEW up, Tree(d, near, s, seen, up),
           NEW at \in seen, NEW n \in near[at], n \notin seen, d[n] = d[at] + 1
    PROVE  Tree(d, near, s, seen \cup {n}, Put(up, n, at))
  <1>1. n \in DOMAIN d
    BY DEF Metric, Tree
  <1>2. DOMAIN Put(up, n, at) = DOMAIN up \cup {n}
    BY DEF Put
  <1>3. \A m \in DOMAIN up \cup {n} : Put(up, n, at)[m] = IF m = n THEN at ELSE up[m]
    BY DEF Put
  <1>. QED  BY <1>1, <1>2, <1>3 DEF Tree

-----------------------------------------------------------------------------
\* The search of the live graph

LEMMA LiveStarts ==
    ASSUME NEW d, NEW near, NEW s, Metric(d, near, s), NEW at
    PROVE  Live(d, near, s, {s}, EmptyMap, <<s>>, << >>, << >>, at)
  <1>1. Range(<<s>>) = {s} /\ Range(<< >>) = {} /\ DOMAIN <<s>> = {1} /\ DOMAIN << >> = {}
    BY DEF Range
  <1>2. Tree(d, near, s, {s}, EmptyMap)
    BY DEF Tree, EmptyMap, Metric
  <1>3. Listing({s}, <<s>>, << >>)
    BY <1>1 DEF Listing, Distinct
  <1>4. ByDepth(d, s, {s}, <<s>>, << >>, << >>, at)
    BY <1>1 DEF ByDepth
  <1>5. Expanded(near, {s}, << >>, << >>, at)
    BY <1>1 DEF Expanded
  <1>. QED  BY <1>2, <1>3, <1>4, <1>5 DEF Live

LEMMA HeadAndTail ==
    ASSUME NEW S, NEW q \in Seq(S), q # << >>
    PROVE  /\ Head(q) \in Range(q) /\ Tail(q) \in Seq(S)
           /\ Range(q) = {Head(q)} \cup Range(Tail(q))
           /\ Distinct(q) => Distinct(Tail(q)) /\ Head(q) \notin Range(Tail(q))
  <1>. DEFINE t == Tail(q)
  <1>1. Len(q) \in Nat \ {0} /\ DOMAIN q = 1 .. Len(q) /\ Head(q) = q[1]
    BY EmptySeq, LenProperties
  <1>2. t \in Seq(S) /\ Len(t) = Len(q) - 1 /\ \A i \in 1 .. Len(t) : t[i] = q[i + 1]
    BY HeadTailProperties
  <1>3. DOMAIN t = 1 .. Len(q) - 1
    BY <1>2, LenProperties
  <1>. HIDE DEF t
  <1>4. \A i \in DOMAIN t : i + 1 \in DOMAIN q /\ i + 1 # 1 /\ t[i] = q[i + 1]
    BY <1>1, <1>2, <1>3
  <1>5. \A i \in DOMAIN q : i = 1 \/ (i - 1 \in DOMAIN t /\ t[i - 1] = q[i])
    BY <1>1, <1>2, <1>3
  <1>6. Range(q) = {q[1]} \cup Range(t)
    <2>1. Range(t) \subseteq Range(q)
      BY <1>4 DEF Range
    <2>2. q[1] \in Range(q)
      BY <1>1 DEF Range
    <2>3. Range(q) \subseteq {q[1]} \cup Range(t)
      BY <1>5 DEF Range
    <2>. QED  BY <2>1, <2>2, <2>3
  <1>7. ASSUME Distinct(q)
        PROVE  Distinct(t) /\ q[1] \notin Range(t)
    <2>1. \A i, j \in DOMAIN t : t[i] = t[j] => i = j
      <3>. TAKE i, j \in DOMAIN t
      <3>1. i + 1 = j + 1 => i = j
        BY <1>3
      <3>. QED  BY <1>4, <1>7, <3>1 DEF Distinct
    <2>2. \A i \in DOMAIN t : t[i] # q[1]
      BY <1>1, <1>4, <1>7 DEF Distinct
    <2>. QED  BY <2>1, <2>2 DEF Distinct, Range
  <1>. QED  BY <1>1, <1>2, <1>6, <1>7 DEF t

LEMMA Appended ==
    ASSUME NEW S, NEW q \in Seq(S), NEW x \in S
    PROVE  /\ Append(q, x) \in Seq(S) /\ Append(q, x) # << >>
           /\ Range(Append(q, x)) = Range(q) \cup {x}
           /\ \A i \in DOMAIN Append(q, x) : (i = Len(q) + 1 /\ Append(q, x)[i] = x)
                                          \/ (i \in DOMAIN q /\ Append(q, x)[i] = q[i])
  <1>. DEFINE u == Append(q, x)
              n == Len(q)
  <1>1. n \in Nat /\ DOMAIN q = 1 .. n
    BY LenProperties
  <1>2. /\ u \in Seq(S) /\ u # << >> /\ Len(u) = n + 1 /\ DOMAIN u = 1 .. Len(u)
        /\ \A i \in 1 .. n : u[i] = q[i]
        /\ u[n + 1] = x
    BY AppendProperties, LenProperties
  <1>. HIDE DEF u, n
  <1>3. \A i \in DOMAIN u : (i = n + 1 /\ u[i] = x) \/ (i \in DOMAIN q /\ u[i] = q[i])
    BY <1>1, <1>2
  <1>4. n + 1 \in DOMAIN u /\ DOMAIN q \subseteq DOMAIN u
    BY <1>1, <1>2
  <1>5. Range(u) = Range(q) \cup {x}
    BY <1>1, <1>2, <1>3, <1>4 DEF Range
  <1>. QED  BY <1>2, <1>3, <1>5 DEF u, n

\* The next node is visited: no unseen node is as near, as it would have been found
\* from one nearer still, and those have all been visited.
LEMMA LiveDequeues ==
    ASSUME NEW d, NEW near, NEW s, Metric(d, near, s),
           NEW S, NEW seen, NEW up, NEW queue \in Seq(S), NEW order \in Seq(S), NEW at,
           Live(d, near, s, seen, up, queue, order, << >>, at), queue # << >>,
           NEW todo, Range(todo) = near[Head(queue)]
    PROVE  Live(d, near, s, seen, up, Tail(queue), Append(order, Head(queue)), todo, Head(queue))
  <1>. DEFINE n == Head(queue)
              rest == Tail(queue)
              order2 == Append(order, n)
  <1>1. Tree(d, near, s, seen, up) /\ Listing(seen, queue, order)
    BY DEF Live
  <1>2. /\ n \in Range(queue) /\ rest \in Seq(S) /\ Range(queue) = {n} \cup Range(rest)
        /\ Distinct(rest) /\ n \notin Range(rest)
    BY <1>1, HeadAndTail DEF Listing
  <1>3. n \in S /\ n \in seen /\ n \notin Range(order) /\ Distinct(order)
    BY <1>1, <1>2, RangeOfSeq DEF Listing
  <1>4. /\ order2 \in Seq(S) /\ order2 # << >> /\ Range(order2) = Range(order) \cup {n} /\ Distinct(order2)
    BY <1>3, Appended, AppendDistinct
  <1>5. \A i \in DOMAIN rest : i + 1 \in DOMAIN queue /\ rest[i] = queue[i + 1] /\ i \in Nat
    <2>1. Len(queue) \in Nat /\ DOMAIN queue = 1 .. Len(queue)
      BY LenProperties
    <2>2. Len(rest) = Len(queue) - 1 /\ \A i \in 1 .. Len(rest) : rest[i] = queue[i + 1]
      BY HeadTailProperties
    <2>3. DOMAIN rest = 1 .. Len(rest)
      BY <1>2, LenProperties
    <2>. HIDE DEF rest
    <2>. QED  BY <2>1, <2>2, <2>3
  <1>6. \A i, j \in DOMAIN queue : i < j => d[queue[i]] <= d[queue[j]]
    BY DEF Live, ByDepth
  <1>7. \A m \in Range(queue) : d[n] <= d[m]
    <2>1. 1 \in DOMAIN queue /\ n = queue[1] /\ \A i \in DOMAIN queue : i = 1 \/ 1 < i
      BY EmptySeq, LenProperties
    <2>2. d[n] \in Nat
      BY <1>1, <1>3 DEF Tree, Metric
    <2>. HIDE DEF n
    <2>. QED  BY <1>6, <2>1, <2>2 DEF Range
  <1>8. \A m \in DOMAIN d : d[m] \in Nat /\ (d[m] = 0 <=> m = s)
    BY DEF Metric
  <1>9. s \in seen /\ seen \subseteq DOMAIN d /\ n \in DOMAIN d
    BY <1>1, <1>3 DEF Tree
  <1>10. order = << >> \/ order # << >>
    OBVIOUS
  <1>11. CASE order = << >>
    <2>1. queue = <<s>>
      BY <1>11 DEF Live, ByDepth
    <2>2. n = s /\ Range(queue) = {s} /\ Range(order) = {}
      BY <1>11, <2>1 DEF Range
    <2>3. seen = {s}
      BY <1>1, <2>2 DEF Listing
    <2>. HIDE DEF n, rest, order2
    <2>4. d[n] = 0 /\ Range(rest) = {}
      BY <1>2, <1>8, <1>9, <2>2
    <2>5. \A m \in DOMAIN d \ seen : d[m] > d[n]
      BY <1>8, <2>3, <2>4
    <2>6. \A m \in seen : d[m] <= d[n] + 1
      BY <1>8, <2>2, <2>3, <2>4
    <2>7. \A m \in Range(order2) : m = n
      BY <1>4, <2>2
    <2>8. Listing(seen, rest, order2)
      BY <1>1, <1>2, <1>3, <1>4, <2>4 DEF Listing
    <2>9. ByDepth(d, s, seen, rest, order2, todo, n)
      <3>1. DOMAIN rest = {}
        BY <2>4 DEF Range
      <3>. QED  BY <1>4, <2>4, <2>5, <2>6, <3>1 DEF ByDepth
    <2>10. Expanded(near, seen, order2, todo, n)
      BY <2>7 DEF Expanded, n
    <2>. QED  BY <1>1, <2>8, <2>9, <2>10 DEF Live, n, rest, order2
  <1>12. CASE order # << >>
    <2>1. /\ at \in Range(order)
          /\ \A m \in seen : d[m] <= d[at] + 1
          /\ \A m \in DOMAIN d \ seen : d[m] > d[at]
          /\ \A m \in Range(queue) : d[m] >= d[at]
      BY <1>12 DEF Live, ByDepth
    <2>2. \A m \in Range(order) : near[m] \subseteq seen
      <3>1. Range(<< >>) = {}
        BY DEF Range
      <3>. QED  BY <3>1 DEF Live, Expanded
    <2>. HIDE DEF n, rest, order2
    <2>3. at \in seen /\ d[at] \in Nat /\ d[n] \in Nat
      BY <1>1, <1>8, <1>9, <2>1 DEF Listing
    <2>4. d[n] >= d[at] /\ d[n] <= d[at] + 1
      BY <1>2, <1>3, <2>1
    <2>5. ASSUME NEW m \in DOMAIN d \ seen
          PROVE  d[m] > d[n]
      <3>1. d[m] > d[at] /\ d[m] \in Nat
        BY <1>8, <2>1
      <3>2. ASSUME d[m] = d[n], d[n] = d[at] + 1
            PROVE  FALSE
        <4>1. PICK p \in DOMAIN d : m \in near[p] /\ d[m] = d[p] + 1
          BY <1>9 DEF Metric
        <4>2. d[p] = d[at]
          BY <1>8, <2>3, <3>2, <4>1
        <4>3. p \in seen /\ p \notin Range(queue)
          BY <1>7, <2>1, <2>3, <3>2, <4>1, <4>2
        <4>4. p \in Range(order)
          BY <1>1, <4>3 DEF Listing
        <4>. QED  BY <2>2, <4>1, <4>4
      <3>. QED  BY <2>3, <2>4, <3>1, <3>2
    <2>6. \A m \in seen : d[m] <= d[n] + 1
      BY <1>8, <1>9, <2>1, <2>3, <2>4
    <2>7. \A m \in Range(rest) : d[m] >= d[n]
      BY <1>1, <1>2, <1>7, <1>8, <1>9, <2>3 DEF Listing
    <2>8. \A i, j \in DOMAIN rest : i < j => d[rest[i]] <= d[rest[j]]
      <3>. TAKE i, j \in DOMAIN rest
      <3>1. i < j => i + 1 < j + 1
        BY <1>5
      <3>. QED  BY <1>5, <1>6, <3>1
    <2>9. Listing(seen, rest, order2)
      BY <1>1, <1>2, <1>3, <1>4 DEF Listing
    <2>10. ByDepth(d, s, seen, rest, order2, todo, n)
      BY <1>4, <2>5, <2>6, <2>7, <2>8 DEF ByDepth
    <2>11. Expanded(near, seen, order2, todo, n)
      BY <1>4, <2>2 DEF Expanded, n
    <2>. QED  BY <1>1, <2>9, <2>10, <2>11 DEF Live, n, rest, order2
  <1>. QED  BY <1>10, <1>11, <1>12

\* A neighbour that has been seen is passed over ...
LEMMA LivePasses ==
    ASSUME NEW d, NEW near, NEW s, NEW S, NEW seen, NEW up, NEW queue, NEW order, NEW todo \in Seq(S), NEW at,
           Live(d, near, s, seen, up, queue, order, todo, at), todo # << >>, Head(todo) \in seen
    PROVE  Live(d, near, s, seen, up, queue, order, Tail(todo), at)
  <1>1. Range(todo) = {Head(todo)} \cup Range(Tail(todo))
    BY HeadAndTail
  <1>2. order # << >>
    BY DEF Live, ByDepth
  <1>3. ByDepth(d, s, seen, queue, order, Tail(todo), at)
    BY <1>2 DEF Live, ByDepth
  <1>4. Expanded(near, seen, order, Tail(todo), at)
    BY <1>1 DEF Live, Expanded
  <1>. QED  BY <1>3, <1>4 DEF Live

\* ... and one that has not waits behind the others, none of which is deeper.
LEMMA LiveFinds ==
    ASSUME NEW d, NEW near, NEW s, Metric(d, near, s),
           NEW S, NEW seen, NEW up, NEW queue \in Seq(S), NEW order \in Seq(S), NEW todo \in Seq(S), NEW at,
           Live(d, near, s, seen, up, queue, order, todo, at), todo # << >>, Head(todo) \notin seen
    PROVE  Live(d, near, s, seen \cup {Head(todo)}, Put(up, Head(todo), at),
                Append(queue, Head(todo)), order, Tail(todo), at)
  <1>. DEFINE n == Head(todo)
              queue2 == Append(queue, n)
              seen2 == seen \cup {n}
  <1>1. n \in Range(todo) /\ Range(todo) = {n} \cup Range(Tail(todo)) /\ n \in S
    BY HeadAndTail, RangeOfSeq
  <1>2. /\ order # << >> /\ at \in Range(order)
        /\ \A m \in seen : d[m] <= d[at] + 1
        /\ \A m \in DOMAIN d \ seen : d[m] > d[at]
        /\ \A m \in Range(queue) : d[m] >= d[at]
        /\ \A i, j \in DOMAIN queue : i < j => d[queue[i]] <= d[queue[j]]
    BY DEF Live, ByDepth
  <1>3. Tree(d, near, s, seen, up) /\ Listing(seen, queue, order)
    BY DEF Live
  <1>4. at \in seen /\ at \in DOMAIN d /\ Range(queue) \subseteq seen /\ seen \subseteq DOMAIN d
    BY <1>2, <1>3 DEF Listing, Tree
  <1>5. n \in near[at] /\ n \in DOMAIN d /\ n \notin seen
    BY <1>1, <1>4 DEF Live, Expanded, Metric
  <1>6. /\ queue2 \in Seq(S) /\ Range(queue2) = Range(queue) \cup {n}
        /\ \A i \in DOMAIN queue2 : (i = Len(queue) + 1 /\ queue2[i] = n)
                                 \/ (i \in DOMAIN queue /\ queue2[i] = queue[i])
    BY <1>1, Appended
  <1>7. Distinct(queue2)
    BY <1>1, <1>3, <1>4, <1>5, AppendDistinct DEF Listing
  <1>8. Len(queue) \in Nat /\ DOMAIN queue = 1 .. Len(queue)
    BY LenProperties
  <1>9. \A m \in DOMAIN d : d[m] \in Nat
    BY DEF Metric
  <1>10. d[n] = d[at] + 1
    <2>1. d[n] <= d[at] + 1
      BY <1>4, <1>5 DEF Metric
    <2>. QED  BY <1>2, <1>4, <1>5, <1>9, <2>1
  <1>. HIDE DEF n, queue2
  <1>11. Tree(d, near, s, seen2, Put(up, n, at))
    BY <1>3, <1>4, <1>5, <1>10, TreeGrows
  <1>12. Listing(seen2, queue2, order)
    BY <1>3, <1>5, <1>6, <1>7 DEF Listing
  <1>13. \A i, j \in DOMAIN queue2 : i < j => d[queue2[i]] <= d[queue2[j]]
    <2>. SUFFICES ASSUME NEW i \in DOMAIN queue2, NEW j \in DOMAIN queue2, i < j
                  PROVE  d[queue2[i]] <= d[queue2[j]]
      OBVIOUS
    <2>1. CASE i \in DOMAIN queue /\ j \in DOMAIN queue /\ queue2[i] = queue[i] /\ queue2[j] = queue[j]
      BY <1>2, <2>1
    <2>2. CASE i \in DOMAIN queue /\ queue2[i] = queue[i] /\ j = Len(queue) + 1 /\ queue2[j] = n
      <3>1. queue[i] \in seen
        BY <1>4, <2>2 DEF Range
      <3>. QED  BY <1>2, <1>10, <2>2, <3>1
    <2>3. CASE i = Len(queue) + 1
      <3>1. FALSE
        BY <1>6, <1>8, <2>3
      <3>. QED  BY <3>1
    <2>. QED  BY <1>6, <1>8, <2>1, <2>2, <2>3
  <1>14. ByDepth(d, s, seen2, queue2, order, Tail(todo), at)
    <2>1. \A m \in seen2 : d[m] <= d[at] + 1
      BY <1>2, <1>4, <1>9, <1>10
    <2>2. \A m \in Range(queue2) : d[m] >= d[at]
      BY <1>2, <1>4, <1>6, <1>9, <1>10
    <2>. QED  BY <1>2, <1>13, <2>1, <2>2 DEF ByDepth
  <1>15. Expanded(near, seen2, order, Tail(todo), at)
    BY <1>1 DEF Live, Expanded
  <1>. QED  BY <1>11, <1>12, <1>14, <1>15 DEF Live, n, queue2

\* Nothing waits: everything in reach has been visited.
LEMMA LiveEnds ==
    ASSUME NEW d, NEW near, NEW s, Metric(d, near, s),
           NEW seen, NEW up, NEW order, NEW at,
           Live(d, near, s, seen, up, << >>, order, << >>, at)
    PROVE  Range(order) = DOMAIN d /\ seen = DOMAIN d /\ Distinct(order)
  <1>1. Range(<< >>) = {}
    BY DEF Range
  <1>2. Range(order) = seen /\ Distinct(order)
    BY <1>1 DEF Live, Listing
  <1>3. s \in seen /\ seen \subseteq DOMAIN d
    BY DEF Live, Tree
  <1>4. \A n \in seen : near[n] \subseteq seen
    BY <1>1, <1>2 DEF Live, Expanded
  <1>5. DOMAIN d \subseteq seen
    BY <1>3, <1>4, ClosedHasAll
  <1>. QED  BY <1>2, <1>3, <1>5

-----------------------------------------------------------------------------
\* Right answers are correct, and agree

LEMMA RequestKinds ==
    ASSUME NEW req \in Requests
    PROVE  /\ req.source \in NodeIds /\ req.mode \in {"REACHABLE", "SHORTEST_PATH", "KHOP"}
           /\ req.mode = "KHOP" => req.k \in Nat
  BY TraversalsAssumption DEF Requests

LEMMA AdjacentIsNext == \A n : Adjacent(n) = NextTo(members, links, n)
  BY DEF Adjacent, NextTo

LEMMA BallsByDepth ==
    ASSUME GraphOK, request.source \in members, NEW h \in Nat
    PROVE  LET d == DepthOf(members, links, request.source)
           IN  Within(h) = {n \in DOMAIN d : d[n] <= h} /\ Reachable = DOMAIN d
  <1>. DEFINE d == DepthOf(members, links, request.source)
              reach == ReachOf(members, links, request.source)
  <1>1. members \in SUBSET NodeIds
    BY DEF GraphOK
  <1>2. Within(h) = {n \in reach : StepsOf(members, links, request.source, n) <= h}
    BY <1>1, WithinIsBall, BallOfSteps
  <1>3. DOMAIN d = reach /\ \A n \in reach : d[n] = StepsOf(members, links, request.source, n)
    BY DEF DepthOf
  <1>4. Reachable = reach
    BY WithinIsBall DEF Reachable, ReachOf
  <1>. HIDE DEF d, reach
  <1>5. Within(h) = {n \in DOMAIN d : d[n] <= h}
    BY <1>2, <1>3
  <1>. QED  BY <1>3, <1>4, <1>5 DEF d

LEMMA RightIsCorrect ==
    ASSUME GraphInv, NEW answer, Right(members, links, request, answer)
    PROVE  Correct(answer)
  <1>. DEFINE d == DepthOf(members, links, request.source)
              nodes == answer.nodes
  <1>1. CASE request.source \notin members
    BY <1>1 DEF Right, Correct, NoSource
  <1>2. CASE request.source \in members
    <2>1. answer.success
      BY <1>2 DEF Right, Found
    <2>2. /\ request.mode = "SHORTEST_PATH" =>
               IF request.target \in DOMAIN d
               THEN Way(members, links, request.source, request.target, d[request.target], nodes)
               ELSE nodes = << >>
          /\ request.mode # "SHORTEST_PATH" =>
               Range(nodes) = {n \in DOMAIN d : request.mode = "KHOP" => d[n] <= request.k}
      BY <1>2 DEF Right
    <2>3. request.mode \in {"REACHABLE", "SHORTEST_PATH", "KHOP"} /\ (request.mode = "KHOP" => request.k \in Nat)
      BY RequestKinds DEF GraphInv
    <2>4. Reachable = DOMAIN d /\ \A h \in Nat : Within(h) = {n \in DOMAIN d : d[n] <= h}
      BY <1>2, BallsByDepth DEF GraphInv
    <2>5. \A n \in DOMAIN d : d[n] \in Nat
      <3>1. members \in SUBSET NodeIds
        BY DEF GraphInv, GraphOK
      <3>2. Metric(d, NearOf(members, links, request.source), request.source)
        BY <1>2, <3>1, NodeMetric
      <3>. HIDE DEF d
      <3>. QED  BY <3>2 DEF Metric
    <2>. HIDE DEF d
    <2>6. CASE request.mode = "REACHABLE"
      <3>1. Range(nodes) = Reachable
        BY <2>2, <2>4, <2>6
      <3>. QED  BY <1>2, <2>1, <2>6, <3>1 DEF Correct
    <2>7. CASE request.mode = "KHOP"
      <3>1. Range(nodes) = Within(request.k)
        BY <2>2, <2>3, <2>4, <2>7
      <3>. QED  BY <1>2, <2>1, <2>7, <3>1 DEF Correct
    <2>8. CASE request.mode = "SHORTEST_PATH" /\ request.target \notin Reachable
      <3>1. nodes = << >>
        BY <2>2, <2>4, <2>8
      <3>. QED  BY <1>2, <2>1, <2>8, <3>1 DEF Correct
    <2>9. CASE request.mode = "SHORTEST_PATH" /\ request.target \in Reachable
      <3>. DEFINE t == request.target
                  e == d[t]
      <3>1. Way(members, links, request.source, t, e, nodes)
        BY <2>2, <2>4, <2>9
      <3>2. e \in Nat /\ t \in DOMAIN d
        BY <2>4, <2>5, <2>9
      <3>3. IsPath(nodes)
        BY <3>1, <3>2, AdjacentIsNext DEF Way, IsPath
      <3>4. Len(nodes) = 1 \/ t \notin Within(Len(nodes) - 2)
        <4>1. Len(nodes) = e + 1
          BY <3>1 DEF Way
        <4>2. CASE e = 0
          BY <4>1, <4>2
        <4>3. CASE e # 0
          <5>1. e - 1 \in Nat /\ Len(nodes) - 2 = e - 1 /\ ~(e <= e - 1)
            BY <3>2, <4>1, <4>3
          <5>2. Within(e - 1) = {n \in DOMAIN d : d[n] <= e - 1}
            BY <2>4, <5>1
          <5>. QED  BY <5>1, <5>2
        <4>. QED  BY <4>2, <4>3
      <3>. QED  BY <1>2, <2>1, <2>9, <3>3, <3>4 DEF Correct
    <2>. QED  BY <2>3, <2>6, <2>7, <2>8, <2>9
  <1>. QED  BY <1>1, <1>2

LEMMA RightAgree ==
    ASSUME NEW M, NEW L, NEW req, NEW a, NEW b, Right(M, L, req, a), Right(M, L, req, b)
    PROVE  /\ a.success = b.success /\ Len(a.nodes) = Len(b.nodes)
           /\ req.mode # "SHORTEST_PATH" => Range(a.nodes) = Range(b.nodes)
  <1>. DEFINE d == DepthOf(M, L, req.source)
  <1>1. CASE req.source \notin M
    BY <1>1 DEF Right, NoSource
  <1>2. CASE req.source \in M
    <2>1. a = Found(a.nodes) /\ b = Found(b.nodes)
      BY <1>2 DEF Right
    <2>2. a.success = TRUE /\ b.success = TRUE
      <3>1. \A x : Found(x).success = TRUE
        BY DEF Found
      <3>. QED  BY <2>1, <3>1
    <2>3. CASE req.mode = "SHORTEST_PATH"
      <3>1. \/ Len(a.nodes) = d[req.target] + 1 /\ Len(b.nodes) = d[req.target] + 1
            \/ a.nodes = << >> /\ b.nodes = << >>
        BY <1>2, <2>3 DEF Right, Way
      <3>. QED  BY <2>2, <2>3, <3>1
    <2>4. CASE req.mode # "SHORTEST_PATH"
      <3>1. /\ a.nodes \in Seq(M) /\ Distinct(a.nodes) /\ b.nodes \in Seq(M) /\ Distinct(b.nodes)
            /\ Range(a.nodes) = Range(b.nodes)
        BY <1>2, <2>4 DEF Right
      <3>2. Len(a.nodes) = Len(b.nodes)
        BY <3>1, DistinctSize
      <3>. QED  BY <2>2, <3>1, <3>2
    <2>. QED  BY <2>3, <2>4
  <1>. QED  BY <1>1, <1>2

\* The path from the source to what has been seen.
LEMMA WayFound ==
    ASSUME NEW M \in SUBSET NodeIds, NEW L, NEW s \in M, NEW seen, NEW up, NEW t \in seen,
           Tree(DepthOf(M, L, s), NearOf(M, L, s), s, seen, up)
    PROVE  /\ HopsTo(up, s, t) = DepthOf(M, L, s)[t]
           /\ Way(M, L, s, t, DepthOf(M, L, s)[t], PathTo(up, s, t))
  <1>. DEFINE d == DepthOf(M, L, s)
              near == NearOf(M, L, s)
              path == PathTo(up, s, t)
              e == d[t]
  <1>1. Metric(d, near, s)
    BY NodeMetric
  <1>2. DOMAIN d = ReachOf(M, L, s) /\ ReachOf(M, L, s) \in SUBSET M
    BY DistancesHold DEF DepthOf, Distances
  <1>3. \A n \in DOMAIN d : near[n] = NextTo(M, L, n)
    BY DEF DepthOf, NearOf
  <1>. HIDE DEF d, near
  <1>4. HopsTo(up, s, t) = d[t] /\ PathOf(up, s, seen, d, t, path)
    BY <1>1, TreeIsChained, PathFound DEF d, near
  <1>5. Tree(d, near, s, seen, up)
    BY DEF d, near
  <1>. HIDE DEF path
  <1>6. e \in Nat /\ seen \subseteq M /\ seen \subseteq DOMAIN d
    BY <1>1, <1>2, <1>5 DEF Tree, Metric
  <1>7. /\ path \in [1 .. e + 1 -> seen] /\ path[1] = s /\ path[e + 1] = t
        /\ \A i \in 1 .. e : path[i + 1] \in DOMAIN up /\ path[i + 1] # s /\ path[i] = up[path[i + 1]]
    BY <1>4 DEF PathOf
  <1>. HIDE DEF e
  <1>8. path \in [1 .. e + 1 -> M]
    BY <1>6, <1>7
  <1>9. path \in Seq(M) /\ Len(path) = e + 1
    BY <1>6, <1>8
  <1>10. \A i \in 1 .. e : path[i + 1] \in NextTo(M, L, path[i])
    <2>. TAKE i \in 1 .. e
    <2>1. path[i + 1] \in seen \ {s} /\ path[i] = up[path[i + 1]]
      BY <1>6, <1>7
    <2>2. up[path[i + 1]] \in seen /\ path[i + 1] \in near[up[path[i + 1]]]
      BY <1>5, <2>1 DEF Tree
    <2>. QED  BY <1>3, <1>6, <2>1, <2>2
  <1>11. Way(M, L, s, t, e, path)
    BY <1>7, <1>9, <1>10 DEF Way
  <1>. QED  BY <1>4, <1>11 DEF d, e, path

-----------------------------------------------------------------------------
\* The steps of the live search

LEMMA GraphStays ==
    ASSUME SearchInv, UNCHANGED graphVars
    PROVE  /\ members' = members /\ links' = links /\ upward' = upward /\ request' = request
           /\ GraphInv' /\ csrToNode' = csrToNode
  <1>1. members' = members /\ links' = links /\ upward' = upward /\ request' = request
    BY DEF graphVars
  <1>2. GraphInv'
    BY <1>1 DEF SearchInv, GraphInv, GraphOK
  <1>3. csrToNode' = csrToNode
    BY <1>1 DEF csrToNode
  <1>. QED  BY <1>1, <1>2, <1>3

\* While the live search runs the other has not begun ...
LEMMA SnapshotIdle ==
    ASSUME SearchInv, UNCHANGED <<graphVars, csrVars>>,
           pc \in {"start", "live"}, pc' \in {"live", "map"}
    PROVE  GraphInv' /\ SnapshotTypes' /\ SnapshotInv'
  <1>1. members' = members /\ links' = links /\ request' = request /\ GraphInv' /\ csrToNode' = csrToNode
    BY GraphStays
  <1>2. UNCHANGED <<visited_, parent_, frontier_, next_frontier_, layer, row, found, depth>>
    BY DEF csrVars
  <1>3. SnapshotTypes'
    BY <1>1, <1>2 DEF SearchInv, SnapshotTypes
  <1>4. SnapshotInv'
    BY <1>2 DEF SearchInv, SnapshotInv
  <1>. QED  BY <1>1, <1>3, <1>4

\* ... and while that one does, the live one has answered.
LEMMA LiveIdle ==
    ASSUME SearchInv, UNCHANGED <<graphVars, bfsVars, live>>,
           pc \in {"map", "layer", "expand"}, pc' \in {"map", "layer", "expand", "done"}
    PROVE  GraphInv' /\ LiveTypes' /\ LiveInv'
  <1>1. members' = members /\ links' = links /\ request' = request /\ GraphInv'
    BY GraphStays
  <1>2. UNCHANGED <<visited, parent, visitQueue, visitOrder, neighbours>> /\ live' = live
    BY DEF bfsVars
  <1>3. LiveTypes'
    BY <1>1, <1>2 DEF SearchInv, LiveTypes
  <1>4. Right(members, links, request, live)
    BY DEF SearchInv, LiveInv
  <1>5. LiveInv'
    BY <1>1, <1>2, <1>4 DEF LiveInv
  <1>. QED  BY <1>1, <1>3, <1>5

LEMMA SourceMetric ==
    ASSUME SearchInv, request.source \in members
    PROVE  LET d == DepthOf(members, links, request.source)
               near == NearOf(members, links, request.source)
           IN  /\ Metric(d, near, request.source) /\ DOMAIN d \in SUBSET members
               /\ \A n \in DOMAIN d : near[n] = Adjacent(n)
  <1>1. members \in SUBSET NodeIds
    BY DEF SearchInv, GraphInv, GraphOK
  <1>2. Distances(members, links, request.source)
    BY <1>1, DistancesHold
  <1>3. ReachOf(members, links, request.source) \in SUBSET members
    BY <1>2 DEF Distances
  <1>. QED  BY <1>1, <1>3, NodeMetric, AdjacentIsNext DEF DepthOf, NearOf

LEMMA StartLiveKeeps ==
    ASSUME SearchInv, StartLive
    PROVE  SearchInv'
  <1>1. UNCHANGED <<graphVars, csrVars>> /\ pc = "start" /\ pc' \in {"live", "map"}
    BY DEF StartLive
  <1>2. GraphInv' /\ SnapshotTypes' /\ SnapshotInv'
    BY <1>1, SnapshotIdle
  <1>3. members' = members /\ links' = links /\ request' = request
    BY <1>1, GraphStays
  <1>4. visited = {} /\ parent = EmptyMap /\ visitQueue = << >> /\ visitOrder = << >> /\ neighbours = << >>
    BY <1>1 DEF SearchInv, LiveInv
  <1>5. /\ parent' = EmptyMap /\ visitOrder' = << >> /\ neighbours' = << >>
    BY <1>4 DEF StartLive
  <1>6. DOMAIN EmptyMap = {} /\ << >> \in Seq(members)
    BY DEF EmptyMap
  <1>7. CASE request.source \in members
    <2>1. visited' = {request.source} /\ visitQueue' = <<request.source>> /\ pc' = "live"
      BY <1>7 DEF StartLive
    <2>2. LiveTypes'
      BY <1>3, <1>5, <1>6, <1>7, <2>1 DEF LiveTypes
    <2>3. Live(DepthOf(members, links, request.source), NearOf(members, links, request.source),
               request.source, {request.source}, EmptyMap, <<request.source>>, << >>, << >>, current')
      BY <1>7, SourceMetric, LiveStarts
    <2>4. LiveInv'
      BY <1>3, <1>5, <1>7, <2>1, <2>3 DEF LiveInv
    <2>. QED  BY <1>1, <1>2, <2>2, <2>4 DEF SearchInv
  <1>8. CASE request.source \notin members
    <2>1. live' = NoSource /\ pc' = "map" /\ visited' = {} /\ visitQueue' = << >>
      BY <1>4, <1>8 DEF StartLive
    <2>2. LiveTypes'
      BY <1>3, <1>5, <1>6, <2>1 DEF LiveTypes
    <2>3. Right(members, links, request, NoSource)
      BY <1>8 DEF Right
    <2>4. LiveInv'
      BY <1>3, <2>1, <2>3 DEF LiveInv
    <2>. QED  BY <1>1, <1>2, <2>2, <2>4 DEF SearchInv
  <1>. QED  BY <1>7, <1>8

LEMMA DequeueKeeps ==
    ASSUME SearchInv, Dequeue
    PROVE  SearchInv'
  <1>1. UNCHANGED <<graphVars, csrVars>> /\ pc = "live" /\ pc' = "live"
    BY DEF Dequeue
  <1>2. GraphInv' /\ SnapshotTypes' /\ SnapshotInv'
    BY <1>1, SnapshotIdle
  <1>3. members' = members /\ links' = links /\ request' = request
    BY <1>1, GraphStays
  <1>. DEFINE d == DepthOf(members, links, request.source)
              near == NearOf(members, links, request.source)
              s == request.source
              n == Head(visitQueue)
  <1>4. /\ neighbours = << >> /\ visitQueue # << >> /\ current' = n
        /\ visitQueue' = Tail(visitQueue) /\ visitOrder' = Append(visitOrder, n)
        /\ neighbours' = NeighbourIds(n) /\ visited' = visited /\ parent' = parent
    BY DEF Dequeue
  <1>5. /\ s \in members
        /\ Live(d, near, s, visited, parent, visitQueue, visitOrder, << >>, current)
    BY <1>1, <1>4 DEF SearchInv, LiveInv
  <1>6. /\ visited \subseteq members /\ DOMAIN parent \subseteq visited
        /\ visitQueue \in Seq(members) /\ visitOrder \in Seq(members)
    BY DEF SearchInv, LiveTypes
  <1>7. Metric(d, near, s) /\ DOMAIN d \in SUBSET members /\ \A m \in DOMAIN d : near[m] = Adjacent(m)
    BY <1>5, SourceMetric
  <1>. HIDE DEF d, near, s
  <1>8. n \in Range(visitQueue) /\ n \in members /\ n \in DOMAIN d /\ Tail(visitQueue) \in Seq(members)
    <2>1. n \in Range(visitQueue) /\ Tail(visitQueue) \in Seq(members)
      BY <1>4, <1>6, HeadAndTail
    <2>2. n \in visited /\ visited \subseteq DOMAIN d
      BY <1>5, <2>1 DEF Live, Listing, Tree
    <2>. QED  BY <1>6, <2>1, <2>2
  <1>9. NeighbourIds(n) \in Seq(members) /\ Range(NeighbourIds(n)) = near[n]
    BY <1>7, <1>8, NeighbourLists DEF SearchInv, GraphInv
  <1>10. Append(visitOrder, n) \in Seq(members)
    BY <1>6, <1>8, AppendProperties
  <1>11. Live(d, near, s, visited, parent, Tail(visitQueue), Append(visitOrder, n), NeighbourIds(n), n)
    BY <1>4, <1>5, <1>6, <1>7, <1>9, LiveDequeues
  <1>. HIDE DEF n
  <1>12. LiveTypes'
    BY <1>3, <1>4, <1>6, <1>8, <1>9, <1>10 DEF LiveTypes
  <1>13. Live(d, near, s, visited', parent', visitQueue', visitOrder', neighbours', current')
    BY <1>4, <1>11
  <1>14. LiveInv'
    BY <1>1, <1>3, <1>5, <1>13 DEF LiveInv, d, near, s
  <1>. QED  BY <1>1, <1>2, <1>12, <1>14 DEF SearchInv

LEMMA VisitNeighbourKeeps ==
    ASSUME SearchInv, VisitNeighbour
    PROVE  SearchInv'
  <1>1. UNCHANGED <<graphVars, csrVars>> /\ pc = "live" /\ pc' = "live"
    BY DEF VisitNeighbour
  <1>2. GraphInv' /\ SnapshotTypes' /\ SnapshotInv'
    BY <1>1, SnapshotIdle
  <1>3. members' = members /\ links' = links /\ request' = request
    BY <1>1, GraphStays
  <1>. DEFINE d == DepthOf(members, links, request.source)
              near == NearOf(members, links, request.source)
              s == request.source
              n == Head(neighbours)
  <1>4. /\ neighbours # << >> /\ current' = current /\ visitOrder' = visitOrder
        /\ neighbours' = Tail(neighbours)
        /\ IF n \in visited THEN UNCHANGED <<visited, parent, visitQueue>>
           ELSE /\ visited' = visited \cup {n} /\ parent' = Put(parent, n, current)
                /\ visitQueue' = Append(visitQueue, n)
    BY DEF VisitNeighbour, Enqueue
  <1>5. /\ s \in members
        /\ Live(d, near, s, visited, parent, visitQueue, visitOrder, neighbours, current)
    BY <1>1 DEF SearchInv, LiveInv
  <1>6. /\ visited \subseteq members /\ DOMAIN parent \subseteq visited
        /\ visitQueue \in Seq(members) /\ visitOrder \in Seq(members) /\ neighbours \in Seq(members)
    BY DEF SearchInv, LiveTypes
  <1>7. Metric(d, near, s)
    BY <1>5, SourceMetric
  <1>. HIDE DEF d, near, s
  <1>8. n \in members /\ Tail(neighbours) \in Seq(members)
    BY <1>4, <1>6, HeadTailProperties
  <1>9. DOMAIN Put(parent, n, current) = DOMAIN parent \cup {n}
    BY DEF Put
  <1>10. Append(visitQueue, n) \in Seq(members)
    BY <1>6, <1>8, AppendProperties
  <1>11. n \in visited =>
           Live(d, near, s, visited, parent, visitQueue, visitOrder, Tail(neighbours), current)
    BY <1>4, <1>5, <1>6, LivePasses
  <1>12. n \notin visited =>
           Live(d, near, s, visited \cup {n}, Put(parent, n, current), Append(visitQueue, n), visitOrder,
                Tail(neighbours), current)
    BY <1>4, <1>5, <1>6, <1>7, LiveFinds
  <1>. HIDE DEF n
  <1>13. LiveTypes'
    BY <1>3, <1>4, <1>6, <1>8, <1>9, <1>10 DEF LiveTypes
  <1>14. Live(d, near, s, visited', parent', visitQueue', visitOrder', neighbours', current')
    BY <1>4, <1>11, <1>12
  <1>15. LiveInv'
    BY <1>1, <1>3, <1>5, <1>14 DEF LiveInv, d, near, s
  <1>. QED  BY <1>1, <1>2, <1>13, <1>15 DEF SearchInv

LEMMA AnswerLiveKeeps ==
    ASSUME SearchInv, AnswerLive
    PROVE  SearchInv'
  <1>1. /\ UNCHANGED <<graphVars, csrVars>> /\ UNCHANGED bfsVars
        /\ pc = "live" /\ pc' = "map" /\ neighbours = << >> /\ visitQueue = << >>
    BY DEF AnswerLive
  <1>2. GraphInv' /\ SnapshotTypes' /\ SnapshotInv'
    BY <1>1, SnapshotIdle
  <1>3. members' = members /\ links' = links /\ request' = request
    BY <1>1, GraphStays
  <1>. DEFINE s == request.source
              d == DepthOf(members, links, s)
              near == NearOf(members, links, s)
              close == {n \in visited : HopsTo(parent, s, n) <= request.k}
  <1>4. /\ s \in members
        /\ Live(d, near, s, visited, parent, << >>, visitOrder, << >>, current)
    BY <1>1 DEF SearchInv, LiveInv
  <1>5. /\ visited \subseteq members /\ DOMAIN parent \subseteq visited
        /\ visitQueue \in Seq(members) /\ visitOrder \in Seq(members) /\ neighbours \in Seq(members)
        /\ members \in SUBSET NodeIds
    BY DEF SearchInv, LiveTypes, GraphInv, GraphOK
  <1>6. Range(visitOrder) = DOMAIN d /\ visited = DOMAIN d /\ Distinct(visitOrder)
    <2>1. Metric(d, near, s)
      BY <1>4, SourceMetric
    <2>. HIDE DEF d, near, s
    <2>. QED  BY <1>4, <2>1, LiveEnds
  <1>7. ASSUME NEW t \in visited
        PROVE  HopsTo(parent, s, t) = d[t] /\ Way(members, links, s, t, d[t], PathTo(parent, s, t))
    <2>1. Tree(d, near, s, visited, parent)
      BY <1>4 DEF Live
    <2>. QED  BY <1>4, <1>5, <2>1, WayFound
  <1>8. LiveTypes'
    BY <1>1, <1>3, <1>5 DEF bfsVars, LiveTypes
  <1>9. Right(members, links, request, live')
    <2>1. live' = Found(
             CASE request.mode = "REACHABLE" -> visitOrder
               [] request.mode = "SHORTEST_PATH" ->
                    IF request.target \in visited THEN PathTo(parent, s, request.target) ELSE << >>
               [] request.mode = "KHOP" -> Kept(visitOrder, close))
      BY DEF AnswerLive
    <2>2. request.mode \in {"REACHABLE", "SHORTEST_PATH", "KHOP"}
      BY RequestKinds DEF SearchInv, GraphInv
    <2>3. \A x : Found(x) = Found(Found(x).nodes) /\ Found(x).nodes = x
      BY DEF Found
    <2>4. ASSUME NEW nodes, live' = Found(nodes),
                 IF request.mode = "SHORTEST_PATH"
                 THEN IF request.target \in DOMAIN d
                      THEN Way(members, links, s, request.target, d[request.target], nodes)
                      ELSE nodes = << >>
                 ELSE /\ nodes \in Seq(members) /\ Distinct(nodes)
                      /\ Range(nodes) = {n \in DOMAIN d : request.mode = "KHOP" => d[n] <= request.k}
          PROVE  Right(members, links, request, live')
      <3>1. live' = Found((live').nodes) /\ (live').nodes = nodes
        BY <2>3, <2>4
      <3>. QED  BY <1>4, <2>4, <3>1 DEF Right
    <2>5. CASE request.mode = "REACHABLE"
      <3>1. live' = Found(visitOrder)
        BY <2>1, <2>5
      <3>2. Range(visitOrder) = {n \in DOMAIN d : request.mode = "KHOP" => d[n] <= request.k}
        BY <1>6, <2>5
      <3>. HIDE DEF d, s
      <3>. QED  BY <1>5, <1>6, <2>4, <2>5, <3>1, <3>2
    <2>6. CASE request.mode = "SHORTEST_PATH"
      <3>1. live' = Found(IF request.target \in visited THEN PathTo(parent, s, request.target) ELSE << >>)
        BY <2>1, <2>6
      <3>. HIDE DEF d, s
      <3>2. CASE request.target \in visited
        BY <1>6, <1>7, <2>4, <2>6, <3>1, <3>2
      <3>3. CASE request.target \notin visited
        BY <1>6, <2>4, <2>6, <3>1, <3>3
      <3>. QED  BY <3>2, <3>3
    <2>7. CASE request.mode = "KHOP"
      <3>1. live' = Found(Kept(visitOrder, close))
        BY <2>1, <2>7
      <3>2. /\ Kept(visitOrder, close) \in Seq(members) /\ Distinct(Kept(visitOrder, close))
            /\ Range(Kept(visitOrder, close)) = Range(visitOrder) \cap close
        BY <1>5, <1>6, KeptProperties
      <3>3. Range(visitOrder) \cap close = {n \in DOMAIN d : request.mode = "KHOP" => d[n] <= request.k}
        <4>. HIDE DEF d, s
        <4>. QED  BY <1>6, <1>7, <2>7 DEF close
      <3>. HIDE DEF d, s, close
      <3>. QED  BY <2>4, <2>7, <3>1, <3>2, <3>3
    <2>. QED  BY <2>2, <2>5, <2>6, <2>7
  <1>10. LiveInv'
    BY <1>1, <1>3, <1>9 DEF LiveInv
  <1>. QED  BY <1>1, <1>2, <1>8, <1>10 DEF SearchInv

-----------------------------------------------------------------------------
\* The graph in indexes

LEMMA Indexes ==
    ASSUME NEW M \in SUBSET NodeIds
    PROVE  /\ Cardinality(M) \in Nat
           /\ NodeOf(M) \in [0 .. Cardinality(M) - 1 -> M]
           /\ \A n \in M : Rank(M, n) - 1 \in 0 .. Cardinality(M) - 1 /\ NodeOf(M)[Rank(M, n) - 1] = n
           /\ \A i \in 0 .. Cardinality(M) - 1 : Rank(M, NodeOf(M)[i]) - 1 = i
  <1>. DEFINE c == Cardinality(M)
  <1>1. M \in SUBSET Nat /\ IsFiniteSet(M)
    BY FS_Subset, TraversalsAssumption
  <1>2. /\ c \in Nat /\ Ascending(M) \in [1 .. c -> M]
        /\ \A n \in M : Rank(M, n) \in 1 .. c /\ Ascending(M)[Rank(M, n)] = n
        /\ \A i \in 1 .. c : Rank(M, Ascending(M)[i]) = i
    BY <1>1, AscendingLists
  <1>3. DOMAIN NodeOf(M) = 0 .. c - 1 /\ \A i \in 0 .. c - 1 : NodeOf(M)[i] = Ascending(M)[i + 1]
    BY DEF NodeOf
  <1>. HIDE DEF c
  <1>4. \A i \in 0 .. c - 1 : i + 1 \in 1 .. c /\ i + 1 - 1 = i
    BY <1>2
  <1>5. \A i \in 0 .. c - 1 : NodeOf(M)[i] \in M /\ Rank(M, NodeOf(M)[i]) = i + 1
    BY <1>2, <1>3, <1>4
  <1>6. NodeOf(M) \in [0 .. c - 1 -> M]
    BY <1>3, <1>5 DEF NodeOf, c
  <1>7. \A n \in M : Rank(M, n) - 1 \in 0 .. c - 1 /\ NodeOf(M)[Rank(M, n) - 1] = n
    <2>. TAKE n \in M
    <2>1. Rank(M, n) \in 1 .. c /\ Ascending(M)[Rank(M, n)] = n
      BY <1>2
    <2>2. Rank(M, n) - 1 \in 0 .. c - 1 /\ Rank(M, n) - 1 + 1 = Rank(M, n)
      BY <1>2, <2>1
    <2>. QED  BY <1>3, <2>1, <2>2
  <1>8. \A i \in 0 .. c - 1 : Rank(M, NodeOf(M)[i]) - 1 = i
    BY <1>4, <1>5
  <1>. QED  BY <1>2, <1>6, <1>7, <1>8 DEF c

LEMMA IndexMetric ==
    ASSUME NEW M \in SUBSET NodeIds, NEW L, NEW s \in M
    PROVE  /\ Metric(IndexDepth(M, L, s), IndexNear(M, L, s), Rank(M, s) - 1)
           /\ \A n \in M : Rank(M, n) - 1 \in DOMAIN IndexDepth(M, L, s) <=> n \in DOMAIN DepthOf(M, L, s)
           /\ \A i \in DOMAIN IndexDepth(M, L, s) :
                /\ i \in DOMAIN NodeOf(M) /\ NodeOf(M)[i] \in DOMAIN DepthOf(M, L, s)
                /\ IndexDepth(M, L, s)[i] = DepthOf(M, L, s)[NodeOf(M)[i]]
                /\ IndexNear(M, L, s)[i] = {j \in DOMAIN NodeOf(M) : NodeOf(M)[j] \in NextTo(M, L, NodeOf(M)[i])}
  <1>. DEFINE nodeOf == NodeOf(M)
              index(n) == Rank(M, n) - 1
              D == DepthOf(M, L, s)
              d == IndexDepth(M, L, s)
              near == IndexNear(M, L, s)
              nearNode == NearOf(M, L, s)
              ixs == 0 .. Cardinality(M) - 1
  <1>1. /\ nodeOf \in [ixs -> M]
        /\ \A n \in M : index(n) \in ixs /\ nodeOf[index(n)] = n
        /\ \A i \in ixs : index(nodeOf[i]) = i
    BY Indexes
  <1>2. Metric(D, nearNode, s)
    BY NodeMetric
  <1>3. DOMAIN D = ReachOf(M, L, s) /\ \A n \in DOMAIN D : D[n] = StepsOf(M, L, s, n)
    BY DEF DepthOf
  <1>4. DOMAIN D \subseteq M
    BY <1>3, DistancesHold DEF Distances
  <1>5. DOMAIN d = {i \in ixs : nodeOf[i] \in DOMAIN D}
    <2>1. DOMAIN nodeOf = ixs
      BY <1>1
    <2>2. DOMAIN d = {i \in DOMAIN nodeOf : nodeOf[i] \in DOMAIN D}
      BY <1>3 DEF IndexDepth
    <2>. QED  BY <2>1, <2>2
  <1>6. \A i \in DOMAIN d : d[i] = D[nodeOf[i]]
    <2>1. \A i \in DOMAIN d : d[i] = StepsOf(M, L, s, nodeOf[i])
      BY DEF IndexDepth
    <2>. QED  BY <1>3, <1>5, <2>1
  <1>7. DOMAIN near = DOMAIN d /\ \A i \in DOMAIN d : near[i] = {j \in ixs : nodeOf[j] \in NextTo(M, L, nodeOf[i])}
    <2>1. DOMAIN nodeOf = ixs
      BY <1>1
    <2>2. DOMAIN near = DOMAIN d
          /\ \A i \in DOMAIN d : near[i] = {j \in DOMAIN nodeOf : nodeOf[j] \in NextTo(M, L, nodeOf[i])}
      BY DEF IndexNear
    <2>. HIDE DEF near, d, nodeOf, ixs
    <2>. QED  BY <2>1, <2>2
  <1>8. near = [i \in DOMAIN d |-> near[i]]
    BY DEF IndexNear
  <1>9. DOMAIN nearNode = DOMAIN D /\ \A n \in DOMAIN D : nearNode[n] = NextTo(M, L, n)
    BY <1>3 DEF NearOf
  <1>. HIDE DEF nodeOf, index, D, d, near, nearNode, ixs
  <1>10. \A i \in DOMAIN d : \A j \in near[i] : j \in DOMAIN d /\ nodeOf[j] \in nearNode[nodeOf[i]]
    <2>. SUFFICES ASSUME NEW i \in DOMAIN d, NEW j \in near[i]
                  PROVE  j \in DOMAIN d /\ nodeOf[j] \in nearNode[nodeOf[i]]
      OBVIOUS
    <2>1. j \in ixs /\ nodeOf[j] \in nearNode[nodeOf[i]] /\ nodeOf[i] \in DOMAIN D
      BY <1>5, <1>7, <1>9
    <2>2. nodeOf[j] \in DOMAIN D
      BY <1>2, <2>1 DEF Metric
    <2>. QED  BY <1>5, <2>1, <2>2
  <1>11. near \in [DOMAIN d -> SUBSET DOMAIN d]
    <2>1. \A i \in DOMAIN d : near[i] \in SUBSET DOMAIN d
      BY <1>10
    <2>. QED  BY <1>8, <2>1
  <1>12. \A n \in M : index(n) \in DOMAIN d <=> n \in DOMAIN D
    BY <1>1, <1>5
  <1>13. index(s) \in DOMAIN d
    <2>1. s \in DOMAIN D
      BY <1>2 DEF Metric
    <2>. QED  BY <1>12, <2>1
  <1>14. \A i \in DOMAIN d : d[i] \in 0 .. Cardinality(NodeIds) /\ (d[i] = 0 <=> i = index(s))
    <2>. TAKE i \in DOMAIN d
    <2>1. nodeOf[i] \in DOMAIN D /\ d[i] = D[nodeOf[i]] /\ i \in ixs
      BY <1>5, <1>6
    <2>2. D[nodeOf[i]] \in 0 .. Cardinality(NodeIds) /\ (D[nodeOf[i]] = 0 <=> nodeOf[i] = s)
      BY <1>2, <2>1 DEF Metric
    <2>3. nodeOf[i] = s <=> i = index(s)
      BY <1>1, <2>1
    <2>. QED  BY <2>1, <2>2, <2>3
  <1>15. \A i \in DOMAIN d : \A j \in near[i] : d[j] <= d[i] + 1
    <2>. SUFFICES ASSUME NEW i \in DOMAIN d, NEW j \in near[i]
                  PROVE  d[j] <= d[i] + 1
      OBVIOUS
    <2>1. j \in DOMAIN d /\ nodeOf[j] \in nearNode[nodeOf[i]] /\ nodeOf[i] \in DOMAIN D
      BY <1>5, <1>10
    <2>2. D[nodeOf[j]] <= D[nodeOf[i]] + 1
      BY <1>2, <2>1 DEF Metric
    <2>. QED  BY <1>6, <2>1, <2>2
  <1>16. \A i \in DOMAIN d : i # index(s) => \E p \in DOMAIN d : i \in near[p] /\ d[i] = d[p] + 1
    <2>. SUFFICES ASSUME NEW i \in DOMAIN d, i # index(s)
                  PROVE  \E p \in DOMAIN d : i \in near[p] /\ d[i] = d[p] + 1
      OBVIOUS
    <2>1. nodeOf[i] \in DOMAIN D /\ nodeOf[i] # s /\ i \in ixs
      BY <1>1, <1>5
    <2>2. PICK p \in DOMAIN D : nodeOf[i] \in nearNode[p] /\ D[nodeOf[i]] = D[p] + 1
      BY <1>2, <2>1 DEF Metric
    <2>3. index(p) \in DOMAIN d /\ nodeOf[index(p)] = p
      BY <1>1, <1>4, <1>12
    <2>4. i \in near[index(p)]
      BY <1>7, <1>9, <2>1, <2>2, <2>3
    <2>5. d[i] = d[index(p)] + 1
      BY <1>6, <2>2, <2>3
    <2>. QED  BY <2>3, <2>4, <2>5
  <1>17. Metric(d, near, index(s))
    BY <1>11, <1>13, <1>14, <1>15, <1>16 DEF Metric
  <1>18. \A i \in DOMAIN d : i \in DOMAIN nodeOf /\ nodeOf[i] \in DOMAIN D
    BY <1>1, <1>5
  <1>19. \A i \in DOMAIN d : near[i] = {j \in DOMAIN nodeOf : nodeOf[j] \in NextTo(M, L, nodeOf[i])}
    BY <1>1, <1>7
  <1>. QED  BY <1>6, <1>12, <1>17, <1>18, <1>19 DEF nodeOf, index, D, d, near

-----------------------------------------------------------------------------
\* Rows

\* Where rows begin, and the columns of the first i of them.
LEMMA OffsetsDefined ==
    ASSUME GraphOK
    PROVE  /\ row_offsets[0] = 0
           /\ \A i \in 1 .. Cardinality(members) :
                row_offsets[i] = row_offsets[i - 1] + Len(NeighbourIds(csrToNode[i - 1]))
           /\ \A i \in 0 .. Cardinality(members) : row_offsets[i] \in Nat
  <1>. DEFINE c == Cardinality(members)
              size(i) == Len(NeighbourIds(csrToNode[i - 1]))
              next == [i \in 1 .. c |-> [x \in Nat |-> x + size(i)]]
              made(f) == [i \in 0 .. c |-> IF i = 0 THEN 0 ELSE f[i - 1] + size(i)]
              upTo == CHOOSE f : f = made(f)
  <1>1. c \in Nat
    BY FS_CardinalityType, MembersFinite
  <1>2. \A i \in 1 .. c : size(i) \in Nat
    BY NeighbourLists, LenProperties
  <1>3. row_offsets = upTo
    BY Zenon DEF row_offsets
  <1>. HIDE DEF c, size
  <1>4. next \in [1 .. c -> [Nat -> Nat]]
    BY <1>2
  <1>5. PICK f \in [0 .. c -> Nat] : Recursive(f, c, 0, next)
    <2>. HIDE DEF next
    <2>. QED  BY <1>1, <1>4, RecursionDefined
  <1>6. \A i \in 1 .. c : f[i] = f[i - 1] + size(i)
    <2>. TAKE i \in 1 .. c
    <2>1. i - 1 \in 0 .. c
      BY <1>1
    <2>2. f[i - 1] \in Nat /\ f[i] = next[i][f[i - 1]]
      BY <1>5, <2>1 DEF Recursive
    <2>. QED  BY <2>2
  <1>7. f = made(f)
    BY <1>1, <1>5, <1>6 DEF Recursive
  <1>8. upTo = made(upTo)
    <2>. HIDE DEF made
    <2>. QED  BY <1>7
  <1>9. upTo[0] = 0 /\ \A i \in 1 .. c : upTo[i] = upTo[i - 1] + size(i)
    <2>. HIDE DEF upTo
    <2>. QED  BY <1>1, <1>8
  <1>. HIDE DEF upTo
  <1>. DEFINE numbers == {i \in Nat : i <= c => upTo[i] \in Nat}
  <1>10. numbers = Nat
    <2>1. 0 \in numbers
      BY <1>9
    <2>2. \A i \in numbers : i + 1 \in numbers
      <3>. SUFFICES ASSUME NEW i \in Nat, upTo[i] \in Nat, i + 1 <= c
                    PROVE  upTo[i + 1] \in Nat
        BY <1>1
      <3>1. i + 1 \in 1 .. c /\ i + 1 - 1 = i
        BY <1>1
      <3>2. upTo[i + 1] = upTo[i] + size(i + 1) /\ size(i + 1) \in Nat
        BY <1>2, <1>9, <3>1
      <3>. QED  BY <3>2
    <2>3. numbers \in SUBSET Nat
      OBVIOUS
    <2>. HIDE DEF numbers
    <2>. QED  BY <2>1, <2>2, <2>3, SetInduction
  <1>11. \A i \in 0 .. c : upTo[i] \in Nat
    BY <1>10
  <1>. QED  BY <1>3, <1>9, <1>11 DEF c, size

\* The row of an index, on its own.
RowAlone(i) ==
    [j \in 1 .. Len(NeighbourIds(csrToNode[i])) |-> nodeToCSR(NeighbourIds(csrToNode[i])[j])]

LEMMA RowAloneElements ==
    ASSUME GraphOK, NEW i \in DOMAIN NodeOf(members)
    PROVE  /\ RowAlone(i) \in Seq(DOMAIN NodeOf(members))
           /\ Len(RowAlone(i)) = Len(NeighbourIds(csrToNode[i]))
           /\ Range(RowAlone(i)) =
                {j \in DOMAIN NodeOf(members) : NodeOf(members)[j] \in NextTo(members, links, NodeOf(members)[i])}
  <1>. DEFINE nodeOf == NodeOf(members)
              n == nodeOf[i]
              ids == NeighbourIds(n)
              index(m) == Rank(members, m) - 1
              ixs == DOMAIN nodeOf
              r == RowAlone(i)
  <1>1. members \in SUBSET NodeIds
    BY DEF GraphOK
  <1>2. /\ nodeOf \in [ixs -> members]
        /\ \A m \in members : index(m) \in ixs /\ nodeOf[index(m)] = m
        /\ \A j \in ixs : index(nodeOf[j]) = j
    BY <1>1, Indexes
  <1>3. ids \in Seq(members) /\ Range(ids) = NextTo(members, links, n)
    BY NeighbourLists, AdjacentIsNext
  <1>4. Len(ids) \in Nat /\ DOMAIN ids = 1 .. Len(ids) /\ \A j \in 1 .. Len(ids) : ids[j] \in members
    BY <1>3, LenProperties, ElementOfSeq
  <1>5. csrToNode = nodeOf
    BY DEF csrToNode, NodeOf
  <1>6. r = [j \in 1 .. Len(ids) |-> nodeToCSR(ids[j])]
    BY <1>5 DEF RowAlone
  <1>7. \A m \in members : nodeToCSR(m) = index(m)
    BY DEF nodeToCSR, Mapped
  <1>. HIDE DEF nodeOf, n, ids, index, ixs, r
  <1>8. DOMAIN r = 1 .. Len(ids) /\ \A j \in 1 .. Len(ids) : r[j] = index(ids[j])
    BY <1>4, <1>6, <1>7
  <1>9. r \in [1 .. Len(ids) -> ixs]
    BY <1>2, <1>4, <1>6, <1>7
  <1>10. r \in Seq(ixs) /\ Len(r) = Len(ids)
    BY <1>4, <1>9
  <1>11. Range(r) = {j \in ixs : nodeOf[j] \in NextTo(members, links, n)}
    <2>1. ASSUME NEW x \in Range(r)
          PROVE  x \in ixs /\ nodeOf[x] \in Range(ids)
      <3>1. PICK j \in 1 .. Len(ids) : x = index(ids[j])
        BY <1>8 DEF Range
      <3>2. ids[j] \in members /\ ids[j] \in Range(ids)
        BY <1>4 DEF Range
      <3>. QED  BY <1>2, <3>1, <3>2
    <2>2. ASSUME NEW x \in ixs, nodeOf[x] \in Range(ids)
          PROVE  x \in Range(r)
      <3>1. PICK j \in 1 .. Len(ids) : ids[j] = nodeOf[x]
        BY <1>4, <2>2 DEF Range
      <3>2. r[j] = x
        BY <1>2, <1>8, <3>1
      <3>. QED  BY <1>8, <3>2 DEF Range
    <2>. QED  BY <1>3, <2>1, <2>2
  <1>12. csrToNode[i] = n
    BY <1>5 DEF n, nodeOf
  <1>. QED  BY <1>10, <1>11, <1>12 DEF nodeOf, n, ids, ixs, r

LEMMA ColumnsDefined ==
    ASSUME GraphOK
    PROVE  \E built :
             /\ built[0] = << >>
             /\ \A i \in 1 .. Cardinality(members) : built[i] = built[i - 1] \o RowAlone(i - 1)
             /\ columns = built[Cardinality(members)]
  <1>. DEFINE c == Cardinality(members)
              ixs == DOMAIN NodeOf(members)
              part(i) == RowAlone(i - 1)
              step(x, i) == x \o part(i)
              next == [i \in 1 .. c |-> [x \in Seq(ixs) |-> step(x, i)]]
              made(f) == [i \in 0 .. c |-> IF i = 0 THEN << >> ELSE step(f[i - 1], i)]
              upTo == CHOOSE f : f = made(f)
  <1>1. c \in Nat
    BY FS_CardinalityType, MembersFinite
  <1>2. \A i \in 1 .. c : part(i) \in Seq(ixs)
    <2>. TAKE i \in 1 .. c
    <2>1. DOMAIN NodeOf(members) = 0 .. c - 1
      BY DEF NodeOf
    <2>2. i - 1 \in DOMAIN NodeOf(members)
      BY <1>1, <2>1
    <2>. QED  BY <2>2, RowAloneElements
  <1>3. columns = upTo[c]
    BY Zenon DEF columns, RowAlone
  <1>. HIDE DEF c, part, ixs
  <1>10. << >> \in Seq(ixs) /\ \A i \in 1 .. c : \A x \in Seq(ixs) : step(x, i) \in Seq(ixs)
    BY <1>2, ConcatProperties, EmptySeq
  <1>. HIDE DEF step
  <1>4. next \in [1 .. c -> [Seq(ixs) -> Seq(ixs)]] /\ << >> \in Seq(ixs)
    BY <1>10
  <1>5. PICK f \in [0 .. c -> Seq(ixs)] : Recursive(f, c, << >>, next)
    <2>. HIDE DEF next
    <2>. QED  BY <1>1, <1>4, RecursionDefined
  <1>6. \A i \in 1 .. c : f[i] = step(f[i - 1], i)
    <2>. TAKE i \in 1 .. c
    <2>1. i - 1 \in 0 .. c
      BY <1>1
    <2>2. f[i - 1] \in Seq(ixs) /\ f[i] = next[i][f[i - 1]]
      BY <1>5, <2>1 DEF Recursive
    <2>. QED  BY <2>2
  <1>7. f = made(f)
    BY <1>1, <1>5, <1>6 DEF Recursive
  <1>8. upTo = made(upTo)
    <2>. HIDE DEF made
    <2>. QED  BY <1>7
  <1>9. upTo[0] = << >> /\ \A i \in 1 .. c : upTo[i] = step(upTo[i - 1], i)
    <2>. HIDE DEF upTo
    <2>. QED  BY <1>1, <1>8
  <1>. HIDE DEF upTo
  <1>. QED  BY <1>3, <1>9 DEF c, part, step

\* Between its offset and the next stands the row of an index, and nothing else.
LEMMA RowElements ==
    ASSUME GraphOK, NEW i \in DOMAIN NodeOf(members)
    PROVE  /\ Row(i) \in Seq(DOMAIN NodeOf(members))
           /\ Range(Row(i)) =
                {j \in DOMAIN NodeOf(members) : NodeOf(members)[j] \in NextTo(members, links, NodeOf(members)[i])}
  <1>. DEFINE c == Cardinality(members)
              ixs == DOMAIN NodeOf(members)
              off == row_offsets
              r == RowAlone(i)
  <1>1. c \in Nat /\ ixs = 0 .. c - 1 /\ i \in ixs
    BY FS_CardinalityType, MembersFinite DEF NodeOf
  <1>2. PICK built :
          /\ built[0] = << >>
          /\ \A j \in 1 .. c : built[j] = built[j - 1] \o RowAlone(j - 1)
          /\ columns = built[c]
    BY ColumnsDefined
  <1>3. /\ off[0] = 0 /\ \A j \in 0 .. c : off[j] \in Nat
        /\ \A j \in 1 .. c : off[j] = off[j - 1] + Len(NeighbourIds(csrToNode[j - 1]))
    BY OffsetsDefined
  <1>4. \A j \in ixs : RowAlone(j) \in Seq(ixs) /\ Len(RowAlone(j)) = Len(NeighbourIds(csrToNode[j]))
    BY RowAloneElements
  <1>5. Row(i) = SubSeq(columns, off[i] + 1, off[i + 1])
    BY DEF Row
  <1>. HIDE DEF c, ixs, off
  <1>. DEFINE Fits(k) == built[k] \in Seq(ixs) /\ Len(built[k]) = off[k]
              fitting == {k \in Nat : k <= c => Fits(k)}
  <1>6. ASSUME NEW k \in Nat, k + 1 <= c, Fits(k)
        PROVE  /\ Fits(k + 1) /\ off[k + 1] = off[k] + Len(RowAlone(k))
               /\ \A p \in 1 .. off[k + 1] :
                    built[k + 1][p] = IF p <= off[k] THEN built[k][p] ELSE RowAlone(k)[p - off[k]]
    <2>1. k + 1 \in 1 .. c /\ k + 1 - 1 = k /\ k \in ixs
      BY <1>1, <1>6
    <2>4. built[k + 1] = built[k] \o RowAlone(k)
      <3>. DEFINE j == k + 1
      <3>1. j \in 1 .. c /\ j - 1 = k
        BY <2>1
      <3>. HIDE DEF j
      <3>2. built[j] = built[j - 1] \o RowAlone(j - 1)
        BY <1>2, <3>1
      <3>. QED  BY Zenon, <3>1, <3>2 DEF j
    <2>5. off[k + 1] = off[k] + Len(NeighbourIds(csrToNode[k]))
      BY <1>3, <2>1
    <2>6. off[k + 1] = off[k] + Len(RowAlone(k))
      BY <1>4, <2>1, <2>5
    <2>2. built[k + 1] = built[k] \o RowAlone(k) /\ off[k + 1] = off[k] + Len(RowAlone(k))
      BY <2>4, <2>6
    <2>7. RowAlone(k) \in Seq(ixs)
      BY <1>4, <2>1
    <2>. QED  BY <1>6, <2>2, <2>7, ConcatProperties
  <1>7. fitting = Nat
    <2>1. 0 \in fitting
      BY <1>2, <1>3, EmptySeq
    <2>2. \A k \in fitting : k + 1 \in fitting
      <3>. HIDE DEF Fits
      <3>. SUFFICES ASSUME NEW k \in Nat, Fits(k), k + 1 <= c
                    PROVE  Fits(k + 1)
        BY <1>1
      <3>. QED  BY <1>6
    <2>3. fitting \in SUBSET Nat
      OBVIOUS
    <2>. HIDE DEF fitting
    <2>. QED  BY <2>1, <2>2, <2>3, SetInduction
  <1>8. \A k \in 0 .. c : Fits(k)
    BY <1>7
  <1>. HIDE DEF Fits
  \* Rows that come later leave it where it is.
  <1>. DEFINE Stands(m) == \A p \in 1 .. off[i + 1] : built[i + 1 + m][p] = built[i + 1][p]
              standing == {m \in Nat : i + 1 + m <= c => off[i + 1] <= off[i + 1 + m] /\ Stands(m)}
  <1>9. i \in Nat /\ i + 1 <= c /\ i \in 0 .. c /\ i + 1 \in 0 .. c
    BY <1>1
  <1>10. off[i] \in Nat /\ off[i + 1] \in Nat
    BY <1>3, <1>9
  <1>11. standing = Nat
    <2>1. 0 \in standing
      <3>1. i + 1 + 0 = i + 1
        BY <1>9
      <3>. QED  BY <1>10, <3>1
    <2>2. \A m \in standing : m + 1 \in standing
      <3>. SUFFICES ASSUME NEW m \in Nat, i + 1 + (m + 1) <= c, off[i + 1] <= off[i + 1 + m], Stands(m)
                    PROVE  off[i + 1] <= off[i + 1 + (m + 1)] /\ Stands(m + 1)
        BY <1>9, <1>1
      <3>. DEFINE k == i + 1 + m
      <3>1. k \in Nat /\ k + 1 <= c /\ i + 1 + (m + 1) = k + 1 /\ k \in 0 .. c /\ k + 1 \in 0 .. c /\ k \in ixs
        BY <1>1, <1>9
      <3>. HIDE DEF k
      <3>2. Fits(k)
        BY <1>8, <3>1
      <3>3. /\ off[k + 1] = off[k] + Len(RowAlone(k))
            /\ \A p \in 1 .. off[k + 1] :
                 built[k + 1][p] = IF p <= off[k] THEN built[k][p] ELSE RowAlone(k)[p - off[k]]
        BY <1>6, <3>1, <3>2
      <3>4. off[k] \in Nat /\ off[k + 1] \in Nat /\ Len(RowAlone(k)) \in Nat
        BY <1>3, <1>4, <3>1, LenProperties
      <3>5. off[i + 1] <= off[k] /\ \A p \in 1 .. off[i + 1] : built[k][p] = built[i + 1][p]
        BY DEF k
      <3>6. off[i + 1] <= off[k + 1]
        BY <1>10, <3>3, <3>4, <3>5
      <3>7. \A p \in 1 .. off[i + 1] : built[k + 1][p] = built[i + 1][p]
        BY <1>10, <3>3, <3>4, <3>5, <3>6
      <3>. QED  BY <3>1, <3>6, <3>7
    <2>3. standing \in SUBSET Nat
      OBVIOUS
    <2>. HIDE DEF standing
    <2>. QED  BY <2>1, <2>2, <2>3, SetInduction
  <1>12. \A p \in 1 .. off[i + 1] : columns[p] = built[i + 1][p]
    <2>1. c - (i + 1) \in standing /\ i + 1 + (c - (i + 1)) = c
      <3>1. c - (i + 1) \in Nat /\ i + 1 + (c - (i + 1)) = c
        BY <1>1, <1>9
      <3>. HIDE DEF standing
      <3>. QED  BY <1>11, <3>1
    <2>2. Stands(c - (i + 1))
      BY <1>1, <2>1
    <2>. QED  BY <1>2, <2>1, <2>2
  <1>13. /\ off[i + 1] = off[i] + Len(r) /\ Len(r) \in Nat /\ DOMAIN r = 1 .. Len(r)
         /\ \A p \in 1 .. off[i + 1] : built[i + 1][p] = IF p <= off[i] THEN built[i][p] ELSE r[p - off[i]]
         /\ r \in Seq(ixs)
    BY <1>4, <1>6, <1>8, <1>9, LenProperties DEF ixs
  <1>. HIDE DEF r
  <1>14. \A q \in 1 .. Len(r) : columns[off[i] + q] = r[q] /\ r[q] \in ixs
    <2>. TAKE q \in 1 .. Len(r)
    <2>1. off[i] + q \in 1 .. off[i + 1] /\ ~(off[i] + q <= off[i]) /\ off[i] + q - off[i] = q
      BY <1>10, <1>13
    <2>2. r[q] \in ixs
      BY <1>13, ElementOfSeq
    <2>3. columns[off[i] + q] = built[i + 1][off[i] + q]
      BY <1>12, <2>1
    <2>4. built[i + 1][off[i] + q] = r[q]
      <3>. DEFINE p == off[i] + q
      <3>1. p \in 1 .. off[i + 1] /\ ~(p <= off[i]) /\ p - off[i] = q
        BY <1>10, <1>13
      <3>. HIDE DEF p
      <3>2. built[i + 1][p] = r[q]
        BY <1>13, <3>1
      <3>. QED  BY <3>2 DEF p
    <2>. QED  BY <2>1, <2>2, <2>3, <2>4
  <1>. DEFINE a == off[i] + 1
              b == off[i + 1]
              cut == SubSeq(columns, a, b)
  <1>15. a \in Int /\ b \in Int /\ b - a + 1 = Len(r)
    BY <1>10, <1>13
  <1>16. \A p \in a .. b : columns[p] \in ixs
    <2>. TAKE p \in a .. b
    <2>1. p - off[i] \in 1 .. Len(r) /\ off[i] + (p - off[i]) = p
      BY <1>10, <1>13
    <2>. QED  BY <1>14, <2>1
  <1>. HIDE DEF a, b
  <1>17. /\ cut \in Seq(ixs) /\ Len(cut) = (IF a <= b THEN b - a + 1 ELSE 0)
         /\ \A q \in 1 .. b - a + 1 : cut[q] = columns[a + q - 1]
    BY <1>15, <1>16, SubSeqProperties
  <1>. HIDE DEF cut
  <1>18. Len(cut) = Len(r)
    BY <1>13, <1>15, <1>17
  <1>19. \A q \in 1 .. Len(r) : cut[q] = r[q]
    <2>. TAKE q \in 1 .. Len(r)
    <2>1. a + q - 1 = off[i] + q
      BY <1>10 DEF a
    <2>. QED  BY <1>14, <1>15, <1>17, <2>1
  <1>20. cut = r
    BY <1>13, <1>17, <1>18, <1>19, SeqEqual
  <1>21. Row(i) = r
    BY <1>5, <1>20 DEF a, b, cut
  <1>. QED  BY <1>13, <1>21, RowAloneElements DEF r, ixs

-----------------------------------------------------------------------------
\* The search of the snapshot, layer by layer

LEMMA LayersStart ==
    ASSUME NEW d, NEW near, NEW s, Metric(d, near, s)
    PROVE  Tree(d, near, s, {s}, Put(EmptyMap, s, s)) /\ BetweenLayers(d, 0, {s}, <<s>>)
  <1>1. s \in DOMAIN d /\ \A i \in DOMAIN d : d[i] \in Nat /\ (d[i] = 0 <=> i = s)
    BY DEF Metric
  <1>2. DOMAIN Put(EmptyMap, s, s) = {s}
    BY DEF Put, EmptyMap
  <1>3. Tree(d, near, s, {s}, Put(EmptyMap, s, s))
    BY <1>1, <1>2 DEF Tree
  <1>4. Range(<<s>>) = {s}
    BY DEF Range
  <1>5. {i \in DOMAIN d : d[i] <= 0} = {s} /\ {i \in DOMAIN d : d[i] = 0} = {s}
    BY <1>1
  <1>. QED  BY <1>3, <1>4, <1>5 DEF BetweenLayers

LEMMA LayerOpens ==
    ASSUME NEW d, NEW near, NEW l, NEW seen, NEW frontier, NEW at, BetweenLayers(d, l, seen, frontier)
    PROVE  InLayer(d, near, l, seen, frontier, << >>, frontier, << >>, at)
  <1>1. Range(<< >>) = {}
    BY DEF Range
  <1>. QED  BY <1>1 DEF BetweenLayers, InLayer

LEMMA NodeExpands ==
    ASSUME NEW d, NEW near, NEW l, NEW seen, NEW frontier, NEW next, NEW S, NEW toExpand \in Seq(S), NEW at,
           InLayer(d, near, l, seen, frontier, next, toExpand, << >>, at), toExpand # << >>,
           NEW todo, Range(todo) = near[Head(toExpand)]
    PROVE  InLayer(d, near, l, seen, frontier, next, Tail(toExpand), todo, Head(toExpand))
  <1>1. Range(toExpand) = {Head(toExpand)} \cup Range(Tail(toExpand))
    BY HeadAndTail
  <1>2. Range(<< >>) = {}
    BY DEF Range
  <1>. QED  BY <1>1, <1>2 DEF InLayer

LEMMA IndexPasses ==
    ASSUME NEW d, NEW near, NEW l, NEW seen, NEW frontier, NEW next, NEW toExpand, NEW S, NEW todo \in Seq(S),
           NEW at, InLayer(d, near, l, seen, frontier, next, toExpand, todo, at), todo # << >>,
           Head(todo) \in seen
    PROVE  InLayer(d, near, l, seen, frontier, next, toExpand, Tail(todo), at)
  <1>1. Range(todo) = {Head(todo)} \cup Range(Tail(todo))
    BY HeadAndTail
  <1>. QED  BY <1>1 DEF InLayer

LEMMA IndexFound ==
    ASSUME NEW d, NEW near, NEW s, Metric(d, near, s), NEW l \in Nat, NEW seen, NEW frontier,
           NEW S, NEW next \in Seq(S), NEW toExpand, NEW todo \in Seq(S), NEW at,
           InLayer(d, near, l, seen, frontier, next, toExpand, todo, at), todo # << >>,
           Head(todo) \notin seen
    PROVE  /\ at \in seen /\ Head(todo) \in near[at] /\ d[Head(todo)] = d[at] + 1
           /\ InLayer(d, near, l, seen \cup {Head(todo)}, frontier, Append(next, Head(todo)), toExpand,
                      Tail(todo), at)
  <1>. DEFINE i == Head(todo)
  <1>1. Range(todo) = {i} \cup Range(Tail(todo)) /\ i \in S
    BY HeadAndTail, RangeOfSeq
  <1>2. at \in Range(frontier) /\ i \in near[at]
    BY <1>1 DEF InLayer
  <1>3. at \in DOMAIN d /\ d[at] = l
    BY <1>2 DEF InLayer
  <1>4. i \in DOMAIN d /\ d[i] \in Nat /\ d[i] <= d[at] + 1
    BY <1>2, <1>3 DEF Metric
  <1>5. at \in seen
    BY <1>3 DEF InLayer
  <1>6. ~(d[i] <= l)
    BY <1>4 DEF InLayer
  <1>7. d[i] = l + 1
    BY <1>3, <1>4, <1>6
  <1>8. Range(Append(next, i)) = Range(next) \cup {i}
    BY <1>1, Appended
  <1>. HIDE DEF i
  <1>9. InLayer(d, near, l, seen \cup {i}, frontier, Append(next, i), toExpand, Tail(todo), at)
    <2>1. Range(Append(next, i)) \subseteq {j \in DOMAIN d : d[j] = l + 1}
      BY <1>4, <1>7, <1>8 DEF InLayer
    <2>2. seen \cup {i} = {j \in DOMAIN d : d[j] <= l} \cup Range(Append(next, i))
      BY <1>8 DEF InLayer
    <2>3. Tail(todo) # << >> => Range(Tail(todo)) \subseteq near[at]
      BY <1>1 DEF InLayer
    <2>4. \A n \in Range(frontier) \ Range(toExpand) :
             \A j \in near[n] : j \in seen \cup {i} \/ (n = at /\ j \in Range(Tail(todo)))
      BY <1>1 DEF InLayer
    <2>. QED  BY <1>2, <2>1, <2>2, <2>3, <2>4 DEF InLayer
  <1>. QED  BY <1>2, <1>3, <1>5, <1>7, <1>9 DEF i

\* Whatever is one deeper has a parent in the layer, which has been expanded.
LEMMA LayerCloses ==
    ASSUME NEW d, NEW near, NEW s, Metric(d, near, s), NEW l \in Nat, NEW seen, NEW frontier, NEW next, NEW at,
           InLayer(d, near, l, seen, frontier, next, << >>, << >>, at)
    PROVE  BetweenLayers(d, l + 1, seen, next)
  <1>1. Range(<< >>) = {}
    BY DEF Range
  <1>2. \A i \in DOMAIN d : d[i] \in Nat /\ (d[i] = 0 <=> i = s)
    BY DEF Metric
  <1>3. ASSUME NEW i \in DOMAIN d, d[i] = l + 1
        PROVE  i \in seen
    <2>1. PICK p \in DOMAIN d : i \in near[p] /\ d[i] = d[p] + 1
      BY <1>2, <1>3 DEF Metric
    <2>2. d[p] = l
      BY <1>2, <1>3, <2>1
    <2>3. p \in Range(frontier)
      BY <2>2 DEF InLayer
    <2>. QED  BY <1>1, <2>1, <2>3 DEF InLayer
  <1>4. /\ Range(next) \subseteq {i \in DOMAIN d : d[i] = l + 1}
        /\ seen = {i \in DOMAIN d : d[i] <= l} \cup Range(next)
    BY DEF InLayer
  <1>5. seen = {i \in DOMAIN d : d[i] <= l + 1}
    BY <1>2, <1>3, <1>4
  <1>6. Range(next) = {i \in DOMAIN d : d[i] = l + 1}
    BY <1>2, <1>3, <1>4
  <1>. QED  BY <1>5, <1>6 DEF BetweenLayers

\* An empty layer is the last one.
LEMMA LayersEnd ==
    ASSUME NEW d, NEW near, NEW s, Metric(d, near, s), NEW l \in Nat, NEW seen, s \in seen,
           BetweenLayers(d, l, seen, << >>)
    PROVE  seen = DOMAIN d
  <1>1. Range(<< >>) = {}
    BY DEF Range
  <1>2. \A i \in DOMAIN d : d[i] \in Nat
    BY DEF Metric
  <1>3. seen = {i \in DOMAIN d : d[i] <= l} /\ \A i \in DOMAIN d : d[i] # l
    BY <1>1 DEF BetweenLayers
  <1>4. ASSUME NEW i \in seen, NEW j \in near[i]
        PROVE  j \in seen
    <2>1. j \in DOMAIN d /\ d[j] <= d[i] + 1 /\ i \in DOMAIN d
      BY <1>3 DEF Metric
    <2>2. d[i] + 1 <= l
      BY <1>2, <1>3
    <2>. QED  BY <1>2, <1>3, <2>1, <2>2
  <1>5. DOMAIN d \subseteq seen
    BY <1>4, ClosedHasAll
  <1>. QED  BY <1>3, <1>5

-----------------------------------------------------------------------------
\* The steps of the search of the snapshot

LEMMA SourceIndexMetric ==
    ASSUME SearchInv, request.source \in members
    PROVE  LET s == Rank(members, request.source) - 1
               d == IndexDepth(members, links, request.source)
               near == IndexNear(members, links, request.source)
           IN  /\ Metric(d, near, s) /\ DOMAIN d \in SUBSET DOMAIN csrToNode
               /\ \A i \in DOMAIN d : Row(i) \in Seq(DOMAIN csrToNode) /\ Range(Row(i)) = near[i]
  <1>. DEFINE s == Rank(members, request.source) - 1
              d == IndexDepth(members, links, request.source)
              near == IndexNear(members, links, request.source)
  <1>1. members \in SUBSET NodeIds /\ GraphOK
    BY DEF SearchInv, GraphInv, GraphOK
  <1>2. csrToNode = NodeOf(members)
    BY DEF csrToNode, NodeOf
  <1>3. /\ Metric(d, near, s)
        /\ \A i \in DOMAIN d :
             /\ i \in DOMAIN NodeOf(members)
             /\ near[i] = {j \in DOMAIN NodeOf(members) : NodeOf(members)[j] \in NextTo(members, links, NodeOf(members)[i])}
    BY <1>1, IndexMetric
  <1>. HIDE DEF s, d, near
  <1>4. \A i \in DOMAIN NodeOf(members) :
          /\ Row(i) \in Seq(DOMAIN NodeOf(members))
          /\ Range(Row(i)) =
                {j \in DOMAIN NodeOf(members) : NodeOf(members)[j] \in NextTo(members, links, NodeOf(members)[i])}
    BY <1>1, RowElements
  <1>5. \A i \in DOMAIN d : Row(i) \in Seq(DOMAIN csrToNode) /\ Range(Row(i)) = near[i]
    BY <1>2, <1>3, <1>4
  <1>6. DOMAIN d \in SUBSET DOMAIN csrToNode
    BY <1>2, <1>3
  <1>. QED  BY <1>3, <1>5, <1>6 DEF s, d, near

LEMMA SearchGoesOn ==
    ASSUME SearchInv, UNCHANGED <<graphVars, bfsVars, live>>,
           pc \in {"map", "layer", "expand"}, pc' \in {"layer", "expand"}, SnapshotTypes',
           Searching(members, links, request, pc', visited_', parent_', frontier_', next_frontier_', layer', row',
                     current', found', depth')
    PROVE  SearchInv'
  <1>1. GraphInv' /\ LiveTypes' /\ LiveInv'
    BY LiveIdle
  <1>2. members' = members /\ links' = links /\ request' = request
    BY GraphStays
  <1>3. SnapshotInv'
    BY <1>2 DEF SnapshotInv
  <1>. QED  BY <1>1, <1>3 DEF SearchInv

LEMMA StartSnapshotKeeps ==
    ASSUME SearchInv, StartSnapshot
    PROVE  SearchInv'
  <1>1. /\ UNCHANGED <<graphVars, bfsVars, live>> /\ pc = "map" /\ pc' \in {"layer", "done"}
        /\ UNCHANGED <<next_frontier_, layer, row, found, depth>>
    BY DEF StartSnapshot
  <1>2. GraphInv' /\ LiveTypes' /\ LiveInv'
    BY <1>1, LiveIdle
  <1>3. members' = members /\ links' = links /\ request' = request /\ csrToNode' = csrToNode
    BY <1>1, GraphStays
  <1>4. /\ visited_ = {} /\ parent_ = EmptyMap /\ frontier_ = << >> /\ next_frontier_ = << >>
        /\ layer = << >> /\ row = << >> /\ found = FALSE /\ depth = 0
    BY <1>1 DEF SearchInv, SnapshotInv
  <1>5. SnapshotTypes
    BY DEF SearchInv
  <1>6. CASE request.source \notin members
    <2>1. snapshot' = NoSource /\ pc' = "done" /\ UNCHANGED <<visited_, parent_, frontier_>>
      BY <1>6 DEF StartSnapshot, Mapped
    <2>2. Right(members, links, request, NoSource)
      BY <1>6 DEF Right
    <2>3. SnapshotTypes'
      BY <1>1, <1>3, <1>5, <2>1 DEF SnapshotTypes
    <2>4. SnapshotInv'
      BY <1>3, <2>1, <2>2 DEF SnapshotInv
    <2>. QED  BY <1>1, <1>2, <2>3, <2>4 DEF SearchInv
  <1>7. CASE request.source \in members /\ TargetMissing
    <2>1. snapshot' = Found(<< >>) /\ pc' = "done" /\ UNCHANGED <<visited_, parent_, frontier_>>
      BY <1>7 DEF StartSnapshot, Mapped
    <2>2. request.mode = "SHORTEST_PATH" /\ request.target \notin members
      BY <1>7 DEF TargetMissing, Mapped
    <2>3. request.target \notin DOMAIN DepthOf(members, links, request.source)
      BY <1>7, <2>2, SourceMetric
    <2>4. Right(members, links, request, Found(<< >>))
      BY <1>7, <2>2, <2>3 DEF Right, Found
    <2>5. SnapshotTypes'
      BY <1>1, <1>3, <1>5, <2>1 DEF SnapshotTypes
    <2>6. SnapshotInv'
      BY <1>3, <2>1, <2>4 DEF SnapshotInv
    <2>. QED  BY <1>1, <1>2, <2>5, <2>6 DEF SearchInv
  <1>8. CASE request.source \in members /\ ~TargetMissing
    <2>. DEFINE start == Rank(members, request.source) - 1
                d == IndexDepth(members, links, request.source)
                near == IndexNear(members, links, request.source)
    <2>1. /\ visited_' = {start} /\ frontier_' = <<start>> /\ parent_' = Put(EmptyMap, start, start)
          /\ pc' = "layer"
      BY <1>8 DEF StartSnapshot, Mapped, nodeToCSR
    <2>2. request.mode = "SHORTEST_PATH" => request.target \in members
      BY <1>8 DEF TargetMissing, Mapped
    <2>3. Metric(d, near, start) /\ DOMAIN d \in SUBSET DOMAIN csrToNode
      BY <1>8, SourceIndexMetric
    <2>4. request.mode = "KHOP" => request.k \in Nat
      BY RequestKinds DEF SearchInv, GraphInv
    <2>. HIDE DEF start, d, near
    <2>5. start \in DOMAIN csrToNode
      BY <2>3 DEF Metric
    <2>6. DOMAIN Put(EmptyMap, start, start) = {start}
      BY DEF Put, EmptyMap
    <2>7. SnapshotTypes'
      BY <1>1, <1>3, <1>5, <2>1, <2>5, <2>6 DEF SnapshotTypes
    <2>8. Tree(d, near, start, {start}, Put(EmptyMap, start, start)) /\ BetweenLayers(d, 0, {start}, <<start>>)
      BY <2>3, LayersStart
    <2>9. /\ Tree(d, near, start, visited_', parent_') /\ BetweenLayers(d, 0, visited_', frontier_')
          /\ found' = FALSE /\ depth' = 0 /\ row' = << >>
      BY <1>1, <1>4, <2>1, <2>8
    <2>10. AtLayer(d, near, request, pc', visited_', frontier_', next_frontier_', layer', row', current', depth', 0)
      BY <2>1, <2>4, <2>9 DEF AtLayer
    <2>11. \E l \in Nat :
             AtLayer(d, near, request, pc', visited_', frontier_', next_frontier_', layer', row', current', depth', l)
      BY <2>10
    <2>12. Searching(members, links, request, pc', visited_', parent_', frontier_', next_frontier_', layer', row',
                     current', found', depth')
      BY <1>8, <2>2, <2>9, <2>11 DEF Searching, start, d, near
    <2>. QED  BY <1>1, <2>1, <2>7, <2>12, SearchGoesOn
  <1>. QED  BY <1>6, <1>7, <1>8

LEMMA OpenLayerKeeps ==
    ASSUME SearchInv, OpenLayer
    PROVE  SearchInv'
  <1>. DEFINE s == Rank(members, request.source) - 1
              d == IndexDepth(members, links, request.source)
              near == IndexNear(members, links, request.source)
  <1>1. /\ UNCHANGED <<graphVars, bfsVars, live>> /\ pc = "layer" /\ pc' = "expand"
        /\ UNCHANGED <<visited_, parent_, frontier_, row, found, depth, current>>
        /\ layer' = frontier_ /\ next_frontier_' = << >>
        /\ ~found /\ (request.mode = "KHOP" => depth < request.k)
    BY DEF OpenLayer, MoreLayers
  <1>2. csrToNode' = csrToNode
    BY <1>1, GraphStays
  <1>3. Searching(members, links, request, pc, visited_, parent_, frontier_, next_frontier_, layer, row,
                  current, found, depth)
    BY <1>1 DEF SearchInv, SnapshotInv
  <1>4. /\ request.source \in members /\ (request.mode = "SHORTEST_PATH" => request.target \in members)
        /\ Tree(d, near, s, visited_, parent_)
        /\ \E l \in Nat :
             AtLayer(d, near, request, pc, visited_, frontier_, next_frontier_, layer, row, current, depth, l)
    BY <1>1, <1>3 DEF Searching
  <1>. HIDE DEF s, d, near
  <1>5. PICK l \in Nat :
             AtLayer(d, near, request, pc, visited_, frontier_, next_frontier_, layer, row, current, depth, l)
    BY <1>4
  <1>6. BetweenLayers(d, l, visited_, frontier_) /\ row = << >> /\ (request.mode = "KHOP" => depth = l)
    BY <1>1, <1>5 DEF AtLayer
  <1>7. InLayer(d, near, l, visited_, frontier_, << >>, frontier_, << >>, current)
    BY <1>6, LayerOpens
  <1>8. AtLayer(d, near, request, pc', visited_', frontier_', next_frontier_', layer', row', current', depth', l)
    BY <1>1, <1>6, <1>7 DEF AtLayer
  <1>9. \E k \in Nat :
             AtLayer(d, near, request, pc', visited_', frontier_', next_frontier_', layer', row', current', depth', k)
    BY <1>8
  <1>10. SnapshotTypes'
    BY <1>1, <1>2 DEF SearchInv, SnapshotTypes
  <1>11. Searching(members, links, request, pc', visited_', parent_', frontier_', next_frontier_', layer', row',
                   current', found', depth')
    BY <1>1, <1>4, <1>9 DEF Searching, s, d, near
  <1>. QED  BY <1>1, <1>10, <1>11, SearchGoesOn

LEMMA ExpandNodeKeeps ==
    ASSUME SearchInv, ExpandNode
    PROVE  SearchInv'
  <1>. DEFINE s == Rank(members, request.source) - 1
              d == IndexDepth(members, links, request.source)
              near == IndexNear(members, links, request.source)
  <1>1. /\ UNCHANGED <<graphVars, bfsVars, live>> /\ pc = "expand" /\ pc' = "expand"
        /\ UNCHANGED <<visited_, parent_, frontier_, next_frontier_, found, depth>>
        /\ current' = Head(layer) /\ layer' = Tail(layer) /\ row' = Row(Head(layer))
        /\ ~found /\ row = << >> /\ layer # << >>
    BY DEF ExpandNode
  <1>2. csrToNode' = csrToNode
    BY <1>1, GraphStays
  <1>3. Searching(members, links, request, pc, visited_, parent_, frontier_, next_frontier_, layer, row,
                  current, found, depth)
    BY <1>1 DEF SearchInv, SnapshotInv
  <1>4. /\ request.source \in members /\ (request.mode = "SHORTEST_PATH" => request.target \in members)
        /\ Tree(d, near, s, visited_, parent_)
        /\ \E l \in Nat :
             AtLayer(d, near, request, pc, visited_, frontier_, next_frontier_, layer, row, current, depth, l)
    BY <1>1, <1>3 DEF Searching
  <1>5. \A i \in DOMAIN d : Row(i) \in Seq(DOMAIN csrToNode) /\ Range(Row(i)) = near[i]
    BY <1>4, SourceIndexMetric
  <1>6. SnapshotTypes
    BY DEF SearchInv
  <1>7. layer \in Seq(DOMAIN csrToNode)
    BY <1>6 DEF SnapshotTypes
  <1>. HIDE DEF s, d, near
  <1>8. PICK l \in Nat :
             AtLayer(d, near, request, pc, visited_, frontier_, next_frontier_, layer, row, current, depth, l)
    BY <1>4
  <1>9. /\ InLayer(d, near, l, visited_, frontier_, next_frontier_, layer, << >>, current)
        /\ request.mode = "KHOP" => depth = l /\ l < request.k
    BY <1>1, <1>8 DEF AtLayer
  <1>10. Range(layer) = {Head(layer)} \cup Range(Tail(layer)) /\ Tail(layer) \in Seq(DOMAIN csrToNode)
    BY <1>1, <1>7, HeadAndTail
  <1>11. Head(layer) \in DOMAIN d
    BY <1>9, <1>10 DEF InLayer
  <1>12. row' \in Seq(DOMAIN csrToNode) /\ Range(row') = near[Head(layer)]
    BY <1>1, <1>5, <1>11
  <1>13. InLayer(d, near, l, visited_, frontier_, next_frontier_, Tail(layer), row', Head(layer))
    BY <1>1, <1>7, <1>9, <1>12, NodeExpands
  <1>14. AtLayer(d, near, request, pc', visited_', frontier_', next_frontier_', layer', row', current', depth', l)
    BY <1>1, <1>9, <1>13 DEF AtLayer
  <1>15. \E k \in Nat :
             AtLayer(d, near, request, pc', visited_', frontier_', next_frontier_', layer', row', current', depth', k)
    BY <1>14
  <1>16. SnapshotTypes'
    BY <1>1, <1>2, <1>6, <1>10, <1>12 DEF SnapshotTypes
  <1>17. Searching(members, links, request, pc', visited_', parent_', frontier_', next_frontier_', layer', row',
                   current', found', depth')
    BY <1>1, <1>4, <1>15 DEF Searching, s, d, near
  <1>. QED  BY <1>1, <1>16, <1>17, SearchGoesOn

LEMMA VisitIndexKeeps ==
    ASSUME SearchInv, VisitIndex
    PROVE  SearchInv'
  <1>. DEFINE s == Rank(members, request.source) - 1
              d == IndexDepth(members, links, request.source)
              near == IndexNear(members, links, request.source)
              i == Head(row)
  <1>1. /\ UNCHANGED <<graphVars, bfsVars, live>> /\ pc = "expand" /\ pc' = "expand"
        /\ UNCHANGED <<frontier_, layer, depth, current>>
        /\ row' = Tail(row) /\ ~found /\ row # << >>
    BY DEF VisitIndex
  <1>2. csrToNode' = csrToNode
    BY <1>1, GraphStays
  <1>3. Searching(members, links, request, pc, visited_, parent_, frontier_, next_frontier_, layer, row,
                  current, found, depth)
    BY <1>1 DEF SearchInv, SnapshotInv
  <1>4. /\ request.source \in members /\ (request.mode = "SHORTEST_PATH" => request.target \in members)
        /\ Tree(d, near, s, visited_, parent_)
        /\ \E l \in Nat :
             AtLayer(d, near, request, pc, visited_, frontier_, next_frontier_, layer, row, current, depth, l)
    BY <1>1, <1>3 DEF Searching
  <1>5. Metric(d, near, s)
    BY <1>4, SourceIndexMetric
  <1>6. /\ visited_ \subseteq DOMAIN csrToNode /\ DOMAIN parent_ \subseteq visited_
        /\ frontier_ \in Seq(DOMAIN csrToNode) /\ next_frontier_ \in Seq(DOMAIN csrToNode)
        /\ layer \in Seq(DOMAIN csrToNode) /\ row \in Seq(DOMAIN csrToNode)
        /\ found \in BOOLEAN /\ depth \in Nat
    BY DEF SearchInv, SnapshotTypes
  <1>. HIDE DEF s, d, near
  <1>7. PICK l \in Nat :
             AtLayer(d, near, request, pc, visited_, frontier_, next_frontier_, layer, row, current, depth, l)
    BY <1>4
  <1>8. /\ InLayer(d, near, l, visited_, frontier_, next_frontier_, layer, row, current)
        /\ request.mode = "KHOP" => depth = l /\ l < request.k
    BY <1>1, <1>7 DEF AtLayer
  <1>9. /\ Range(row) = {i} \cup Range(Tail(row)) /\ Tail(row) \in Seq(DOMAIN csrToNode)
        /\ i \in DOMAIN csrToNode
    BY <1>1, <1>6, HeadAndTail, RangeOfSeq
  <1>10. CASE i \in visited_
    <2>1. UNCHANGED <<visited_, parent_, next_frontier_, found>>
      BY <1>10 DEF VisitIndex
    <2>2. InLayer(d, near, l, visited_, frontier_, next_frontier_, layer, Tail(row), current)
      BY <1>1, <1>6, <1>8, <1>10, IndexPasses
    <2>3. AtLayer(d, near, request, pc', visited_', frontier_', next_frontier_', layer', row', current', depth', l)
      BY <1>1, <1>8, <2>1, <2>2 DEF AtLayer
    <2>4. \E k \in Nat :
             AtLayer(d, near, request, pc', visited_', frontier_', next_frontier_', layer', row', current', depth', k)
      BY <2>3
    <2>5. SnapshotTypes'
      BY <1>1, <1>2, <1>6, <1>9, <2>1 DEF SnapshotTypes
    <2>6. Searching(members, links, request, pc', visited_', parent_', frontier_', next_frontier_', layer', row',
                   current', found', depth')
      BY <1>1, <1>4, <2>1, <2>4 DEF Searching, s, d, near
    <2>. QED  BY <1>1, <2>5, <2>6, SearchGoesOn
  <1>11. CASE i \notin visited_
    <2>1. /\ visited_' = visited_ \cup {i} /\ parent_' = Put(parent_, i, current)
          /\ found' = IsTarget(i)
          /\ next_frontier_' = IF IsTarget(i) THEN next_frontier_ ELSE Append(next_frontier_, i)
      BY <1>11 DEF VisitIndex
    <2>2. /\ current \in visited_ /\ i \in near[current] /\ d[i] = d[current] + 1
          /\ InLayer(d, near, l, visited_ \cup {i}, frontier_, Append(next_frontier_, i), layer, Tail(row), current)
      BY <1>1, <1>5, <1>6, <1>8, <1>11, IndexFound
    <2>. HIDE DEF i
    <2>3. Tree(d, near, s, visited_', parent_')
      BY <1>4, <1>5, <1>11, <2>1, <2>2, TreeGrows
    <2>4. DOMAIN parent_' = DOMAIN parent_ \cup {i}
      BY <2>1 DEF Put
    <2>5. IsTarget(i) \in BOOLEAN /\ Append(next_frontier_, i) \in Seq(DOMAIN csrToNode)
      BY <1>6, <1>9 DEF IsTarget
    <2>6. SnapshotTypes'
      <3>1. visited_' \subseteq DOMAIN csrToNode /\ DOMAIN parent_' \subseteq visited_'
        BY <1>6, <1>9, <2>1, <2>4
      <3>2. found' \in BOOLEAN /\ next_frontier_' \in Seq(DOMAIN csrToNode)
        BY <1>6, <2>1, <2>5
      <3>. QED  BY <1>1, <1>2, <1>6, <1>9, <3>1, <3>2 DEF SnapshotTypes
    <2>7. CASE IsTarget(i)
      <3>1. request.mode = "SHORTEST_PATH" /\ i = nodeToCSR(request.target) /\ found'
        BY <2>1, <2>7 DEF IsTarget
      <3>2. i = Rank(members, request.target) - 1
        BY <1>4, <3>1 DEF nodeToCSR, Mapped
      <3>3. Rank(members, request.target) - 1 \in visited_'
        BY <2>1, <3>2
      <3>4. Searching(members, links, request, pc', visited_', parent_', frontier_', next_frontier_', layer', row',
                     current', found', depth')
        BY <1>4, <2>3, <3>1, <3>3 DEF Searching, s, d, near
      <3>. QED  BY <1>1, <2>6, <3>4, SearchGoesOn
    <2>8. CASE ~IsTarget(i)
      <3>1. next_frontier_' = Append(next_frontier_, i) /\ ~found'
        BY <2>1, <2>8
      <3>2. AtLayer(d, near, request, pc', visited_', frontier_', next_frontier_', layer', row', current', depth', l)
        BY <1>1, <1>8, <2>1, <2>2, <3>1 DEF AtLayer
      <3>3. \E k \in Nat :
             AtLayer(d, near, request, pc', visited_', frontier_', next_frontier_', layer', row', current', depth', k)
        BY <3>2
      <3>4. Searching(members, links, request, pc', visited_', parent_', frontier_', next_frontier_', layer', row',
                     current', found', depth')
        BY <1>4, <2>3, <3>1, <3>3 DEF Searching, s, d, near
      <3>. QED  BY <1>1, <2>6, <3>4, SearchGoesOn
    <2>. QED  BY <2>7, <2>8
  <1>. QED  BY <1>10, <1>11

LEMMA CloseLayerKeeps ==
    ASSUME SearchInv, CloseLayer
    PROVE  SearchInv'
  <1>. DEFINE s == Rank(members, request.source) - 1
              d == IndexDepth(members, links, request.source)
              near == IndexNear(members, links, request.source)
  <1>1. /\ UNCHANGED <<graphVars, bfsVars, live>> /\ pc = "expand" /\ pc' = "layer"
        /\ UNCHANGED <<visited_, parent_, found, current>>
        /\ found \/ (row = << >> /\ layer = << >>)
        /\ frontier_' = next_frontier_ /\ next_frontier_' = frontier_
        /\ layer' = << >> /\ row' = << >>
        /\ depth' = IF request.mode = "KHOP" THEN depth + 1 ELSE depth
    BY DEF CloseLayer
  <1>2. csrToNode' = csrToNode
    BY <1>1, GraphStays
  <1>3. Searching(members, links, request, pc, visited_, parent_, frontier_, next_frontier_, layer, row,
                  current, found, depth)
    BY <1>1 DEF SearchInv, SnapshotInv
  <1>4. /\ request.source \in members /\ (request.mode = "SHORTEST_PATH" => request.target \in members)
        /\ Tree(d, near, s, visited_, parent_)
        /\ found => request.mode = "SHORTEST_PATH" /\ Rank(members, request.target) - 1 \in visited_
        /\ ~found => \E l \in Nat :
             AtLayer(d, near, request, pc, visited_, frontier_, next_frontier_, layer, row, current, depth, l)
    BY <1>3 DEF Searching
  <1>5. Metric(d, near, s)
    BY <1>4, SourceIndexMetric
  <1>6. SnapshotTypes'
    BY <1>1, <1>2 DEF SearchInv, SnapshotTypes
  <1>7. request.mode = "KHOP" => request.k \in Nat
    BY RequestKinds DEF SearchInv, GraphInv
  <1>. HIDE DEF s, d, near
  <1>8. ASSUME ~found
        PROVE  \E l \in Nat :
                 AtLayer(d, near, request, pc', visited_', frontier_', next_frontier_', layer', row', current', depth', l)
    <2>1. PICK l \in Nat :
             AtLayer(d, near, request, pc, visited_, frontier_, next_frontier_, layer, row, current, depth, l)
      BY <1>4, <1>8
    <2>2. /\ InLayer(d, near, l, visited_, frontier_, next_frontier_, << >>, << >>, current)
          /\ request.mode = "KHOP" => depth = l /\ l < request.k
      BY <1>1, <1>8, <2>1 DEF AtLayer
    <2>3. BetweenLayers(d, l + 1, visited_, next_frontier_)
      BY <1>5, <2>2, LayerCloses
    <2>4. request.mode = "KHOP" => depth' = l + 1 /\ l + 1 <= request.k
      BY <1>1, <1>7, <2>2
    <2>5. AtLayer(d, near, request, pc', visited_', frontier_', next_frontier_', layer', row', current', depth', l + 1)
      BY <1>1, <2>3, <2>4 DEF AtLayer
    <2>. QED  BY <2>5
  <1>9. Searching(members, links, request, pc', visited_', parent_', frontier_', next_frontier_', layer', row',
                  current', found', depth')
    BY <1>1, <1>4, <1>8 DEF Searching, s, d, near
  <1>. QED  BY <1>1, <1>6, <1>9, SearchGoesOn

-----------------------------------------------------------------------------
\* The answer of the search of the snapshot, in nodes again

LEMMA AscendingIsListing ==
    ASSUME NEW ids \in SUBSET Nat, IsFiniteSet(ids), NEW S, ids \subseteq S
    PROVE  Ascending(ids) \in Seq(S) /\ Distinct(Ascending(ids)) /\ Range(Ascending(ids)) = ids
  <1>. DEFINE c == Cardinality(ids)
              list == Ascending(ids)
  <1>1. /\ c \in Nat /\ list \in [1 .. c -> ids]
        /\ \A x \in ids : Rank(ids, x) \in 1 .. c /\ list[Rank(ids, x)] = x
        /\ \A i \in 1 .. c : Rank(ids, list[i]) = i
    BY AscendingLists
  <1>. HIDE DEF c, list
  <1>2. list \in Seq(S) /\ DOMAIN list = 1 .. c
    <2>1. list \in [1 .. c -> S]
      BY <1>1
    <2>. QED  BY <1>1, <2>1
  <1>3. Distinct(list)
    BY <1>1, <1>2 DEF Distinct
  <1>4. Range(list) = ids
    BY <1>1, <1>2 DEF Range
  <1>. QED  BY <1>2, <1>3, <1>4 DEF list

LEMMA IndexWayFound ==
    ASSUME NEW M \in SUBSET NodeIds, NEW L, NEW s \in M, NEW t \in M, NEW seen, NEW up,
           Tree(IndexDepth(M, L, s), IndexNear(M, L, s), Rank(M, s) - 1, seen, up), Rank(M, t) - 1 \in seen,
           NEW path, path = PathTo(up, Rank(M, s) - 1, Rank(M, t) - 1)
    PROVE  /\ t \in DOMAIN DepthOf(M, L, s)
           /\ Way(M, L, s, t, DepthOf(M, L, s)[t], [i \in DOMAIN path |-> NodeOf(M)[path[i]]])
  <1>. DEFINE nodeOf == NodeOf(M)
              ixs == DOMAIN nodeOf
              first == Rank(M, s) - 1
              last == Rank(M, t) - 1
              D == DepthOf(M, L, s)
              d == IndexDepth(M, L, s)
              near == IndexNear(M, L, s)
              nodes == [i \in DOMAIN path |-> nodeOf[path[i]]]
              e == D[t]
  <1>1. /\ \A n \in M : Rank(M, n) - 1 \in ixs /\ nodeOf[Rank(M, n) - 1] = n
        /\ \A i \in ixs : nodeOf[i] \in M
    BY Indexes
  <1>2. /\ Metric(d, near, first)
        /\ \A i \in DOMAIN d : i \in ixs /\ nodeOf[i] \in DOMAIN D /\ d[i] = D[nodeOf[i]]
        /\ \A i \in DOMAIN d : near[i] = {j \in ixs : nodeOf[j] \in NextTo(M, L, nodeOf[i])}
    <2>1. Metric(d, near, first)
      BY IndexMetric
    <2>2. \A i \in DOMAIN d : i \in ixs /\ nodeOf[i] \in DOMAIN D /\ d[i] = D[nodeOf[i]]
      BY IndexMetric
    <2>3. \A i \in DOMAIN d : near[i] = {j \in ixs : nodeOf[j] \in NextTo(M, L, nodeOf[i])}
      BY IndexMetric
    <2>. QED  BY <2>1, <2>2, <2>3
  <1>3. Tree(d, near, first, seen, up) /\ last \in seen /\ path = PathTo(up, first, last)
    OBVIOUS
  <1>4. nodeOf[first] = s /\ nodeOf[last] = t
    BY <1>1
  <1>. HIDE DEF nodeOf, ixs, first, last, D, d, near
  <1>5. PathOf(up, first, seen, d, last, path)
    BY <1>2, <1>3, TreeIsChained, PathFound
  <1>6. last \in DOMAIN d /\ seen \subseteq DOMAIN d
    BY <1>3 DEF Tree
  <1>7. t \in DOMAIN D /\ d[last] = e /\ e \in Nat
    BY <1>2, <1>4, <1>6 DEF Metric
  <1>. HIDE DEF e
  <1>8. /\ path \in [1 .. e + 1 -> seen] /\ path[1] = first /\ path[e + 1] = last
        /\ \A i \in 1 .. e : path[i + 1] \in DOMAIN up /\ path[i + 1] # first /\ path[i] = up[path[i + 1]]
    BY <1>5, <1>7 DEF PathOf
  <1>9. DOMAIN path = 1 .. e + 1 /\ \A i \in 1 .. e + 1 : path[i] \in seen /\ path[i] \in DOMAIN d
    BY <1>6, <1>8
  <1>10. nodes \in [1 .. e + 1 -> M] /\ \A i \in 1 .. e + 1 : nodes[i] = nodeOf[path[i]]
    BY <1>1, <1>2, <1>9
  <1>. HIDE DEF nodes
  <1>11. nodes \in Seq(M) /\ Len(nodes) = e + 1
    BY <1>7, <1>10
  <1>12. nodes[1] = s /\ nodes[e + 1] = t
    BY <1>4, <1>7, <1>8, <1>10
  <1>13. \A i \in 1 .. e : nodes[i + 1] \in NextTo(M, L, nodes[i])
    <2>. TAKE i \in 1 .. e
    <2>1. i \in 1 .. e + 1 /\ i + 1 \in 1 .. e + 1
      BY <1>7
    <2>2. path[i + 1] \in seen \ {first} /\ path[i] = up[path[i + 1]]
      BY <1>8, <1>9, <2>1
    <2>3. path[i + 1] \in near[path[i]]
      BY <1>3, <2>2 DEF Tree
    <2>4. nodeOf[path[i + 1]] \in NextTo(M, L, nodeOf[path[i]])
      BY <1>2, <1>9, <2>1, <2>3
    <2>. QED  BY <1>10, <2>1, <2>4
  <1>14. Way(M, L, s, t, e, nodes)
    BY <1>11, <1>12, <1>13 DEF Way
  <1>. QED  BY <1>7, <1>14 DEF D, e, nodes, nodeOf

\* The nodes of the indexes as deep as d says are those as deep.
LEMMA NodesOfDepth ==
    ASSUME NEW M \in SUBSET NodeIds, NEW L, NEW s \in M, NEW deep
    PROVE  {NodeOf(M)[i] : i \in {j \in DOMAIN IndexDepth(M, L, s) : IndexDepth(M, L, s)[j] \in deep}} =
             {n \in DOMAIN DepthOf(M, L, s) : DepthOf(M, L, s)[n] \in deep}
  <1>. DEFINE nodeOf == NodeOf(M)
              D == DepthOf(M, L, s)
              d == IndexDepth(M, L, s)
  <1>1. \A n \in M : nodeOf[Rank(M, n) - 1] = n
    BY Indexes
  <1>2. /\ \A i \in DOMAIN d : nodeOf[i] \in DOMAIN D /\ d[i] = D[nodeOf[i]]
        /\ \A n \in M : Rank(M, n) - 1 \in DOMAIN d <=> n \in DOMAIN D
    BY IndexMetric
  <1>3. DOMAIN D \subseteq M
    BY DistancesHold DEF DepthOf, Distances
  <1>. HIDE DEF nodeOf, D, d
  <1>4. ASSUME NEW n \in DOMAIN D
        PROVE  \E i \in DOMAIN d : nodeOf[i] = n /\ d[i] = D[n]
    BY <1>1, <1>2, <1>3
  <1>5. {nodeOf[i] : i \in {j \in DOMAIN d : d[j] \in deep}} = {n \in DOMAIN D : D[n] \in deep}
    BY <1>2, <1>4
  <1>. QED  BY <1>5 DEF nodeOf, D, d

LEMMA AnswerSnapshotKeeps ==
    ASSUME SearchInv, AnswerSnapshot
    PROVE  SearchInv'
  <1>. DEFINE src == request.source
              s == Rank(members, src) - 1
              d == IndexDepth(members, links, src)
              near == IndexNear(members, links, src)
              D == DepthOf(members, links, src)
              nodeOf == NodeOf(members)
  <1>1. /\ UNCHANGED <<graphVars, bfsVars, live>> /\ UNCHANGED csrVars /\ pc = "layer" /\ pc' = "done"
        /\ frontier_ # << >> /\ ~found => request.mode = "KHOP" /\ ~(depth < request.k)
    BY DEF AnswerSnapshot, MoreLayers
  <1>2. members' = members /\ links' = links /\ request' = request /\ csrToNode' = csrToNode
    BY <1>1, GraphStays
  <1>3. GraphInv' /\ LiveTypes' /\ LiveInv'
    BY <1>1, LiveIdle
  <1>4. SnapshotTypes'
    BY <1>1, <1>2 DEF SearchInv, SnapshotTypes, csrVars
  <1>5. Searching(members, links, request, pc, visited_, parent_, frontier_, next_frontier_, layer, row,
                  current, found, depth)
    BY <1>1 DEF SearchInv, SnapshotInv
  <1>6. /\ src \in members /\ (request.mode = "SHORTEST_PATH" => request.target \in members)
        /\ Tree(d, near, s, visited_, parent_)
        /\ found => request.mode = "SHORTEST_PATH" /\ Rank(members, request.target) - 1 \in visited_
        /\ ~found => \E l \in Nat :
             AtLayer(d, near, request, pc, visited_, frontier_, next_frontier_, layer, row, current, depth, l)
    BY <1>5 DEF Searching
  <1>7. Metric(d, near, s)
    BY <1>6, SourceIndexMetric
  <1>8. csrToNode = nodeOf /\ members \in SUBSET NodeIds
    BY DEF csrToNode, NodeOf, SearchInv, GraphInv, GraphOK
  <1>9. request.mode \in {"REACHABLE", "SHORTEST_PATH", "KHOP"} /\ (request.mode = "KHOP" => request.k \in Nat)
    BY RequestKinds DEF SearchInv, GraphInv
  <1>10. nodeToCSR(src) = s
    BY <1>6 DEF nodeToCSR, Mapped
  <1>11. DOMAIN D \in SUBSET members /\ \A n \in DOMAIN D : D[n] \in Nat
    BY <1>6, SourceMetric DEF Metric
  <1>12. \A x : Found(x) = Found(Found(x).nodes) /\ Found(x).nodes = x
    BY DEF Found
  <1>13. ASSUME ~found
         PROVE  visited_ = {i \in DOMAIN d : request.mode = "KHOP" => d[i] <= request.k}
    <2>. HIDE DEF d, near, s
    <2>1. PICK l \in Nat :
             AtLayer(d, near, request, pc, visited_, frontier_, next_frontier_, layer, row, current, depth, l)
      BY <1>6, <1>13
    <2>2. /\ BetweenLayers(d, l, visited_, frontier_)
          /\ request.mode = "KHOP" => depth = l /\ l <= request.k
      BY <1>1, <2>1 DEF AtLayer
    <2>3. visited_ = {i \in DOMAIN d : d[i] <= l} /\ s \in visited_ /\ \A i \in DOMAIN d : d[i] \in Nat
      BY <1>6, <1>7, <2>2 DEF BetweenLayers, Tree, Metric
    <2>4. CASE frontier_ = << >>
      <3>1. visited_ = DOMAIN d
        BY <1>7, <2>2, <2>3, <2>4, LayersEnd
      <3>2. \A i \in DOMAIN d : request.mode = "KHOP" => d[i] <= request.k
        BY <1>9, <2>2, <2>3, <3>1
      <3>. QED  BY <3>1, <3>2
    <2>5. CASE frontier_ # << >>
      <3>1. request.mode = "KHOP" /\ l = request.k
        BY <1>1, <1>9, <1>13, <2>2, <2>5
      <3>. QED  BY <2>3, <3>1
    <2>. QED  BY <2>4, <2>5
  <1>14. CASE request.mode = "SHORTEST_PATH"
    <2>. DEFINE t == Rank(members, request.target) - 1
                path == PathTo(parent_, s, t)
                nodes == [i \in DOMAIN path |-> nodeOf[path[i]]]
    <2>1. nodeToCSR(request.target) = t /\ request.target \in members
      BY <1>6, <1>14 DEF nodeToCSR, Mapped
    <2>2. snapshot' = Found(IF t \in visited_ THEN nodes ELSE << >>)
      BY <1>8, <1>10, <1>14, <2>1 DEF AnswerSnapshot
    <2>3. CASE t \in visited_
      <3>1. /\ request.target \in DOMAIN D
            /\ Way(members, links, src, request.target, D[request.target], nodes)
        BY <1>6, <1>8, <2>1, <2>3, IndexWayFound
      <3>2. snapshot' = Found((snapshot').nodes) /\ (snapshot').nodes = nodes
        <4>. HIDE DEF nodes, t
        <4>. QED  BY <1>12, <2>2, <2>3
      <3>3. Right(members, links, request, snapshot')
        <4>. HIDE DEF nodes, t
        <4>. QED  BY <1>6, <1>14, <3>1, <3>2 DEF Right
      <3>4. SnapshotInv'
        BY <1>1, <1>2, <3>3 DEF SnapshotInv
      <3>. QED  BY <1>1, <1>3, <1>4, <3>4 DEF SearchInv
    <2>4. CASE t \notin visited_
      <3>1. ~found
        BY <1>6, <2>4
      <3>2. visited_ = DOMAIN d
        BY <1>13, <1>14, <3>1
      <3>3. request.target \notin DOMAIN D
        <4>1. t \in DOMAIN d <=> request.target \in DOMAIN D
          BY <1>6, <1>8, <2>1, IndexMetric
        <4>. QED  BY <2>4, <3>2, <4>1
      <3>4. snapshot' = Found((snapshot').nodes) /\ (snapshot').nodes = << >>
        <4>. HIDE DEF nodes, t
        <4>. QED  BY <1>12, <2>2, <2>4
      <3>5. Right(members, links, request, snapshot')
        BY <1>6, <1>14, <3>3, <3>4 DEF Right
      <3>6. SnapshotInv'
        BY <1>1, <1>2, <3>5 DEF SnapshotInv
      <3>. QED  BY <1>1, <1>3, <1>4, <3>6 DEF SearchInv
    <2>. QED  BY <2>3, <2>4
  <1>15. CASE request.mode # "SHORTEST_PATH"
    <2>. DEFINE deep == {h \in Nat : request.mode = "KHOP" => h <= request.k}
                ids == {n \in DOMAIN D : request.mode = "KHOP" => D[n] <= request.k}
                nodes == Ascending(ids)
    <2>1. visited_ = {i \in DOMAIN d : d[i] \in deep}
      <3>1. \A i \in DOMAIN d : d[i] \in Nat
        BY <1>7 DEF Metric
      <3>2. visited_ = {i \in DOMAIN d : request.mode = "KHOP" => d[i] <= request.k}
        BY <1>6, <1>13, <1>15
      <3>. HIDE DEF d
      <3>. QED  BY <3>1, <3>2
    <2>2. ids = {n \in DOMAIN D : D[n] \in deep}
      <3>. HIDE DEF D
      <3>. QED  BY <1>11
    <2>3. {csrToNode[i] : i \in visited_} = ids
      <3>. HIDE DEF deep
      <3>1. {nodeOf[i] : i \in {j \in DOMAIN d : d[j] \in deep}} = {n \in DOMAIN D : D[n] \in deep}
        BY <1>6, <1>8, NodesOfDepth
      <3>. HIDE DEF nodeOf, d, D, ids
      <3>. QED  BY <1>8, <2>1, <2>2, <3>1
    <2>4. snapshot' = Found(nodes)
      <3>1. snapshot' = Found(Ascending({csrToNode[i] : i \in visited_}))
        BY <1>15 DEF AnswerSnapshot
      <3>. QED  BY <2>3, <3>1
    <2>5. nodes \in Seq(members) /\ Distinct(nodes) /\ Range(nodes) = ids
      <3>1. ids \in SUBSET members /\ members \in SUBSET Nat
        BY <1>8, <1>11, TraversalsAssumption
      <3>2. IsFiniteSet(ids) /\ ids \in SUBSET Nat
        BY <1>8, <3>1, FS_Subset, TraversalsAssumption
      <3>. HIDE DEF ids
      <3>. QED  BY <3>1, <3>2, AscendingIsListing
    <2>6. snapshot' = Found((snapshot').nodes) /\ (snapshot').nodes = nodes
      <3>. HIDE DEF nodes
      <3>. QED  BY <1>12, <2>4
    <2>7. Right(members, links, request, snapshot')
      <3>. HIDE DEF nodes
      <3>. QED  BY <1>6, <1>15, <2>5, <2>6 DEF Right
    <2>8. SnapshotInv'
      BY <1>1, <1>2, <2>7 DEF SnapshotInv
    <2>. QED  BY <1>1, <1>3, <1>4, <2>8 DEF SearchInv
  <1>. QED  BY <1>14, <1>15

-----------------------------------------------------------------------------
\* The invariant

LEMMA SearchInit ==
    ASSUME Init
    PROVE  SearchInv
  <1>. USE DEF Init
  <1>1. GraphInv
    BY DEF GraphInv, GraphOK
  <1>2. LiveTypes /\ LiveInv
    BY DEF LiveTypes, LiveInv, EmptyMap
  <1>3. SnapshotTypes
    <2>1. DOMAIN EmptyMap = {}
      BY DEF EmptyMap
    <2>2. \A S : << >> \in Seq(S)
      OBVIOUS
    <2>. QED  BY <2>1, <2>2 DEF SnapshotTypes
  <1>4. SnapshotInv
    BY DEF SnapshotInv
  <1>. QED  BY <1>1, <1>2, <1>3, <1>4 DEF SearchInv

LEMMA SearchNext ==
    ASSUME SearchInv, [Next]_vars
    PROVE  SearchInv'
  <1>1. ASSUME UNCHANGED vars
        PROVE  SearchInv'
    <2>1. UNCHANGED <<graphVars, bfsVars, csrVars>> /\ pc' = pc /\ UNCHANGED <<current, live, snapshot>>
      BY <1>1 DEF vars
    <2>2. members' = members /\ links' = links /\ request' = request /\ GraphInv' /\ csrToNode' = csrToNode
      BY <2>1, GraphStays
    <2>3. UNCHANGED <<visited, parent, visitQueue, visitOrder, neighbours>>
      BY <2>1 DEF bfsVars
    <2>4. UNCHANGED <<visited_, parent_, frontier_, next_frontier_, layer, row, found, depth>>
      BY <2>1 DEF csrVars
    <2>5. LiveTypes'
      BY <2>2, <2>3 DEF SearchInv, LiveTypes
    <2>6. LiveInv'
      BY <2>1, <2>2, <2>3 DEF SearchInv, LiveInv
    <2>7. SnapshotTypes'
      BY <2>2, <2>4 DEF SearchInv, SnapshotTypes
    <2>8. SnapshotInv'
      BY <2>1, <2>2, <2>4 DEF SearchInv, SnapshotInv
    <2>. QED  BY <2>1, <2>2, <2>5, <2>6, <2>7, <2>8 DEF SearchInv
  <1>2. CASE StartLive
    BY <1>2, StartLiveKeeps
  <1>3. CASE Dequeue
    BY <1>3, DequeueKeeps
  <1>4. CASE VisitNeighbour
    BY <1>4, VisitNeighbourKeeps
  <1>5. CASE AnswerLive
    BY <1>5, AnswerLiveKeeps
  <1>6. CASE StartSnapshot
    BY <1>6, StartSnapshotKeeps
  <1>7. CASE OpenLayer
    BY <1>7, OpenLayerKeeps
  <1>8. CASE ExpandNode
    BY <1>8, ExpandNodeKeeps
  <1>9. CASE VisitIndex
    BY <1>9, VisitIndexKeeps
  <1>10. CASE CloseLayer
    BY <1>10, CloseLayerKeeps
  <1>11. CASE AnswerSnapshot
    BY <1>11, AnswerSnapshotKeeps
  <1>. QED
    BY <1>1, <1>2, <1>3, <1>4, <1>5, <1>6, <1>7, <1>8, <1>9, <1>10, <1>11 DEF Next, Step, Done

\* The search of the live graph visits nodes by depth, that of the snapshot indexes
\* layer by layer, and what they have answered is right, in every state.
THEOREM SearchInvariance == Spec => []SearchInv
  <1>1. Init => SearchInv
    BY SearchInit
  <1>2. SearchInv /\ [Next]_vars => SearchInv'
    BY SearchNext
  <1>. QED  BY <1>1, <1>2, PTL DEF Spec

\* The searchers only ever hold nodes of the graph, or indexes of the snapshot.
THEOREM TraversalsTypeCorrect == Spec => []TypeOK
  <1>1. SearchInv => TypeOK
    BY DEF SearchInv, GraphInv, GraphOK, LiveTypes, SnapshotTypes, TypeOK
  <1>. QED  BY <1>1, SearchInvariance, PTL

\* BFS_Searcher: REACHABLE gives the nodes in reach, KHOP those within k hops, and
\* SHORTEST_PATH a path no other is shorter than, in every graph.
THEOREM LiveAnswersCorrect == Spec => []LiveCorrect
  <1>1. SearchInv => LiveCorrect
    BY RightIsCorrect DEF SearchInv, LiveInv, LiveCorrect
  <1>. QED  BY <1>1, SearchInvariance, PTL

\* CSR_Searcher: so does the search over the rows of a snapshot.
THEOREM SnapshotAnswersRight == Spec => []SnapshotCorrect
  <1>1. SearchInv => SnapshotCorrect
    BY RightIsCorrect DEF SearchInv, SnapshotInv, SnapshotCorrect
  <1>. QED  BY <1>1, SearchInvariance, PTL

\* Both engines give the same verdict, as many nodes, and the same ones unless they
\* are a path.
THEOREM EnginesAgreeCorrect == Spec => []EnginesAgree
  <1>1. SearchInv => EnginesAgree
    BY RightAgree DEF SearchInv, LiveInv, SnapshotInv, EnginesAgree
  <1>. QED  BY <1>1, SearchInvariance, PTL

=============================================================================
