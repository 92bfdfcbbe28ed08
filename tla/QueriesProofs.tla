----------------------------- MODULE QueriesProofs -----------------------------
(***************************************************************************)
(* The answers of the statements on the live graph and on a snapshot just  *)
(* captured, for any graph, any history and WHERE clauses of any length.   *)
(***************************************************************************)
EXTENDS Queries, GraphStoreProofs, NumberLemmas

-----------------------------------------------------------------------------
\* evaluateConditions

\* What parsing leaves: a sequence, AND or OR between its conditions, nothing
\* after the last.
WellFormed(where) ==
    /\ \E C : where \in Seq(C)
    /\ \A i \in 1 .. Len(where) - 1 : where[i].logicOp \in {"AND", "OR"}
    /\ where # << >> => where[Len(where)].logicOp \notin {"AND", "OR"}

LEMMA WhereDomain ==
    ASSUME NEW where, WellFormed(where)
    PROVE  /\ Len(where) \in Nat /\ DOMAIN where = 1 .. Len(where)
           /\ where = << >> <=> Len(where) = 0
           /\ \A i \in 1 .. Len(where) - 1 : where[i].logicOp \in {"AND", "OR"}
           /\ where # << >> => where[Len(where)].logicOp \notin {"AND", "OR"}
  <1>1. PICK C : where \in Seq(C)
    BY DEF WellFormed
  <1>2. /\ \A i \in 1 .. Len(where) - 1 : where[i].logicOp \in {"AND", "OR"}
        /\ where # << >> => where[Len(where)].logicOp \notin {"AND", "OR"}
    BY Zenon DEF WellFormed
  <1>. QED  BY <1>1, <1>2

Flags == [anyGroupTrue : BOOLEAN, groupTrue : BOOLEAN]

\* The loop's flags over n conditions, the ones followed by AND being ands: a group
\* has been true iff some group between two other connectors holds whole, and the
\* open group is true iff all of it so far holds.
Group(ands, a, b) ==
    /\ a = 1 \/ a - 1 \notin ands
    /\ a .. b - 1 \subseteq ands

SomeGroupTrue(ands, holding, i) ==
    \E a, b \in 1 .. i : a <= b /\ Group(ands, a, b) /\ b \notin ands /\ a .. b \subseteq holding
OpenGroupTrue(ands, holding, i) ==
    \A k \in 1 .. i : k .. i \subseteq ands => k \in holding

\* One turn of the loop.
NextFlags(ands, holding, flags, i) ==
    LET group == flags.groupTrue /\ i \in holding
    IN  IF i \in ands THEN [flags EXCEPT !.groupTrue = group]
        ELSE [anyGroupTrue |-> flags.anyGroupTrue \/ group, groupTrue |-> TRUE]

LEMMA NextFlagsType ==
    ASSUME NEW ands, NEW holding, NEW flags \in Flags, NEW i
    PROVE  NextFlags(ands, holding, flags, i) \in Flags
  <1>1. CASE i \in ands
    BY <1>1 DEF NextFlags, Flags
  <1>2. CASE i \notin ands
    BY <1>2 DEF NextFlags, Flags
  <1>. QED  BY <1>1, <1>2

LEMMA FlagsStep ==
    ASSUME NEW n \in Nat, NEW ands, NEW holding, NEW i \in 1 .. n, NEW before \in Flags,
           before.anyGroupTrue <=> SomeGroupTrue(ands, holding, i - 1),
           before.groupTrue <=> OpenGroupTrue(ands, holding, i - 1)
    PROVE  LET after == NextFlags(ands, holding, before, i)
           IN  /\ after \in Flags
               /\ after.anyGroupTrue <=> SomeGroupTrue(ands, holding, i)
               /\ after.groupTrue <=> OpenGroupTrue(ands, holding, i)
  <1>. DEFINE after == NextFlags(ands, holding, before, i)
              group == \A k \in 1 .. i : k .. i - 1 \subseteq ands => k \in holding
              closed(m) == SomeGroupTrue(ands, holding, m)
  <1>a. after \in Flags
    BY NextFlagsType
  <1>0. after = IF i \in ands THEN [before EXCEPT !.groupTrue = before.groupTrue /\ i \in holding]
                ELSE [anyGroupTrue |-> before.anyGroupTrue \/ (before.groupTrue /\ i \in holding),
                      groupTrue |-> TRUE]
    BY DEF NextFlags
  <1>. HIDE DEF after
  <1>1. (before.groupTrue /\ i \in holding) <=> group
    <2>1. i .. i - 1 = {} /\ 1 .. i = (1 .. i - 1) \cup {i}
      OBVIOUS
    <2>. QED  BY <2>1 DEF OpenGroupTrue
  <1>2. CASE i \in ands
    <2>1. /\ after.anyGroupTrue <=> before.anyGroupTrue
          /\ after.groupTrue <=> group
      <3>1. after = [before EXCEPT !.groupTrue = before.groupTrue /\ i \in holding]
        BY <1>0, <1>2
      <3>2. /\ after.anyGroupTrue = before.anyGroupTrue
            /\ after.groupTrue = (before.groupTrue /\ i \in holding)
        BY <3>1 DEF Flags
      <3>. QED  BY <1>1, <3>2
    <2>2. closed(i) <=> closed(i - 1)
      BY <1>2 DEF SomeGroupTrue
    <2>3. \A k \in 1 .. i : k .. i \subseteq ands <=> k .. i - 1 \subseteq ands
      BY <1>2
    <2>4. group <=> OpenGroupTrue(ands, holding, i)
      BY <2>3 DEF OpenGroupTrue
    <2>. QED  BY <1>a, <2>1, <2>2, <2>4 DEF after
  <1>3. CASE i \notin ands
    <2>1. after.groupTrue = TRUE /\ (after.anyGroupTrue <=> before.anyGroupTrue \/ group)
      <3>1. after = [anyGroupTrue |-> before.anyGroupTrue \/ (before.groupTrue /\ i \in holding),
                     groupTrue |-> TRUE]
        BY <1>0, <1>3
      <3>. HIDE DEF group
      <3>. QED  BY <1>1, <3>1 DEF Flags
    <2>2. \A k \in 1 .. i : ~(k .. i \subseteq ands)
      BY <1>3
    <2>3. ASSUME group
          PROVE  \E a \in 1 .. i : Group(ands, a, i) /\ a .. i \subseteq holding
      <3>. DEFINE opens == {a \in 1 .. i : a .. i - 1 \subseteq ands}
      <3>1. opens \in SUBSET Nat /\ i \in opens
        OBVIOUS
      <3>. HIDE DEF opens
      <3>2. PICK a \in opens : \A b \in opens : a <= b
        BY <3>1, LeastNumber
      <3>3. a \in 1 .. i /\ a .. i - 1 \subseteq ands
        BY <3>2 DEF opens
      <3>4. a = 1 \/ a - 1 \notin ands
        <4>. SUFFICES ASSUME a # 1, a - 1 \in ands
                      PROVE  FALSE
          OBVIOUS
        <4>1. a - 1 \in 1 .. i /\ a - 1 .. i - 1 = {a - 1} \cup (a .. i - 1)
          BY <3>3
        <4>2. a - 1 \in opens
          BY <3>3, <4>1 DEF opens
        <4>. QED  BY <3>2, <3>3, <4>2
      <3>5. a .. i \subseteq holding
        <4>. SUFFICES ASSUME NEW k \in a .. i
                      PROVE  k \in holding
          OBVIOUS
        <4>1. k \in 1 .. i /\ k .. i - 1 \subseteq a .. i - 1
          BY <3>3
        <4>. QED  BY <2>3, <3>3, <4>1
      <3>. QED  BY <3>3, <3>4, <3>5 DEF Group
    <2>4. ASSUME NEW a \in 1 .. i, Group(ands, a, i), a .. i \subseteq holding
          PROVE  group
      <3>. SUFFICES ASSUME NEW k \in 1 .. i, k .. i - 1 \subseteq ands
                    PROVE  k \in holding
        OBVIOUS
      <3>1. a <= k
        <4>. SUFFICES ASSUME k < a
                      PROVE  FALSE
          OBVIOUS
        <4>1. a - 1 \in k .. i - 1 /\ a # 1
          OBVIOUS
        <4>. QED  BY <2>4, <4>1 DEF Group
      <3>2. k \in a .. i
        BY <3>1
      <3>. QED  BY <2>4, <3>2
    <2>. HIDE DEF group
    <2>5. closed(i) <=> closed(i - 1) \/ \E a \in 1 .. i : Group(ands, a, i) /\ a .. i \subseteq holding
      BY <1>3 DEF SomeGroupTrue
    <2>6. closed(i) <=> closed(i - 1) \/ group
      BY <2>3, <2>4, <2>5
    <2>7. after.anyGroupTrue <=> closed(i)
      <3>1. before.anyGroupTrue <=> closed(i - 1)
        OBVIOUS
      <3>. QED  BY <2>1, <2>6, <3>1
    <2>. QED  BY <1>a, <2>1, <2>2, <2>7 DEF OpenGroupTrue, after
  <1>. QED  BY <1>2, <1>3

LEMMA FlagsAfter ==
    ASSUME NEW n \in Nat, NEW ands, NEW holding, NEW f,
           f[0] = [anyGroupTrue |-> FALSE, groupTrue |-> TRUE],
           \A i \in 1 .. n : f[i] = NextFlags(ands, holding, f[i - 1], i)
    PROVE  f[n].anyGroupTrue <=> SomeGroupTrue(ands, holding, n)
  <1>. DEFINE Counted(i) == /\ f[i] \in Flags
                            /\ f[i].anyGroupTrue <=> SomeGroupTrue(ands, holding, i)
                            /\ f[i].groupTrue <=> OpenGroupTrue(ands, holding, i)
              wrong == {i \in 0 .. n : ~Counted(i)}
  <1>1. Counted(0)
    <2>1. 1 .. 0 = {}
      OBVIOUS
    <2>. QED  BY <2>1 DEF Flags, SomeGroupTrue, OpenGroupTrue
  <1>2. ASSUME NEW i \in 1 .. n, Counted(i - 1)
        PROVE  Counted(i)
    BY <1>2, FlagsStep
  <1>. HIDE DEF Counted
  <1>3. wrong = {}
    <2>. SUFFICES ASSUME wrong # {}
                  PROVE  FALSE
      OBVIOUS
    <2>1. wrong \in SUBSET Nat
      OBVIOUS
    <2>. HIDE DEF wrong
    <2>2. PICK k \in wrong : \A j \in wrong : k <= j
      BY <2>1, LeastNumber
    <2>3. k \in 0 .. n /\ ~Counted(k) /\ \A j \in 0 .. n : j < k => Counted(j)
      BY <2>2 DEF wrong
    <2>4. k \in 1 .. n /\ Counted(k - 1)
      BY <1>1, <2>3
    <2>. QED  BY <1>2, <2>3, <2>4
  <1>4. Counted(n)
    BY <1>3
  <1>. QED  BY <1>4 DEF Counted

\* The loop of evaluateConditions, whose flags start afresh at every OR, computes
\* what the documentation says a WHERE means: for a clause of any length, some group
\* of ANDed conditions holds whole.
THEOREM EvaluatesSums ==
    ASSUME NEW where, NEW holding, WellFormed(where)
    PROVE  evaluateConditions(where, holding) <=> SumOfProducts(where, holding)
  <1>. DEFINE n == Len(where)
              ands == {i \in DOMAIN where : where[i].logicOp = "AND"}
              start == [anyGroupTrue |-> FALSE, groupTrue |-> TRUE]
              next == [i \in 1 .. n |-> [flags \in Flags |-> NextFlags(ands, holding, flags, i)]]
              Turn(f, i) ==
                IF i = 0 THEN start
                ELSE LET group == f[i - 1].groupTrue /\ i \in holding
                     IN  IF where[i].logicOp = "AND" THEN [f[i - 1] EXCEPT !.groupTrue = group]
                         ELSE [anyGroupTrue |-> f[i - 1].anyGroupTrue \/ group, groupTrue |-> TRUE]
              IsAfter(f) == f = [i \in 0 .. n |-> Turn(f, i)]
              after == CHOOSE f : IsAfter(f)
  <1>0. n \in Nat
    BY WhereDomain
  <1>1. /\ n \in Nat /\ Len(where) = n /\ DOMAIN where = 1 .. n
        /\ where = << >> <=> n = 0
        /\ \A i \in 1 .. n - 1 : where[i].logicOp \in {"AND", "OR"}
        /\ where # << >> => where[n].logicOp \notin {"AND", "OR"}
    BY WhereDomain
  <1>2. evaluateConditions(where, holding) <=> where = << >> \/ after[n].anyGroupTrue
    BY DEF evaluateConditions
  <1>. HIDE DEF n
  <1>3. \A i \in 1 .. n : where[i].logicOp = "AND" <=> i \in ands
    BY <1>1
  <1>4. \A flags \in Flags, i \in 1 .. n : NextFlags(ands, holding, flags, i) \in Flags
    BY NextFlagsType
  <1>5. ASSUME NEW f, NEW i \in 1 .. n
        PROVE  Turn(f, i) = NextFlags(ands, holding, f[i - 1], i)
    <2>1. i # 0 /\ (where[i].logicOp = "AND" <=> i \in ands)
      BY <1>1, <1>3
    <2>. HIDE DEF ands
    <2>2. CASE i \in ands
      BY <2>1, <2>2 DEF NextFlags
    <2>3. CASE i \notin ands
      BY <2>1, <2>3 DEF NextFlags
    <2>. QED  BY <2>2, <2>3
  <1>. HIDE DEF Turn
  <1>6. \A f : Turn(f, 0) = start
    BY DEF Turn
  <1>7. \E f : IsAfter(f)
    <2>1. start \in Flags /\ next \in [1 .. n -> [Flags -> Flags]]
      BY <1>4 DEF Flags
    <2>2. PICK f \in [0 .. n -> Flags] : Recursive(f, n, start, next)
      <3>. HIDE DEF start, next
      <3>. QED  BY <1>0, <2>1, RecursionDefined
    <2>3. \A i \in 1 .. n : f[i - 1] \in Flags
      BY <1>1
    <2>4. \A i \in 1 .. n : f[i] = NextFlags(ands, holding, f[i - 1], i)
      BY <2>2, <2>3 DEF Recursive
    <2>5. \A i \in 0 .. n : i = 0 \/ i \in 1 .. n
      BY <1>0
    <2>6. \A i \in 0 .. n : f[i] = Turn(f, i)
      BY <1>5, <1>6, <2>2, <2>4, <2>5 DEF Recursive
    <2>. QED  BY <2>6
  <1>8. after[n].anyGroupTrue <=> SomeGroupTrue(ands, holding, n)
    <2>1. IsAfter(after)
      BY <1>7
    <2>. HIDE DEF after
    <2>2. after[0] = start /\ \A i \in 1 .. n : after[i] = Turn(after, i)
      BY <1>1, <1>6, <2>1
    <2>3. \A i \in 1 .. n : after[i] = NextFlags(ands, holding, after[i - 1], i)
      BY <1>5, <2>2
    <2>. HIDE DEF ands
    <2>. QED  BY <1>0, <2>2, <2>3, FlagsAfter
  <1>9. ASSUME where # << >>
        PROVE  SumOfProducts(where, holding) <=> SomeGroupTrue(ands, holding, n)
    <2>1. \A i \in 1 .. n - 1 : where[i].logicOp = "OR" <=> i \notin ands
      BY <1>1
    <2>2. n \in 1 .. n /\ n \notin ands
      BY <1>1, <1>9
    <2>3. \A a, b \in 1 .. n : Group(ands, a, b) <=>
            /\ a = 1 \/ where[a - 1].logicOp = "OR"
            /\ \A k \in a .. b - 1 : where[k].logicOp = "AND"
      <3>. TAKE a, b \in 1 .. n
      <3>1. a # 1 => a - 1 \in 1 .. n - 1
        BY <1>1
      <3>2. \A k \in a .. b - 1 : k \in 1 .. n
        BY <1>1
      <3>. HIDE DEF n, ands
      <3>. QED  BY <1>3, <2>1, <3>1, <3>2 DEF Group
    <2>4. \A b \in 1 .. n : b \notin ands <=> b = n \/ where[b].logicOp = "OR"
      <3>. TAKE b \in 1 .. n
      <3>1. b # n => b \in 1 .. n - 1
        BY <1>1
      <3>. HIDE DEF ands
      <3>. QED  BY <2>1, <2>2, <3>1
    <2>5. SumOfProducts(where, holding) <=> \E a, b \in 1 .. n :
            /\ a = 1 \/ where[a - 1].logicOp = "OR"
            /\ b = n \/ where[b].logicOp = "OR"
            /\ a <= b /\ a .. b \subseteq holding
            /\ \A k \in a .. b - 1 : where[k].logicOp = "AND"
      BY <1>1, <1>9 DEF SumOfProducts
    <2>. HIDE DEF n, ands
    <2>. QED  BY <2>3, <2>4, <2>5 DEF SomeGroupTrue
  <1>. HIDE DEF n, ands, after
  <1>10. CASE where = << >>
    BY <1>10 DEF evaluateConditions, SumOfProducts
  <1>11. CASE where # << >>
    BY <1>2, <1>8, <1>9, <1>11 DEF after
  <1>. QED  BY <1>10, <1>11

\* Without an OR every condition has to hold.
LEMMA SumsWithoutOr ==
    ASSUME NEW where, NEW holding, WellFormed(where), ~whereHasOr(where)
    PROVE  SumOfProducts(where, holding) <=> DOMAIN where \subseteq holding
  <1>. DEFINE n == Len(where)
  <1>1. /\ n \in Nat /\ DOMAIN where = 1 .. n /\ (where = << >> <=> n = 0)
        /\ \A i \in 1 .. n - 1 : where[i].logicOp \in {"AND", "OR"}
    BY WhereDomain
  <1>2. \A i \in 1 .. n : where[i].logicOp # "OR"
    BY <1>1 DEF whereHasOr
  <1>3. \A i \in 1 .. n - 1 : where[i].logicOp = "AND"
    BY <1>1, <1>2
  <1>4. SumOfProducts(where, holding) <=>
          \/ where = << >>
          \/ \E i, j \in 1 .. n :
               /\ i = 1 \/ where[i - 1].logicOp = "OR"
               /\ j = n \/ where[j].logicOp = "OR"
               /\ i <= j /\ i .. j \subseteq holding
               /\ \A k \in i .. j - 1 : where[k].logicOp = "AND"
    BY <1>1 DEF SumOfProducts
  <1>. HIDE DEF n
  <1>5. CASE n = 0
    BY <1>1, <1>5 DEF SumOfProducts
  <1>6. CASE n # 0
    <2>1. 1 \in 1 .. n /\ n \in 1 .. n /\ 1 <= n
      BY <1>1, <1>6
    <2>2. ASSUME 1 .. n \subseteq holding
          PROVE  SumOfProducts(where, holding)
      BY <1>3, <1>4, <2>1, <2>2
    <2>3. ASSUME SumOfProducts(where, holding)
          PROVE  1 .. n \subseteq holding
      <3>1. PICK i, j \in 1 .. n : /\ i = 1 \/ where[i - 1].logicOp = "OR"
                                   /\ j = n \/ where[j].logicOp = "OR"
                                   /\ i .. j \subseteq holding
        BY <1>1, <1>4, <1>6, <2>3
      <3>2. j = n
        BY <1>2, <3>1
      <3>3. i # 1 => i - 1 \in 1 .. n
        BY <1>1
      <3>4. i = 1
        BY <1>2, <3>1, <3>3
      <3>. QED  BY <3>1, <3>2, <3>4
    <2>. QED  BY <1>1, <2>2, <2>3
  <1>. QED  BY <1>5, <1>6

Holds(x, row, where) == {i \in DOMAIN where : testCondition(x, row, where[i])}

LEMMA MatchingSatisfies ==
    ASSUME NEW rows, NEW ids, NEW where, WellFormed(where)
    PROVE  Matching(rows, ids, where) = ids \cap Satisfying(rows, where)
  <1>1. \A x : matchesConditions(x, rows[x], where) <=> SumOfProducts(where, Holds(x, rows[x], where))
    BY EvaluatesSums DEF matchesConditions, Holds
  <1>2. Satisfying(rows, where) = {x \in DOMAIN rows : SumOfProducts(where, Holds(x, rows[x], where))}
    BY DEF Satisfying, Holds
  <1>. QED  BY <1>1, <1>2 DEF Matching

LEMMA SatisfyingWithoutOr ==
    ASSUME NEW rows, NEW where, WellFormed(where), ~whereHasOr(where)
    PROVE  Satisfying(rows, where) =
             {x \in DOMAIN rows : \A i \in DOMAIN where : testCondition(x, rows[x], where[i])}
  <1>1. Satisfying(rows, where) = {x \in DOMAIN rows : SumOfProducts(where, Holds(x, rows[x], where))}
    BY DEF Satisfying, Holds
  <1>2. \A x : SumOfProducts(where, Holds(x, rows[x], where)) <=> DOMAIN where \subseteq Holds(x, rows[x], where)
    BY SumsWithoutOr
  <1>. QED  BY <1>1, <1>2 DEF Holds

-----------------------------------------------------------------------------
\* What a scan returns

LEMMA ScanAnswers ==
    ASSUME NEW ids, NEW top
    PROVE  /\ Answers(Scanned(ids, top), ids, Cardinality(ids))
           /\ top = NoTop => [Scanned(ids, top) EXCEPT !.truncated = @ /\ top = NoTop] = Scanned(ids, top)
  <1>. DEFINE cap == IF top = NoTop THEN ScanCap ELSE top
              kept == {x \in ids : Position(ids, x) <= cap}
  <1>1. kept \subseteq ids /\ Scanned(ids, top) = [Rows(kept) EXCEPT !.truncated = kept # ids]
    BY DEF Scanned
  <1>. HIDE DEF kept
  <1>. DEFINE cut == kept # ids
  <1>2. cut \in BOOLEAN /\ (~cut => kept = ids)
    OBVIOUS
  <1>. HIDE DEF cut
  <1>3. Scanned(ids, top) = [success |-> TRUE, rows |-> kept, count |-> Cardinality(kept), truncated |-> cut]
    BY <1>1 DEF Rows, cut
  <1>4. Answers(Scanned(ids, top), ids, Cardinality(ids))
    BY <1>1, <1>2, <1>3 DEF Answers
  <1>5. ASSUME top = NoTop
        PROVE  [Scanned(ids, top) EXCEPT !.truncated = @ /\ top = NoTop] = Scanned(ids, top)
    <2>. DEFINE r == Scanned(ids, top)
    <2>1. r = [success |-> TRUE, rows |-> kept, count |-> Cardinality(kept), truncated |-> cut]
      BY <1>3
    <2>. HIDE DEF r
    <2>2. (r.truncated /\ top = NoTop) = r.truncated
      BY <1>2, <1>5, <2>1
    <2>3. [r EXCEPT !.truncated = r.truncated /\ top = NoTop] = r
      BY <2>1, <2>2
    <2>. QED  BY <2>3 DEF r
  <1>. QED  BY <1>4, <1>5

\* A set of rows an index leads to.
LEMMA RowsAnswer ==
    ASSUME NEW ids
    PROVE  Answers(Rows(ids), ids, Cardinality(ids))
  BY DEF Answers, Rows

-----------------------------------------------------------------------------
\* The clauses of the documented forms

SameTest(c, d) == c.property = d.property /\ c.op = d.op /\ c.value = d.value

LEMMA ConditionFields ==
    ASSUME NEW P, NEW O, NEW V, NEW c \in Condition(P, O, V)
    PROVE  /\ c.property \in P /\ c.op \in O /\ c.value \in V /\ c.logicOp \notin {"AND", "OR"}
           /\ \A connector : /\ SameTest([c EXCEPT !.logicOp = connector], c)
                             /\ [c EXCEPT !.logicOp = connector].logicOp = connector
  BY Zenon DEF Condition, SameTest

LEMMA OneCondition ==
    ASSUME NEW P, NEW O, NEW V, NEW c \in Condition(P, O, V)
    PROVE  LET where == <<c>>
           IN  /\ DOMAIN where = {1} /\ where[1] = c /\ where # << >>
               /\ ~whereHasOr(where) /\ WellFormed(where)
  <1>1. c.logicOp \notin {"AND", "OR"}
    BY ConditionFields
  <1>2. \A x : DOMAIN <<x>> = {1} /\ <<x>>[1] = x /\ Len(<<x>>) = 1 /\ <<x>> # << >> /\ <<x>> \in Seq({x})
    OBVIOUS
  <1>. DEFINE where == <<c>>
  <1>3. DOMAIN where = {1} /\ where[1] = c /\ Len(where) = 1 /\ where # << >> /\ where \in Seq({c})
    BY <1>2
  <1>. HIDE DEF where
  <1>4. ~whereHasOr(where) /\ WellFormed(where)
    BY <1>1, <1>3 DEF whereHasOr, WellFormed
  <1>. QED  BY <1>3, <1>4 DEF where

LEMMA TwoConditions ==
    ASSUME NEW P, NEW O, NEW V, NEW c \in Condition(P, O, V),
           NEW Q, NEW N, NEW W, NEW d \in Condition(Q, N, W),
           NEW connector \in {"AND", "OR"}
    PROVE  LET where == Joined(c, connector, d)
           IN  /\ DOMAIN where = {1, 2} /\ SameTest(where[1], c) /\ where[2] = d /\ where # << >>
               /\ whereHasOr(where) <=> connector = "OR"
               /\ WellFormed(where)
  <1>. DEFINE first == [c EXCEPT !.logicOp = connector]
              where == Joined(c, connector, d)
  <1>1. d.logicOp \notin {"AND", "OR"} /\ SameTest(first, c) /\ first.logicOp = connector
    BY ConditionFields
  <1>2. where = <<first, d>>
    BY DEF Joined
  <1>. HIDE DEF first, where
  <1>3. /\ DOMAIN where = {1, 2} /\ where[1] = first /\ where[2] = d /\ Len(where) = 2
        /\ where # << >> /\ where \in Seq({first, d})
    BY <1>2
  <1>4. whereHasOr(where) <=> connector = "OR"
    BY <1>1, <1>3 DEF whereHasOr
  <1>5. WellFormed(where)
    BY <1>1, <1>3 DEF WellFormed
  <1>. QED  BY <1>1, <1>3, <1>4, <1>5 DEF where

LEMMA ThreeConditions ==
    ASSUME NEW P, NEW O, NEW V, NEW c \in Condition(P, O, V),
           NEW Q, NEW N, NEW W, NEW d \in Condition(Q, N, W),
           NEW R, NEW M, NEW X, NEW e \in Condition(R, M, X),
           NEW connector \in {"AND", "OR"}
    PROVE  LET where == Joined3(c, connector, d, "AND", e)
           IN  /\ DOMAIN where = {1, 2, 3} /\ where # << >>
               /\ SameTest(where[1], c) /\ SameTest(where[2], d) /\ where[3] = e
               /\ whereHasOr(where) <=> connector = "OR"
               /\ WellFormed(where)
  <1>. DEFINE first == [c EXCEPT !.logicOp = connector]
              second == [d EXCEPT !.logicOp = "AND"]
              where == Joined3(c, connector, d, "AND", e)
  <1>1. /\ e.logicOp \notin {"AND", "OR"}
        /\ SameTest(first, c) /\ first.logicOp = connector
        /\ SameTest(second, d) /\ second.logicOp = "AND"
    BY ConditionFields
  <1>2. where = <<first, second, e>>
    BY DEF Joined3
  <1>. HIDE DEF first, second, where
  <1>3. /\ DOMAIN where = {1, 2, 3} /\ where[1] = first /\ where[2] = second /\ where[3] = e
        /\ Len(where) = 3 /\ where # << >> /\ where \in Seq({first, second, e})
    BY <1>2
  <1>4. whereHasOr(where) <=> connector = "OR"
    BY <1>1, <1>3 DEF whereHasOr
  <1>5. WellFormed(where)
    BY <1>1, <1>3 DEF WellFormed
  <1>. QED  BY <1>1, <1>3, <1>4, <1>5 DEF where

\* A clause with an OR, or none at all, goes to the scan.
LEMMA OrFormsScanned ==
    ASSUME NEW conditions, conditions \in {NodeConditions, EdgeConditions}, NEW where \in OrWheres(conditions)
    PROVE  whereHasOr(where) /\ WellFormed(where)
  <1>1. ASSUME NEW c \in conditions
        PROVE  \E P, O, V : c \in Condition(P, O, V)
    BY <1>1 DEF NodeConditions, EdgeConditions, WithId, WithLabel, WithProperty
  <1>2. CASE \E c \in conditions, d \in WithLabel : where = Joined(c, "OR", d)
    <2>1. PICK c \in conditions, d \in WithLabel : where = Joined(c, "OR", d)
      BY <1>2
    <2>2. PICK P, O, V : c \in Condition(P, O, V)
      BY <1>1
    <2>. QED  BY <2>1, <2>2, TwoConditions DEF WithLabel
  <1>3. CASE \E c, d \in Equal("LABEL", Labels), e \in conditions : where = Joined3(c, "OR", d, "AND", e)
    <2>1. PICK c, d \in Equal("LABEL", Labels), e \in conditions : where = Joined3(c, "OR", d, "AND", e)
      BY <1>3
    <2>2. PICK P, O, V : e \in Condition(P, O, V)
      BY <1>1
    <2>. QED  BY <2>1, <2>2, ThreeConditions DEF Equal
  <1>. QED  BY <1>2, <1>3 DEF OrWheres

LEMMA AndFormsJoined ==
    ASSUME NEW conditions, conditions \in {NodeConditions, EdgeConditions}, NEW where \in AndWheres(conditions)
    PROVE  WellFormed(where)
  <1>1. ASSUME NEW c \in conditions
        PROVE  \E P, O, V : c \in Condition(P, O, V)
    BY <1>1 DEF NodeConditions, EdgeConditions, WithId, WithLabel, WithProperty
  <1>2. CASE \E c \in conditions : where = <<c>>
    <2>1. PICK c \in conditions : where = <<c>>
      BY <1>2
    <2>. QED  BY <1>1, <2>1, OneCondition
  <1>3. CASE \E c, d \in conditions : where = Joined(c, "AND", d)
    <2>1. PICK c, d \in conditions : where = Joined(c, "AND", d)
      BY <1>3
    <2>. QED  BY <1>1, <2>1, TwoConditions
  <1>. QED  BY <1>2, <1>3 DEF AndWheres

-----------------------------------------------------------------------------
\* What an index is asked for

LEMMA EqualityTest ==
    ASSUME NEW x, NEW row, NEW c, c.op = "="
    PROVE  /\ c.property = "ID" => (testCondition(x, row, c) <=> c.value # Unparsable /\ x = c.value)
           /\ c.property = "LABEL" => (testCondition(x, row, c) <=> row.label = c.value)
  <1>1. \A actual, value : executeIdentity(c.op, actual, value) <=> actual = value
    BY DEF executeIdentity, executeCondition
  <1>2. c.property = "ID" => (testCondition(x, row, c) <=> c.value # Unparsable /\ executeIdentity(c.op, x, c.value))
    BY DEF testCondition
  <1>3. c.property = "LABEL" => (testCondition(x, row, c) <=> executeIdentity(c.op, row.label, c.value))
    BY DEF testCondition
  <1>. QED  BY <1>1, <1>2, <1>3

LEMMA FirstEquality ==
    ASSUME NEW where, WellFormed(where), NEW property, Anchored(where, property)
    PROVE  \E i \in DOMAIN where : /\ where[i].property = property /\ where[i].op = "="
                                   /\ FirstValue(where, property) = where[i].value
  <1>. DEFINE served == Equalities(where, {property})
              first == CHOOSE i \in served : \A j \in served : i <= j
  <1>1. served # {} /\ served \in SUBSET Nat
    BY WhereDomain DEF Anchored, Equalities
  <1>2. FirstValue(where, property) = where[first].value
    BY DEF FirstValue
  <1>3. \A i \in served : i \in DOMAIN where /\ where[i].property = property /\ where[i].op = "="
    BY DEF Equalities
  <1>. HIDE DEF served
  <1>4. first \in served
    BY <1>1, LeastNumber
  <1>. HIDE DEF first
  <1>. QED  BY <1>2, <1>3, <1>4

\* An UPDATE looks only at the rows its first equality on ID, or else on LABEL,
\* leaves; those are all the rows its WHERE can be true of.
LEMMA CandidatesSuffice ==
    ASSUME NEW rows, NEW byLabel, NEW where, WellFormed(where),
           \A x \in DOMAIN rows : rows[x].label \in Labels,
           \A l \in Labels : byLabel[l] = {x \in DOMAIN rows : rows[x].label = l}
    PROVE  Matching(rows, Candidates(where, DOMAIN rows, byLabel), where) = Satisfying(rows, where)
  <1>. DEFINE candidates == Candidates(where, DOMAIN rows, byLabel)
  <1>1. Satisfying(rows, where) \subseteq DOMAIN rows
    BY DEF Satisfying
  <1>2. ASSUME NEW x \in Satisfying(rows, where), ~whereHasOr(where), NEW property, Anchored(where, property)
        PROVE  \E i \in DOMAIN where :
                 /\ where[i].property = property /\ where[i].op = "="
                 /\ FirstValue(where, property) = where[i].value
                 /\ testCondition(x, rows[x], where[i])
    BY <1>2, FirstEquality, SatisfyingWithoutOr
  <1>3. Satisfying(rows, where) \subseteq candidates
    <2>. SUFFICES ASSUME NEW x \in Satisfying(rows, where)
                  PROVE  x \in candidates
      OBVIOUS
    <2>1. CASE whereHasOr(where)
      BY <1>1, <2>1 DEF Candidates
    <2>2. CASE ~whereHasOr(where) /\ Anchored(where, "ID")
      <3>1. x = FirstValue(where, "ID")
        BY <1>2, <2>2, EqualityTest
      <3>. QED  BY <2>2, <3>1 DEF Candidates
    <2>3. CASE ~whereHasOr(where) /\ ~Anchored(where, "ID") /\ Anchored(where, "LABEL")
      <3>1. rows[x].label = FirstValue(where, "LABEL")
        BY <1>2, <2>3, EqualityTest
      <3>2. x \in byLabel[FirstValue(where, "LABEL")]
        BY <1>1, <3>1
      <3>. QED  BY <2>3, <3>2 DEF Candidates
    <2>4. CASE ~whereHasOr(where) /\ ~Anchored(where, "ID") /\ ~Anchored(where, "LABEL")
      BY <1>1, <2>4 DEF Candidates
    <2>. QED  BY <2>1, <2>2, <2>3, <2>4
  <1>. HIDE DEF candidates
  <1>4. Matching(rows, candidates, where) = candidates \cap Satisfying(rows, where)
    BY MatchingSatisfies
  <1>. QED  BY <1>3, <1>4 DEF candidates

LEMMA LiveIndexes ==
    ASSUME IInv
    PROVE  /\ nodeInsertionOrder = DOMAIN nodes /\ edgeInsertionOrder = DOMAIN edges
           /\ DOMAIN nodes \subseteq NodeIds /\ DOMAIN edges \subseteq EdgeIds
           /\ \A n \in DOMAIN nodes : nodes[n] \in Node
           /\ \A e \in DOMAIN edges : edges[e] \in Edge
           /\ \A n \in DOMAIN nodes : nodes[n].label \in Labels
           /\ \A e \in DOMAIN edges : edges[e].label \in Labels
           /\ \A l \in Labels : /\ labelToNodes[l] = {n \in DOMAIN nodes : nodes[n].label = l}
                                /\ labelToEdges[l] = {e \in DOMAIN edges : edges[e].label = l}
           /\ \A n \in NodeIds : /\ adjacencyOut[n] = {e \in DOMAIN edges : edges[e].from = n}
                                 /\ adjacencyIn[n] = {e \in DOMAIN edges : edges[e].to = n}
  BY DEF IInv, IndexesMatchLive, TypeOK, Node, Edge

\* Query.cpp:1868: for any graph and any WHERE, an UPDATE selects what a scan of
\* all rows selects.
THEOREM UpdateCorrect == Spec => []UpdateAsScan
  <1>1. ASSUME IInv, NEW where, WellFormed(where)
        PROVE  /\ executeUpdateNodes(where) = Satisfying(nodes, where)
               /\ executeUpdateEdges(where) = Satisfying(edges, where)
    <2>1. /\ nodeInsertionOrder = DOMAIN nodes /\ edgeInsertionOrder = DOMAIN edges
          /\ \A n \in DOMAIN nodes : nodes[n].label \in Labels
          /\ \A e \in DOMAIN edges : edges[e].label \in Labels
          /\ \A l \in Labels : /\ labelToNodes[l] = {n \in DOMAIN nodes : nodes[n].label = l}
                               /\ labelToEdges[l] = {e \in DOMAIN edges : edges[e].label = l}
      BY <1>1, LiveIndexes
    <2>. QED  BY <1>1, <2>1, CandidatesSuffice DEF executeUpdateNodes, executeUpdateEdges
  <1>2. IInv => UpdateAsScan
    <2>1. \A where \in AndWheres(NodeConditions) \cup OrWheres(NodeConditions) : WellFormed(where)
      BY AndFormsJoined, OrFormsScanned
    <2>2. \A where \in AndWheres(EdgeConditions) \cup OrWheres(EdgeConditions) : WellFormed(where)
      BY AndFormsJoined, OrFormsScanned
    <2>. QED  BY <1>1, <2>1, <2>2 DEF UpdateAsScan
  <1>. QED  BY <1>2, Invariance, PTL

-----------------------------------------------------------------------------
\* SELECT

LEMMA ServedOnce ==
    ASSUME NEW where, NEW property, NEW i \in Nat, Equalities(where, {property}) = {i}
    PROVE  /\ Anchored(where, property)
           /\ FirstValue(where, property) = where[i].value
           /\ LastValue(where, property) = where[i].value
  BY DEF Anchored, FirstValue, LastValue

\* What the documented forms have in common: an equality on ID alone, or one on
\* LABEL followed by nothing but properties, or a property alone.
IdForm(where, id) ==
    /\ DOMAIN where = {1}
    /\ where[1].property = "ID" /\ where[1].op = "=" /\ where[1].value = id
LabelForm(where, l) ==
    /\ 1 \in DOMAIN where /\ DOMAIN where \subseteq {1, 2}
    /\ where[1].property = "LABEL" /\ where[1].op = "=" /\ where[1].value = l
    /\ \A i \in DOMAIN where \ {1} : where[i].property \notin {"ID", "LABEL"}
PropertyForm(where) == DOMAIN where = {1} /\ where[1].property \notin {"ID", "LABEL"}
Indexed(where) == WellFormed(where) /\ ~whereHasOr(where) /\ where # << >>

LEMMA NodeFormKinds ==
    ASSUME NEW where \in NodeForms
    PROVE  /\ WellFormed(where)
           /\ \/ where = << >> \/ whereHasOr(where)
              \/ Indexed(where) /\ \E id \in NodeIds : IdForm(where, id)
              \/ Indexed(where) /\ \E l \in Labels : LabelForm(where, l)
              \/ Indexed(where) /\ PropertyForm(where) /\ where \in PropertyForms
  <1>1. CASE where = << >>
    <2>1. << >> \in Seq({}) /\ Len(<< >>) = 0
      OBVIOUS
    <2>. QED  BY <1>1, <2>1 DEF WellFormed
  <1>2. CASE \E c \in Equal("ID", NodeIds) : where = <<c>>
    <2>1. PICK c \in Equal("ID", NodeIds) : where = <<c>>
      BY <1>2
    <2>2. c.property = "ID" /\ c.op = "=" /\ c.value \in NodeIds
      BY <2>1, ConditionFields DEF Equal
    <2>. QED  BY <2>1, <2>2, OneCondition DEF Equal, Indexed, IdForm
  <1>3. CASE \E c \in Equal("LABEL", Labels) : where = <<c>>
    <2>1. PICK c \in Equal("LABEL", Labels) : where = <<c>>
      BY <1>3
    <2>2. c.property = "LABEL" /\ c.op = "=" /\ c.value \in Labels
      BY <2>1, ConditionFields DEF Equal
    <2>. QED  BY <2>1, <2>2, OneCondition DEF Equal, Indexed, LabelForm
  <1>4. CASE \E c \in Equal("LABEL", Labels), d \in WithProperty : where = Joined(c, "AND", d)
    <2>1. PICK c \in Equal("LABEL", Labels), d \in WithProperty : where = Joined(c, "AND", d)
      BY <1>4
    <2>2. /\ c.property = "LABEL" /\ c.op = "=" /\ c.value \in Labels
          /\ d.property \notin {"ID", "LABEL"}
      BY <2>1, ConditionFields DEF Equal, WithProperty
    <2>3. /\ DOMAIN where = {1, 2} /\ SameTest(where[1], c) /\ where[2] = d /\ where # << >>
          /\ ~whereHasOr(where) /\ WellFormed(where)
      BY <2>1, TwoConditions DEF Equal, WithProperty
    <2>. QED  BY <2>2, <2>3 DEF Indexed, LabelForm, SameTest
  <1>5. CASE where \in OrWheres(NodeConditions)
    BY <1>5, OrFormsScanned
  <1>6. CASE where \in PropertyForms
    <2>1. PICK c \in WithProperty : where = <<c>>
      BY <1>6 DEF PropertyForms
    <2>2. c.property \notin {"ID", "LABEL"}
      BY <2>1, ConditionFields DEF WithProperty
    <2>. QED  BY <1>6, <2>1, <2>2, OneCondition DEF WithProperty, Indexed, PropertyForm
  <1>. QED  BY <1>1, <1>2, <1>3, <1>4, <1>5, <1>6 DEF NodeForms

\* What each kind satisfies.
LEMMA IdFormRead ==
    ASSUME NEW where, Indexed(where), NEW id, IdForm(where, id), id # Unparsable
    PROVE  /\ Equalities(where, {"ID"}) = {1} /\ Equalities(where, {"LABEL"}) = {}
           /\ Equalities(where, {"ID", "LABEL"}) = {1}
           /\ Equalities(where, {"ID", "FROM", "LABEL"}) = {1}
           /\ \A property : property # "ID" => ~Anchored(where, property)
           /\ Anchored(where, "ID") /\ FirstValue(where, "ID") = id /\ LastValue(where, "ID") = id
           /\ \A rows : Satisfying(rows, where) = {id} \cap DOMAIN rows
  <1>1. /\ Equalities(where, {"ID"}) = {1} /\ Equalities(where, {"LABEL"}) = {}
        /\ Equalities(where, {"ID", "LABEL"}) = {1}
        /\ Equalities(where, {"ID", "FROM", "LABEL"}) = {1}
        /\ \A property : property # "ID" => ~Anchored(where, property)
    BY DEF Equalities, IdForm, Anchored
  <1>2. Anchored(where, "ID") /\ FirstValue(where, "ID") = id /\ LastValue(where, "ID") = id
    BY <1>1, ServedOnce DEF IdForm
  <1>3. \A x, row : testCondition(x, row, where[1]) <=> x = id
    BY EqualityTest DEF IdForm
  <1>4. \A rows : Satisfying(rows, where) = {id} \cap DOMAIN rows
    BY <1>3, SatisfyingWithoutOr DEF IdForm, Indexed
  <1>. QED  BY <1>1, <1>2, <1>4

\* The conditions after the label, read as properties.
RestHolds(node, where) ==
    \A i \in DOMAIN where \ {1} :
        executeCondition(where[i].op, ValueOf(node, where[i].property), where[i].value)

LEMMA LabelFormRead ==
    ASSUME NEW where, Indexed(where), NEW l, LabelForm(where, l)
    PROVE  /\ Equalities(where, {"ID"}) = {} /\ Equalities(where, {"LABEL"}) = {1}
           /\ Equalities(where, {"ID", "LABEL"}) = {1}
           /\ 1 \in Equalities(where, {"ID", "FROM", "LABEL"})
           /\ ~Anchored(where, "ID")
           /\ Anchored(where, "LABEL") /\ FirstValue(where, "LABEL") = l /\ LastValue(where, "LABEL") = l
           /\ \A rows :
                (\A x \in DOMAIN rows : "properties" \in DOMAIN rows[x]) =>
                    Satisfying(rows, where) =
                      {x \in DOMAIN rows : rows[x].label = l /\ RestHolds(rows[x], where)}
           /\ DOMAIN where = {1} =>
                \A rows : Satisfying(rows, where) = {x \in DOMAIN rows : rows[x].label = l}
  <1>1. /\ Equalities(where, {"ID"}) = {} /\ Equalities(where, {"LABEL"}) = {1}
        /\ Equalities(where, {"ID", "LABEL"}) = {1}
        /\ 1 \in Equalities(where, {"ID", "FROM", "LABEL"})
        /\ ~Anchored(where, "ID")
    BY DEF Equalities, LabelForm, Anchored
  <1>2. Anchored(where, "LABEL") /\ FirstValue(where, "LABEL") = l /\ LastValue(where, "LABEL") = l
    BY <1>1, ServedOnce DEF LabelForm
  <1>3. \A x, row : testCondition(x, row, where[1]) <=> row.label = l
    BY EqualityTest DEF LabelForm
  <1>4. \A x, row : \A i \in DOMAIN where \ {1} :
          testCondition(x, row, where[i]) <=>
            /\ "properties" \in DOMAIN row
            /\ executeCondition(where[i].op, ValueOf(row, where[i].property), where[i].value)
    BY DEF LabelForm, testCondition
  <1>5. \A rows : Satisfying(rows, where) =
            {x \in DOMAIN rows : \A i \in DOMAIN where : testCondition(x, rows[x], where[i])}
    BY SatisfyingWithoutOr DEF Indexed
  <1>6. ASSUME NEW rows, \A x \in DOMAIN rows : "properties" \in DOMAIN rows[x]
        PROVE  Satisfying(rows, where) =
                 {x \in DOMAIN rows : rows[x].label = l /\ RestHolds(rows[x], where)}
    <2>1. 1 \in DOMAIN where
      BY DEF LabelForm
    <2>2. \A x \in DOMAIN rows :
            (\A i \in DOMAIN where : testCondition(x, rows[x], where[i]))
              <=> rows[x].label = l /\ RestHolds(rows[x], where)
      BY <1>3, <1>4, <1>6, <2>1 DEF RestHolds
    <2>. QED  BY <1>5, <2>2
  <1>7. ASSUME DOMAIN where = {1}
        PROVE  \A rows : Satisfying(rows, where) = {x \in DOMAIN rows : rows[x].label = l}
    BY <1>3, <1>5, <1>7
  <1>. QED  BY <1>1, <1>2, <1>6, <1>7

LEMMA PropertyFormRead ==
    ASSUME NEW where, Indexed(where), PropertyForm(where)
    PROVE  /\ Equalities(where, {"ID"}) = {} /\ Equalities(where, {"LABEL"}) = {}
           /\ Equalities(where, {"ID", "LABEL"}) = {}
           /\ ~Anchored(where, "ID") /\ ~Anchored(where, "LABEL")
           /\ \A rows :
                (\A x \in DOMAIN rows : "properties" \in DOMAIN rows[x]) =>
                    Satisfying(rows, where) =
                      {x \in DOMAIN rows :
                         executeCondition(where[1].op, ValueOf(rows[x], where[1].property), where[1].value)}
  <1>1. /\ Equalities(where, {"ID"}) = {} /\ Equalities(where, {"LABEL"}) = {}
        /\ Equalities(where, {"ID", "LABEL"}) = {}
        /\ ~Anchored(where, "ID") /\ ~Anchored(where, "LABEL")
    BY DEF Equalities, PropertyForm, Anchored
  <1>2. \A x, row : testCondition(x, row, where[1]) <=>
            /\ "properties" \in DOMAIN row
            /\ executeCondition(where[1].op, ValueOf(row, where[1].property), where[1].value)
    BY DEF PropertyForm, testCondition
  <1>3. \A rows : Satisfying(rows, where) =
            {x \in DOMAIN rows : \A i \in DOMAIN where : testCondition(x, rows[x], where[i])}
    BY SatisfyingWithoutOr DEF Indexed
  <1>4. ASSUME NEW rows, \A x \in DOMAIN rows : "properties" \in DOMAIN rows[x]
        PROVE  Satisfying(rows, where) =
                 {x \in DOMAIN rows :
                    executeCondition(where[1].op, ValueOf(rows[x], where[1].property), where[1].value)}
    BY <1>2, <1>3, <1>4 DEF PropertyForm
  <1>. QED  BY <1>1, <1>4

LEMMA LiveNodesAnswer ==
    ASSUME IInv, NEW where \in NodeForms, NEW mode \in {"LIVE", "SNAPSHOT"}
    PROVE  LET result == executeSelectNodes(where, mode, NoTop)
               wanted == Satisfying(nodes, where)
           IN  \/ Answers(result, wanted, Cardinality(wanted))
               \/ result = Failure /\ NobodyHas(nodes, where) /\ wanted = {}
               \/ result = Failure /\ mode = "LIVE" /\ where \in PropertyForms
  <1>. DEFINE wanted == Satisfying(nodes, where)
              result == executeSelectNodes(where, mode, NoTop)
  <1>1. /\ nodeInsertionOrder = DOMAIN nodes /\ \A n \in DOMAIN nodes : nodes[n] \in Node
        /\ \A l \in Labels : labelToNodes[l] = {n \in DOMAIN nodes : nodes[n].label = l}
    BY LiveIndexes
  <1>2. WellFormed(where)
    BY NodeFormKinds
  <1>3. CASE where = << >> \/ whereHasOr(where)
    <2>1. Matching(nodes, DOMAIN nodes, where) = wanted
      BY <1>2, MatchingSatisfies DEF Satisfying
    <2>2. result = Scanned(Matching(nodes, DOMAIN nodes, where), NoTop)
      BY <1>1, <1>3 DEF executeSelectNodes, FullScan
    <2>. QED  BY <2>1, <2>2, ScanAnswers
  <1>4. CASE Indexed(where) /\ \E id \in NodeIds : IdForm(where, id)
    <2>1. PICK id \in NodeIds : IdForm(where, id)
      BY <1>4
    <2>2. id # Unparsable
      BY <2>1, BoundsAssumption DEF NodeIds, Unparsable
    <2>3. /\ Equalities(where, {"ID", "LABEL"}) = {1} /\ Anchored(where, "ID")
          /\ FirstValue(where, "ID") = id /\ wanted = {id} \cap DOMAIN nodes
      BY <1>4, <2>1, <2>2, IdFormRead
    <2>4. ~FullScan(where, mode, {"ID", "LABEL"})
      BY <1>4, <2>3 DEF FullScan, Indexed
    <2>5. result = Rows(wanted)
      BY <2>2, <2>3, <2>4 DEF executeSelectNodes, ById
    <2>. QED  BY <2>5, RowsAnswer
  <1>5. CASE Indexed(where) /\ \E l \in Labels : LabelForm(where, l)
    <2>1. PICK l \in Labels : LabelForm(where, l)
      BY <1>5
    <2>2. \A n \in DOMAIN nodes : "properties" \in DOMAIN nodes[n]
      BY <1>1 DEF Node
    <2>3. /\ Equalities(where, {"ID", "LABEL"}) = {1} /\ ~Anchored(where, "ID")
          /\ Anchored(where, "LABEL") /\ FirstValue(where, "LABEL") = l
          /\ wanted = {n \in DOMAIN nodes : nodes[n].label = l /\ RestHolds(nodes[n], where)}
      BY <1>5, <2>1, <2>2, LabelFormRead
    <2>4. ~FullScan(where, mode, {"ID", "LABEL"})
      BY <1>5, <2>3 DEF FullScan, Indexed
    <2>5. \A n : RestHolds(nodes[n], where) <=>
             \A i \in DOMAIN where : where[i].property # "LABEL" =>
                executeCondition(where[i].op, ValueOf(nodes[n], where[i].property), where[i].value)
      BY <2>1 DEF RestHolds, LabelForm
    <2>6. NodesByLabel(where) =
            IF l \in nodeLabels THEN Rows({n \in labelToNodes[l] : RestHolds(nodes[n], where)})
            ELSE Failure
      BY <2>3, <2>5 DEF NodesByLabel
    <2>7. {n \in labelToNodes[l] : RestHolds(nodes[n], where)} = wanted
      BY <1>1, <2>3
    <2>8. result = IF l \in nodeLabels THEN Rows(wanted) ELSE Failure
      BY <2>3, <2>4, <2>6, <2>7 DEF executeSelectNodes
    <2>9. CASE l \in nodeLabels
      BY <2>8, <2>9, RowsAnswer
    <2>10. CASE l \notin nodeLabels
      <3>1. \A n \in DOMAIN nodes : nodes[n].label # l
        BY <2>10 DEF IInv, LabelsListed
      <3>2. ~whereHasOr(where) /\ LastValue(where, "LABEL") = l
        BY <1>5, <2>1, LabelFormRead DEF Indexed
      <3>3. NobodyHas(nodes, where) /\ wanted = {}
        BY <2>3, <3>1, <3>2 DEF NobodyHas
      <3>. QED  BY <2>8, <2>10, <3>3
    <2>. QED  BY <2>9, <2>10
  <1>6. CASE Indexed(where) /\ PropertyForm(where) /\ where \in PropertyForms
    <2>1. /\ Equalities(where, {"ID", "LABEL"}) = {}
          /\ ~Anchored(where, "ID") /\ ~Anchored(where, "LABEL")
          /\ ~whereHasOr(where) /\ where # << >>
      BY <1>6, PropertyFormRead DEF Indexed
    <2>2. CASE mode = "LIVE"
      <3>1. result = Failure
        BY <2>1, <2>2 DEF executeSelectNodes, FullScan
      <3>. QED  BY <1>6, <2>2, <3>1
    <2>3. CASE mode = "SNAPSHOT"
      <3>1. Matching(nodes, DOMAIN nodes, where) = wanted
        BY <1>2, MatchingSatisfies DEF Satisfying
      <3>2. result = Scanned(Matching(nodes, DOMAIN nodes, where), NoTop)
        BY <1>1, <2>1, <2>3 DEF executeSelectNodes, FullScan
      <3>. QED  BY <3>1, <3>2, ScanAnswers
    <2>. QED  BY <2>2, <2>3
  <1>. QED  BY <1>3, <1>4, <1>5, <1>6, NodeFormKinds

\* What a snapshot captured now holds.
Captured(s) ==
    /\ s.members = DOMAIN nodes /\ s.mapped = DOMAIN nodes
    /\ \A l \in Labels : s.byLabel[l] = {n \in DOMAIN nodes : nodes[n].label = l}
    /\ RowsAt(mvccNodes, s.version) = nodes /\ EdgesAtVersion(s.version) = edges

LEMMA CaptureComplete ==
    ASSUME IInv
    PROVE  Captured(Snapshot(currentVersion, nodeInsertionOrder, nodeInsertionOrder))
  <1>. DEFINE now == Snapshot(currentVersion, nodeInsertionOrder, nodeInsertionOrder)
  <1>1. HistoryMirrorsLive /\ nodeInsertionOrder = DOMAIN nodes
    BY LiveIndexes DEF IInv
  <1>2. RowsAt(mvccNodes, currentVersion) = nodes /\ EdgesAtVersion(currentVersion) = edges
    BY <1>1, CurrentView, ScanComplete
  <1>3. now = [version |-> currentVersion, members |-> DOMAIN nodes, mapped |-> DOMAIN nodes,
               byLabel |-> BuildLabelIndex(DOMAIN nodes, currentVersion)]
    BY <1>1 DEF Snapshot
  <1>4. \A l \in Labels :
          BuildLabelIndex(DOMAIN nodes, currentVersion)[l] = {n \in DOMAIN nodes : nodes[n].label = l}
    BY <1>1, <1>2 DEF BuildLabelIndex, HistoryMirrorsLive
  <1>. HIDE DEF now
  <1>5. Captured(now)
    BY <1>2, <1>3, <1>4 DEF Captured
  <1>. QED  BY <1>5 DEF now

LEMMA SnapshotNodesAnswer ==
    ASSUME IInv, NEW where \in NodeForms, NEW s, Captured(s)
    PROVE  LET wanted == Satisfying(nodes, where)
           IN  Answers(executeSelectNodesSnapshot(s, where, NoTop), wanted, Cardinality(wanted))
  <1>. DEFINE wanted == Satisfying(nodes, where)
              result == executeSelectNodesSnapshot(s, where, NoTop)
              passing == {n \in Walked(s, where) \cap DOMAIN nodes : PassesFilters(nodes[n], where)}
  <1>1. /\ \A n \in DOMAIN nodes : nodes[n] \in Node
        /\ s.members = DOMAIN nodes /\ s.mapped = DOMAIN nodes
        /\ \A l \in Labels : s.byLabel[l] = {n \in DOMAIN nodes : nodes[n].label = l}
        /\ RowsAt(mvccNodes, s.version) = nodes
    BY LiveIndexes DEF Captured
  <1>2. WellFormed(where)
    BY NodeFormKinds
  <1>3. CASE whereHasOr(where)
    <2>1. Matching(nodes, DOMAIN nodes, where) = wanted
      BY <1>2, MatchingSatisfies DEF Satisfying
    <2>2. result = Scanned(Matching(nodes, DOMAIN nodes, where), NoTop)
      BY <1>1, <1>3 DEF executeSelectNodesSnapshot
    <2>. QED  BY <2>1, <2>2, ScanAnswers
  <1>4. ASSUME ~whereHasOr(where), Unparsable \notin {where[i].value : i \in Equalities(where, {"ID"})},
               passing = wanted
        PROVE  Answers(result, wanted, Cardinality(wanted))
    <2>1. result = [Scanned(passing, NoTop) EXCEPT !.truncated = @ /\ NoTop = NoTop]
      BY <1>1, <1>4 DEF executeSelectNodesSnapshot
    <2>. QED  BY <1>4, <2>1, ScanAnswers
  <1>5. CASE where = << >>
    <2>1. DOMAIN where = {} /\ Equalities(where, {"ID"}) = {} /\ Equalities(where, {"LABEL"}) = {}
      BY <1>5 DEF Equalities
    <2>2. ~whereHasOr(where) /\ ~Anchored(where, "ID") /\ ~Anchored(where, "LABEL")
      BY <2>1 DEF whereHasOr, Anchored
    <2>3. \A node : PassesFilters(node, where)
      BY <2>1, <2>2 DEF PassesFilters
    <2>4. wanted = DOMAIN nodes
      BY <1>2, <2>1, <2>2, SatisfyingWithoutOr
    <2>5. passing = DOMAIN nodes
      BY <1>1, <2>2, <2>3 DEF Walked
    <2>. QED  BY <1>4, <2>1, <2>2, <2>4, <2>5
  <1>6. CASE Indexed(where) /\ \E id \in NodeIds : IdForm(where, id)
    <2>1. PICK id \in NodeIds : IdForm(where, id)
      BY <1>6
    <2>2. id # Unparsable
      BY <2>1, BoundsAssumption DEF NodeIds, Unparsable
    <2>3. /\ Equalities(where, {"ID"}) = {1} /\ Equalities(where, {"ID", "LABEL"}) = {1}
          /\ Anchored(where, "ID") /\ ~Anchored(where, "LABEL")
          /\ LastValue(where, "ID") = id /\ wanted = {id} \cap DOMAIN nodes
      BY <1>6, <2>1, <2>2, IdFormRead
    <2>4. \A node : PassesFilters(node, where)
      BY <2>1, <2>3 DEF PassesFilters, IdForm
    <2>5. passing = wanted
      BY <1>1, <2>3, <2>4 DEF Walked
    <2>6. Unparsable \notin {where[i].value : i \in Equalities(where, {"ID"})}
      BY <2>1, <2>2, <2>3 DEF IdForm
    <2>. QED  BY <1>4, <1>6, <2>5, <2>6 DEF Indexed
  <1>7. CASE Indexed(where) /\ \E l \in Labels : LabelForm(where, l)
    <2>1. PICK l \in Labels : LabelForm(where, l)
      BY <1>7
    <2>2. \A n \in DOMAIN nodes : "properties" \in DOMAIN nodes[n]
      BY <1>1 DEF Node
    <2>3. /\ Equalities(where, {"ID"}) = {} /\ Equalities(where, {"ID", "LABEL"}) = {1}
          /\ ~Anchored(where, "ID") /\ Anchored(where, "LABEL") /\ LastValue(where, "LABEL") = l
          /\ wanted = {n \in DOMAIN nodes : nodes[n].label = l /\ RestHolds(nodes[n], where)}
      BY <1>7, <2>1, <2>2, LabelFormRead
    <2>4. \A node : PassesFilters(node, where) <=> node.label = l /\ RestHolds(node, where)
      BY <2>3 DEF PassesFilters, RestHolds
    <2>5. Walked(s, where) = {n \in DOMAIN nodes : nodes[n].label = l}
      BY <1>1, <2>1, <2>3 DEF Walked
    <2>6. passing = wanted
      BY <2>3, <2>4, <2>5
    <2>. QED  BY <1>4, <1>7, <2>3, <2>6 DEF Indexed
  <1>8. CASE Indexed(where) /\ PropertyForm(where)
    <2>1. \A n \in DOMAIN nodes : "properties" \in DOMAIN nodes[n]
      BY <1>1 DEF Node
    <2>2. /\ Equalities(where, {"ID"}) = {} /\ Equalities(where, {"ID", "LABEL"}) = {}
          /\ ~Anchored(where, "ID") /\ ~Anchored(where, "LABEL")
          /\ wanted = {n \in DOMAIN nodes :
                         executeCondition(where[1].op, ValueOf(nodes[n], where[1].property), where[1].value)}
      BY <1>8, <2>1, PropertyFormRead
    <2>3. \A node : PassesFilters(node, where) <=>
            executeCondition(where[1].op, ValueOf(node, where[1].property), where[1].value)
      BY <1>8, <2>2 DEF PassesFilters, PropertyForm
    <2>4. Walked(s, where) = DOMAIN nodes
      BY <1>1, <2>2 DEF Walked
    <2>5. passing = wanted
      BY <2>2, <2>3, <2>4
    <2>. QED  BY <1>4, <1>8, <2>2, <2>5 DEF Indexed
  <1>. QED  BY <1>3, <1>5, <1>6, <1>7, <1>8, NodeFormKinds

\* The forms with a FROM: equalities on different fields, each with a value that
\* can be one of the field.
FromForm(where) ==
    /\ 1 \in DOMAIN where /\ DOMAIN where \subseteq {1, 2, 3}
    /\ where[1].property = "FROM" /\ where[1].value \in NodeIds
    /\ \A i \in DOMAIN where : where[i].op = "="
    /\ \A i \in DOMAIN where \ {1} : where[i].property \in {"DIRECTION", "LABEL", "TO"}
    /\ \A i \in DOMAIN where : /\ where[i].property = "TO" => where[i].value \in NodeIds
                               /\ where[i].property = "DIRECTION" =>
                                    where[i].value \in {"OUTGOING", "INCOMING", "BOTH"}
    /\ \A i, j \in DOMAIN where : where[i].property = where[j].property => i = j

LEMMA FromFormKinds ==
    ASSUME NEW where \in FromForms
    PROVE  Indexed(where) /\ FromForm(where)
  <1>. DEFINE seconds == Equal("DIRECTION", {"OUTGOING", "INCOMING", "BOTH"}) \cup Equal("LABEL", Labels)
                           \cup Equal("TO", NodeIds)
  <1>1. ASSUME NEW p, NEW V, NEW c \in Equal(p, V)
        PROVE  c.property = p /\ c.op = "=" /\ c.value \in V
    BY ConditionFields DEF Equal
  <1>2. CASE \E c \in Equal("FROM", NodeIds) : where = <<c>>
    <2>1. PICK c \in Equal("FROM", NodeIds) : where = <<c>>
      BY <1>2
    <2>2. c.property = "FROM" /\ c.op = "=" /\ c.value \in NodeIds
      BY <1>1
    <2>3. DOMAIN where = {1} /\ where[1] = c /\ where # << >> /\ ~whereHasOr(where) /\ WellFormed(where)
      BY <2>1, OneCondition DEF Equal
    <2>. QED  BY <2>2, <2>3 DEF Indexed, FromForm
  <1>3. CASE \E c \in Equal("FROM", NodeIds), d \in seconds : where = Joined(c, "AND", d)
    <2>1. PICK c \in Equal("FROM", NodeIds), d \in seconds : where = Joined(c, "AND", d)
      BY <1>3
    <2>2. c.property = "FROM" /\ c.op = "=" /\ c.value \in NodeIds
      BY <1>1
    <2>3. /\ d.property \in {"DIRECTION", "LABEL", "TO"} /\ d.op = "="
          /\ d.property = "TO" => d.value \in NodeIds
          /\ d.property = "DIRECTION" => d.value \in {"OUTGOING", "INCOMING", "BOTH"}
      BY <1>1
    <2>4. \E Q, N, W : d \in Condition(Q, N, W)
      BY DEF Equal
    <2>. HIDE DEF seconds
    <2>5. /\ DOMAIN where = {1, 2} /\ SameTest(where[1], c) /\ where[2] = d /\ where # << >>
          /\ ~whereHasOr(where) /\ WellFormed(where)
      BY <2>1, <2>4, TwoConditions DEF Equal
    <2>. QED  BY <2>2, <2>3, <2>5 DEF Indexed, FromForm, SameTest
  <1>4. CASE \E c \in Equal("FROM", NodeIds), d \in Equal("DIRECTION", {"INCOMING", "BOTH"}),
               e \in Equal("TO", NodeIds) : where = Joined3(c, "AND", d, "AND", e)
    <2>1. PICK c \in Equal("FROM", NodeIds), d \in Equal("DIRECTION", {"INCOMING", "BOTH"}),
               e \in Equal("TO", NodeIds) : where = Joined3(c, "AND", d, "AND", e)
      BY <1>4
    <2>2. /\ c.property = "FROM" /\ c.op = "=" /\ c.value \in NodeIds
          /\ d.property = "DIRECTION" /\ d.op = "=" /\ d.value \in {"INCOMING", "BOTH"}
          /\ e.property = "TO" /\ e.op = "=" /\ e.value \in NodeIds
      BY <1>1
    <2>3. /\ DOMAIN where = {1, 2, 3} /\ where # << >>
          /\ SameTest(where[1], c) /\ SameTest(where[2], d) /\ where[3] = e
          /\ ~whereHasOr(where) /\ WellFormed(where)
      BY <2>1, ThreeConditions DEF Equal
    <2>. QED  BY <2>2, <2>3 DEF Indexed, FromForm, SameTest
  <1>. QED  BY <1>2, <1>3, <1>4 DEF FromForms

LEMMA EdgeFormKinds ==
    ASSUME NEW where \in EdgeForms
    PROVE  \/ where \in FromForms
           \/ /\ WellFormed(where)
              /\ \/ where = << >> \/ whereHasOr(where)
                 \/ Indexed(where) /\ \E id \in EdgeIds : IdForm(where, id)
                 \/ Indexed(where) /\ DOMAIN where = {1} /\ \E l \in Labels : LabelForm(where, l)
  <1>1. CASE where = << >>
    <2>1. << >> \in Seq({}) /\ Len(<< >>) = 0
      OBVIOUS
    <2>. QED  BY <1>1, <2>1 DEF WellFormed
  <1>2. CASE \E c \in Equal("ID", EdgeIds) : where = <<c>>
    <2>1. PICK c \in Equal("ID", EdgeIds) : where = <<c>>
      BY <1>2
    <2>2. c.property = "ID" /\ c.op = "=" /\ c.value \in EdgeIds
      BY <2>1, ConditionFields DEF Equal
    <2>. QED  BY <2>1, <2>2, OneCondition DEF Equal, Indexed, IdForm
  <1>3. CASE \E c \in Equal("LABEL", Labels) : where = <<c>>
    <2>1. PICK c \in Equal("LABEL", Labels) : where = <<c>>
      BY <1>3
    <2>2. c.property = "LABEL" /\ c.op = "=" /\ c.value \in Labels
      BY <2>1, ConditionFields DEF Equal
    <2>. QED  BY <2>1, <2>2, OneCondition DEF Equal, Indexed, LabelForm
  <1>4. CASE where \in OrWheres(EdgeConditions)
    BY <1>4, OrFormsScanned
  <1>. QED  BY <1>1, <1>2, <1>3, <1>4 DEF EdgeForms

\* The edges at the FROM in the direction asked that pass the other fields.
FromEdges(where) ==
    LET n == LastValue(where, "FROM")
    IN  {e \in DOMAIN edges : /\ \/ Direction(where) # "INCOMING" /\ edges[e].from = n
                                 \/ Direction(where) # "OUTGOING" /\ edges[e].to = n
                              /\ PassesFields(edges[e], where)}

LEMMA FromFormRead ==
    ASSUME NEW where, Indexed(where), FromForm(where)
    PROVE  /\ ~Anchored(where, "ID") /\ Anchored(where, "FROM")
           /\ Equalities(where, {"ID", "FROM", "LABEL"}) # {}
           /\ LastValue(where, "FROM") \in NodeIds
           /\ \A property : Anchored(where, property) =>
                              FirstValue(where, property) = LastValue(where, property)
           /\ DirectionValid(where)
           /\ Parsable(where, {"FROM", "TO"}) /\ Parsable(where, {"ID", "FROM", "TO"})
  <1>1. ASSUME NEW property, Anchored(where, property)
        PROVE  \E i \in DOMAIN where : /\ where[i].property = property
                                       /\ FirstValue(where, property) = where[i].value
                                       /\ LastValue(where, property) = where[i].value
    <2>1. PICK i : i \in Equalities(where, {property})
      BY <1>1 DEF Anchored
    <2>2. i \in DOMAIN where /\ where[i].property = property
      BY <2>1 DEF Equalities
    <2>3. Equalities(where, {property}) = {i}
      BY <2>1, <2>2 DEF Equalities, FromForm
    <2>4. i \in Nat
      BY <2>2, WhereDomain DEF Indexed
    <2>. QED  BY <2>2, <2>3, <2>4, ServedOnce
  <1>2. ~Anchored(where, "ID") /\ 1 \in Equalities(where, {"ID", "FROM", "LABEL"})
    BY DEF Anchored, Equalities, FromForm
  <1>3. Anchored(where, "FROM") /\ LastValue(where, "FROM") \in NodeIds
    <2>1. Equalities(where, {"FROM"}) = {1}
      BY DEF Equalities, FromForm
    <2>2. Anchored(where, "FROM") /\ LastValue(where, "FROM") = where[1].value
      BY <2>1, ServedOnce
    <2>3. where[1].value \in NodeIds
      BY DEF FromForm
    <2>. QED  BY <2>2, <2>3
  <1>4. Anchored(where, "TO") => LastValue(where, "TO") \in NodeIds
    BY <1>1 DEF FromForm
  <1>5. DirectionValid(where)
    BY <1>1 DEF DirectionValid, Direction, FromForm
  <1>6. Unparsable \notin NodeIds
    BY BoundsAssumption DEF NodeIds, Unparsable
  <1>7. Parsable(where, {"FROM", "TO"}) /\ Parsable(where, {"ID", "FROM", "TO"})
    BY <1>2, <1>3, <1>4, <1>6 DEF Parsable
  <1>. QED  BY <1>1, <1>2, <1>3, <1>5, <1>7

\* For TO other than FROM the field that is "either endpoint" means the other one.
LEMMA FromEdgesSatisfy ==
    ASSUME NEW where \in FromForms, ~ToIsAnchor(where)
    PROVE  FromEdges(where) = FromSatisfying(where)
  <1>. DEFINE n == LastValue(where, "FROM")
              m == LastValue(where, "TO")
  <1>1. /\ Anchored(where, "FROM")
        /\ \A property : Anchored(where, property) =>
                           FirstValue(where, property) = LastValue(where, property)
    BY FromFormKinds, FromFormRead
  <1>2. FirstValue(where, "FROM") = n /\ (Anchored(where, "TO") => FirstValue(where, "TO") = m /\ m # n)
    BY <1>1 DEF ToIsAnchor
  <1>3. Anchored(where, "LABEL") => FirstValue(where, "LABEL") = LastValue(where, "LABEL")
    BY <1>1
  <1>. HIDE DEF n, m
  <1>4. ASSUME NEW e, edges[e].from = n \/ edges[e].to = n
        PROVE  PassesFields(edges[e], where) <=>
                 /\ Anchored(where, "LABEL") => edges[e].label = FirstValue(where, "LABEL")
                 /\ Anchored(where, "TO") =>
                      (IF edges[e].from = n THEN edges[e].to ELSE edges[e].from) = FirstValue(where, "TO")
    BY <1>2, <1>3, <1>4 DEF PassesFields, m
  <1>. QED  BY <1>2, <1>4 DEF FromEdges, FromSatisfying, n

LEMMA LiveFromAnswers ==
    ASSUME IInv, NEW where \in FromForms, NEW mode
    PROVE  LET result == executeSelectEdges(where, mode, NoTop)
               wanted == FromEdges(where)
           IN  Answers(result, wanted, Cardinality(wanted) + Cardinality(ListedTwice(where, wanted)))
  <1>. DEFINE n == LastValue(where, "FROM")
              out == IF Direction(where) = "INCOMING" THEN {}
                     ELSE {e \in adjacencyOut[n] : PassesFields(edges[e], where)}
              in == IF Direction(where) = "OUTGOING" THEN {}
                    ELSE {e \in adjacencyIn[n] : PassesFields(edges[e], where)}
              found == out \cup in
              result == executeSelectEdges(where, mode, NoTop)
  <1>1. /\ Indexed(where) /\ ~Anchored(where, "ID") /\ Anchored(where, "FROM") /\ n \in NodeIds
        /\ Equalities(where, {"ID", "FROM", "LABEL"}) # {}
        /\ DirectionValid(where) /\ Parsable(where, {"FROM", "TO"})
    BY FromFormKinds, FromFormRead
  <1>2. /\ adjacencyOut[n] = {e \in DOMAIN edges : edges[e].from = n}
        /\ adjacencyIn[n] = {e \in DOMAIN edges : edges[e].to = n}
    BY <1>1, LiveIndexes
  <1>3. ~FullScan(where, mode, {"ID", "FROM", "LABEL"})
    BY <1>1 DEF FullScan, Indexed
  <1>4. result = EdgesFrom(where)
    BY <1>1, <1>3 DEF executeSelectEdges
  <1>5. result = [Rows(found) EXCEPT !.count = Cardinality(out) + Cardinality(in)]
    BY <1>4 DEF EdgesFrom
  <1>6. found = FromEdges(where)
    BY <1>2 DEF FromEdges
  <1>7. out \cap in = ListedTwice(where, found)
    BY <1>1, <1>2 DEF ListedTwice, DirectionValid
  <1>8. IsFiniteSet(out) /\ IsFiniteSet(in)
    <2>1. IsFiniteSet(EdgeIds)
      BY BoundsAssumption, FS_Interval DEF EdgeIds
    <2>2. out \subseteq EdgeIds /\ in \subseteq EdgeIds
      BY <1>2, LiveIndexes
    <2>. HIDE DEF out, in
    <2>. QED  BY <2>1, <2>2, FS_Subset
  <1>. HIDE DEF out, in
  <1>9. Cardinality(out) + Cardinality(in) = Cardinality(found) + Cardinality(out \cap in)
    <2>1. /\ IsFiniteSet(out \cap in) /\ IsFiniteSet(found)
          /\ Cardinality(found) = Cardinality(out) + Cardinality(in) - Cardinality(out \cap in)
      BY <1>8, FS_Union, FS_Intersection
    <2>2. /\ Cardinality(out) \in Nat /\ Cardinality(in) \in Nat
          /\ Cardinality(out \cap in) \in Nat
      BY <1>8, <2>1, FS_CardinalityType
    <2>. HIDE DEF found
    <2>. QED  BY <2>1, <2>2
  <1>. HIDE DEF found
  <1>10. /\ result.success = TRUE /\ result.rows = found /\ result.truncated = FALSE
         /\ result.count = Cardinality(out) + Cardinality(in)
    BY <1>5 DEF Rows
  <1>. QED  BY <1>6, <1>7, <1>9, <1>10 DEF Answers

LEMMA LiveEdgesAnswer ==
    ASSUME IInv, NEW where \in EdgeForms, where \notin FromForms, NEW mode
    PROVE  LET result == executeSelectEdges(where, mode, NoTop)
               wanted == Satisfying(edges, where)
           IN  \/ Answers(result, wanted, Cardinality(wanted))
               \/ result = Failure /\ NobodyHas(edges, where) /\ wanted = {}
  <1>. DEFINE wanted == Satisfying(edges, where)
              result == executeSelectEdges(where, mode, NoTop)
  <1>1. /\ edgeInsertionOrder = DOMAIN edges
        /\ \A l \in Labels : labelToEdges[l] = {e \in DOMAIN edges : edges[e].label = l}
    BY LiveIndexes
  <1>2. WellFormed(where)
    BY EdgeFormKinds
  <1>3. CASE where = << >> \/ whereHasOr(where)
    <2>1. Matching(edges, DOMAIN edges, where) = wanted
      BY <1>2, MatchingSatisfies DEF Satisfying
    <2>2. result = Scanned(Matching(edges, DOMAIN edges, where), NoTop)
      BY <1>1, <1>3 DEF executeSelectEdges, FullScan
    <2>. QED  BY <2>1, <2>2, ScanAnswers
  <1>4. CASE Indexed(where) /\ \E id \in EdgeIds : IdForm(where, id)
    <2>1. PICK id \in EdgeIds : IdForm(where, id)
      BY <1>4
    <2>2. id # Unparsable
      BY <2>1, BoundsAssumption DEF EdgeIds, Unparsable
    <2>3. /\ Equalities(where, {"ID", "FROM", "LABEL"}) = {1} /\ Anchored(where, "ID")
          /\ LastValue(where, "ID") = id /\ wanted = {id} \cap DOMAIN edges
      BY <1>4, <2>1, <2>2, IdFormRead
    <2>4. ~FullScan(where, mode, {"ID", "FROM", "LABEL"})
      BY <1>4, <2>3 DEF FullScan, Indexed
    <2>5. result = Rows(wanted)
      BY <2>2, <2>3, <2>4 DEF executeSelectEdges, ById
    <2>. QED  BY <2>5, RowsAnswer
  <1>5. CASE Indexed(where) /\ DOMAIN where = {1} /\ \E l \in Labels : LabelForm(where, l)
    <2>1. PICK l \in Labels : LabelForm(where, l)
      BY <1>5
    <2>2. /\ 1 \in Equalities(where, {"ID", "FROM", "LABEL"}) /\ ~Anchored(where, "ID")
          /\ Anchored(where, "LABEL") /\ LastValue(where, "LABEL") = l
          /\ wanted = {e \in DOMAIN edges : edges[e].label = l}
      BY <1>5, <2>1, LabelFormRead
    <2>3. ~Anchored(where, "FROM") /\ ~Anchored(where, "DIRECTION")
      BY <1>5, <2>1 DEF Anchored, Equalities, LabelForm
    <2>4. ~FullScan(where, mode, {"ID", "FROM", "LABEL"}) /\ DirectionValid(where)
      BY <1>5, <2>2, <2>3 DEF FullScan, Indexed, DirectionValid, Direction
    <2>5. result = IF l \in edgeLabels THEN Rows(labelToEdges[l]) ELSE Failure
      BY <2>2, <2>3, <2>4 DEF executeSelectEdges, EdgesByLabel
    <2>6. labelToEdges[l] = wanted
      BY <1>1, <2>2
    <2>7. CASE l \in edgeLabels
      BY <2>5, <2>6, <2>7, RowsAnswer
    <2>8. CASE l \notin edgeLabels
      <3>1. \A e \in DOMAIN edges : edges[e].label # l
        BY <2>8 DEF IInv, LabelsListed
      <3>2. NobodyHas(edges, where) /\ wanted = {}
        BY <1>5, <2>2, <3>1 DEF NobodyHas, Indexed
      <3>. QED  BY <2>5, <2>8, <3>2
    <2>. QED  BY <2>7, <2>8
  <1>. QED  BY <1>3, <1>4, <1>5, EdgeFormKinds

\* Whichever index or scan serves it, and whatever order the graph was built in, a
\* SELECT in a form of NodeForms and EdgeForms returns and counts the rows its WHERE
\* is true of, or is turned down: on a label no row has, or on a property alone.
THEOREM SelectCorrect == Spec => []SelectAsEvaluated
  <1>1. IInv => SelectAsEvaluated
    <2>. SUFFICES ASSUME IInv, NEW mode \in {"LIVE", "SNAPSHOT"}
                  PROVE  /\ \A where \in NodeForms : NodesAnswered(where, mode)
                         /\ \A where \in EdgeForms \ FromForms : EdgesAnswered(where, mode)
                         /\ \A where \in FromForms : ~ToIsAnchor(where) => FromAnswered(where, mode)
      BY DEF SelectAsEvaluated
    <2>1. ASSUME NEW where \in NodeForms
          PROVE  NodesAnswered(where, mode)
      BY LiveNodesAnswer DEF NodesAnswered
    <2>2. ASSUME NEW where \in EdgeForms \ FromForms
          PROVE  EdgesAnswered(where, mode)
      BY LiveEdgesAnswer DEF EdgesAnswered
    <2>3. ASSUME NEW where \in FromForms, ~ToIsAnchor(where)
          PROVE  FromAnswered(where, mode)
      <3>1. FromEdges(where) = FromSatisfying(where)
        BY <2>3, FromEdgesSatisfy
      <3>. QED  BY <3>1, LiveFromAnswers DEF FromAnswered
    <2>. QED  BY <2>1, <2>2, <2>3
  <1>. QED  BY <1>1, Invariance, PTL

-----------------------------------------------------------------------------
\* A snapshot captured now

LEMMA SnapshotEdgesAnswer ==
    ASSUME IInv, NEW where \in EdgeForms, NEW s, Captured(s)
    PROVE  LET result == executeSelectEdgesSnapshot(s, where, NoTop)
               wanted == IF where \in FromForms THEN FromEdges(where) ELSE Satisfying(edges, where)
           IN  Answers(result, wanted, Cardinality(wanted))
  <1>. DEFINE result == executeSelectEdgesSnapshot(s, where, NoTop)
              wanted == Satisfying(edges, where)
              passing == {e \in DOMAIN edges : PassesSnapshot(e, edges[e], where)}
  <1>1. EdgesAtVersion(s.version) = edges
    BY DEF Captured
  <1>2. ASSUME ~whereHasOr(where), Parsable(where, {"ID", "FROM", "TO"}), DirectionValid(where)
        PROVE  Answers(result, passing, Cardinality(passing))
    <2>1. result = Scanned(passing, NoTop)
      BY <1>1, <1>2 DEF executeSelectEdgesSnapshot
    <2>. QED  BY <2>1, ScanAnswers
  <1>3. CASE where \in FromForms
    <2>1. /\ ~whereHasOr(where) /\ ~Anchored(where, "ID") /\ Anchored(where, "FROM")
          /\ DirectionValid(where) /\ Parsable(where, {"ID", "FROM", "TO"})
      BY <1>3, FromFormKinds, FromFormRead DEF Indexed
    <2>2. passing = FromEdges(where)
      BY <2>1 DEF PassesSnapshot, FromEdges
    <2>. QED  BY <1>2, <1>3, <2>1, <2>2
  <1>4. CASE where \notin FromForms
    <2>1. WellFormed(where)
      BY <1>4, EdgeFormKinds
    <2>2. CASE whereHasOr(where)
      <3>1. Matching(edges, DOMAIN edges, where) = wanted
        BY <2>1, MatchingSatisfies DEF Satisfying
      <3>2. result = Scanned(Matching(edges, DOMAIN edges, where), NoTop)
        BY <1>1, <2>2 DEF executeSelectEdgesSnapshot
      <3>. QED  BY <1>4, <3>1, <3>2, ScanAnswers
    <2>3. CASE where = << >>
      <3>1. DOMAIN where = {} /\ ~whereHasOr(where) /\ \A property : ~Anchored(where, property)
        BY <2>3 DEF whereHasOr, Anchored, Equalities
      <3>2. Parsable(where, {"ID", "FROM", "TO"}) /\ DirectionValid(where)
        BY <3>1 DEF Parsable, DirectionValid, Direction
      <3>3. wanted = DOMAIN edges
        BY <2>1, <3>1, SatisfyingWithoutOr
      <3>4. passing = wanted
        BY <3>1, <3>3 DEF PassesSnapshot, PassesFields
      <3>. QED  BY <1>2, <1>4, <3>1, <3>2, <3>4
    <2>4. CASE Indexed(where) /\ \E id \in EdgeIds : IdForm(where, id)
      <3>1. PICK id \in EdgeIds : IdForm(where, id)
        BY <2>4
      <3>2. id # Unparsable
        BY <3>1, BoundsAssumption DEF EdgeIds, Unparsable
      <3>3. /\ \A property : property # "ID" => ~Anchored(where, property)
            /\ Anchored(where, "ID") /\ LastValue(where, "ID") = id
            /\ wanted = {id} \cap DOMAIN edges
        BY <2>4, <3>1, <3>2, IdFormRead
      <3>4. Parsable(where, {"ID", "FROM", "TO"}) /\ DirectionValid(where)
        BY <3>2, <3>3 DEF Parsable, DirectionValid, Direction
      <3>5. passing = wanted
        BY <3>3 DEF PassesSnapshot, PassesFields
      <3>. QED  BY <1>2, <1>4, <2>4, <3>4, <3>5 DEF Indexed
    <2>5. CASE Indexed(where) /\ DOMAIN where = {1} /\ \E l \in Labels : LabelForm(where, l)
      <3>1. PICK l \in Labels : LabelForm(where, l)
        BY <2>5
      <3>2. /\ Anchored(where, "LABEL") /\ LastValue(where, "LABEL") = l
            /\ wanted = {e \in DOMAIN edges : edges[e].label = l}
        BY <2>5, <3>1, LabelFormRead
      <3>3. \A property : property # "LABEL" => ~Anchored(where, property)
        BY <2>5, <3>1 DEF Anchored, Equalities, LabelForm
      <3>4. Parsable(where, {"ID", "FROM", "TO"}) /\ DirectionValid(where)
        BY <3>3 DEF Parsable, DirectionValid, Direction
      <3>5. passing = wanted
        BY <3>2, <3>3 DEF PassesSnapshot, PassesFields
      <3>. QED  BY <1>2, <1>4, <2>5, <3>4, <3>5 DEF Indexed
    <2>. QED  BY <1>4, <2>2, <2>3, <2>4, <2>5, EdgeFormKinds
  <1>. QED  BY <1>3, <1>4

\* SELECT GRAPH scans the same rows in both.
LEMMA SameGraph ==
    ASSUME IInv, NEW s, Captured(s)
    PROVE  executeSelectGraphSnapshot(s, NoTop) = executeSelectGraph("LIVE", NoTop)
  <1>. DEFINE all == << >>
  <1>1. DOMAIN all = {} /\ all = << >>
    OBVIOUS
  <1>2. all \in NodeForms /\ WellFormed(all)
    BY NodeFormKinds DEF NodeForms
  <1>. HIDE DEF all
  <1>3. ~whereHasOr(all) /\ \A property : Equalities(all, {property}) = {} /\ ~Anchored(all, property)
    BY <1>1 DEF whereHasOr, Equalities, Anchored
  <1>4. /\ nodeInsertionOrder = DOMAIN nodes /\ edgeInsertionOrder = DOMAIN edges
        /\ s.members = DOMAIN nodes
        /\ RowsAt(mvccNodes, s.version) = nodes /\ EdgesAtVersion(s.version) = edges
    BY LiveIndexes DEF Captured
  <1>5. ASSUME NEW rows
        PROVE  Matching(rows, DOMAIN rows, all) = DOMAIN rows
    <2>1. Satisfying(rows, all) = DOMAIN rows
      BY <1>1, <1>2, <1>3, SatisfyingWithoutOr
    <2>. QED  BY <1>2, <2>1, MatchingSatisfies
  <1>6. /\ executeSelectNodes(all, "LIVE", NoTop) = Scanned(DOMAIN nodes, NoTop)
        /\ executeSelectEdges(all, "LIVE", NoTop) = Scanned(DOMAIN edges, NoTop)
    BY <1>1, <1>4, <1>5 DEF executeSelectNodes, executeSelectEdges, FullScan
  <1>7. executeSelectNodesSnapshot(s, all, NoTop) = Scanned(DOMAIN nodes, NoTop)
    <2>. DEFINE passing == {n \in Walked(s, all) \cap DOMAIN nodes : PassesFilters(nodes[n], all)}
    <2>1. \A node : PassesFilters(node, all)
      BY <1>1, <1>3 DEF PassesFilters
    <2>2. passing = DOMAIN nodes
      BY <1>3, <1>4, <2>1 DEF Walked
    <2>3. executeSelectNodesSnapshot(s, all, NoTop)
            = [Scanned(passing, NoTop) EXCEPT !.truncated = @ /\ NoTop = NoTop]
      BY <1>3, <1>4 DEF executeSelectNodesSnapshot
    <2>. QED  BY <2>2, <2>3, ScanAnswers
  <1>8. executeSelectEdgesSnapshot(s, all, NoTop) = Scanned(DOMAIN edges, NoTop)
    <2>1. Parsable(all, {"ID", "FROM", "TO"}) /\ DirectionValid(all)
      BY <1>3 DEF Parsable, DirectionValid, Direction
    <2>2. {e \in DOMAIN edges : PassesSnapshot(e, edges[e], all)} = DOMAIN edges
      BY <1>3 DEF PassesSnapshot, PassesFields
    <2>. QED  BY <1>3, <1>4, <2>1, <2>2 DEF executeSelectEdgesSnapshot
  <1>. QED  BY <1>1, <1>4, <1>6, <1>7, <1>8 DEF executeSelectGraph, executeSelectGraphSnapshot

\* Two answers to the same question are the same, except for the rows counted twice.
LEMMA AnswersAgree ==
    ASSUME NEW snapshot, NEW live, NEW wanted, NEW twice,
           Answers(snapshot, wanted, Cardinality(wanted)),
           Answers(live, wanted, Cardinality(wanted) + Cardinality(twice))
    PROVE  SameAnswer(snapshot, live, twice)
  BY DEF Answers, SameAnswer

\* No row counts for nothing: the rows of a finite set, once each.
LEMMA CountedOnce ==
    ASSUME NEW wanted, IsFiniteSet(wanted)
    PROVE  Cardinality(wanted) = Cardinality(wanted) + Cardinality({})
  BY FS_CardinalityType, FS_EmptySet

LEMMA SatisfyingFinite ==
    ASSUME IInv, NEW where
    PROVE  IsFiniteSet(Satisfying(nodes, where)) /\ IsFiniteSet(Satisfying(edges, where))
  <1>1. IsFiniteSet(NodeIds) /\ IsFiniteSet(EdgeIds)
    BY BoundsAssumption, FS_Interval DEF NodeIds, EdgeIds
  <1>2. Satisfying(nodes, where) \subseteq NodeIds /\ Satisfying(edges, where) \subseteq EdgeIds
    BY LiveIndexes DEF Satisfying
  <1>. QED  BY <1>1, <1>2, FS_Subset

\* A snapshot captured now answers every form of NodeForms, EdgeForms and SELECT
\* GRAPH, with the rows and the count of the live graph wherever that answers.
THEOREM SnapshotAnswersCorrect == Spec => []SnapshotAsLive
  <1>. DEFINE now == Snapshot(currentVersion, nodeInsertionOrder, nodeInsertionOrder)
  <1>1. IInv => Captured(now)
    BY CaptureComplete
  <1>2. SnapshotAsLive <=>
          /\ \A mode \in {"LIVE", "SNAPSHOT"} :
               /\ \A where \in NodeForms : NodesAsLive(now, where, mode)
               /\ \A where \in EdgeForms \ FromForms : EdgesAsLive(now, where, mode)
               /\ \A where \in FromForms : FromAsLive(now, where, mode)
          /\ LET graph == executeSelectGraph("LIVE", NoTop)
             IN  ~graph.truncated => executeSelectGraphSnapshot(now, NoTop) = graph
    BY DEF SnapshotAsLive
  <1>. HIDE DEF now
  <1>3. \A result, wanted, count : Answers(result, wanted, count) =>
            result.success /\ (wanted = {} => result.rows = {})
    BY DEF Answers
  <1>4. Failure.success = FALSE
    BY DEF Failure
  <1>5. ASSUME IInv, NEW mode \in {"LIVE", "SNAPSHOT"}, NEW where \in NodeForms
        PROVE  NodesAsLive(now, where, mode)
    <2>. DEFINE snapshot == executeSelectNodesSnapshot(now, where, NoTop)
                live == executeSelectNodes(where, mode, NoTop)
                wanted == Satisfying(nodes, where)
    <2>1. Answers(snapshot, wanted, Cardinality(wanted))
      BY <1>1, <1>5, SnapshotNodesAnswer
    <2>2. \/ Answers(live, wanted, Cardinality(wanted))
          \/ live = Failure /\ wanted = {}
          \/ live = Failure /\ mode = "LIVE" /\ where \in PropertyForms
      BY <1>5, LiveNodesAnswer
    <2>3. Cardinality(wanted) = Cardinality(wanted) + Cardinality({})
      BY <1>5, SatisfyingFinite, CountedOnce
    <2>4. NodesAsLive(now, where, mode) <=>
            /\ snapshot.success /\ SameAnswer(snapshot, live, {})
            /\ live.success \/ snapshot.rows = {} \/ (mode = "LIVE" /\ where \in PropertyForms)
      BY DEF NodesAsLive
    <2>. HIDE DEF snapshot, live, wanted
    <2>5. CASE Answers(live, wanted, Cardinality(wanted))
      BY <1>3, <2>1, <2>3, <2>4, <2>5, AnswersAgree
    <2>6. CASE live = Failure
      BY <1>3, <1>4, <2>1, <2>2, <2>4, <2>6 DEF SameAnswer
    <2>. QED  BY <2>2, <2>5, <2>6
  <1>6. ASSUME IInv, NEW mode \in {"LIVE", "SNAPSHOT"}, NEW where \in EdgeForms \ FromForms
        PROVE  EdgesAsLive(now, where, mode)
    <2>. DEFINE snapshot == executeSelectEdgesSnapshot(now, where, NoTop)
                live == executeSelectEdges(where, mode, NoTop)
                wanted == Satisfying(edges, where)
    <2>1. Answers(snapshot, wanted, Cardinality(wanted))
      BY <1>1, <1>6, SnapshotEdgesAnswer
    <2>2. \/ Answers(live, wanted, Cardinality(wanted))
          \/ live = Failure /\ wanted = {}
      BY <1>6, LiveEdgesAnswer
    <2>3. Cardinality(wanted) = Cardinality(wanted) + Cardinality({})
      BY <1>6, SatisfyingFinite, CountedOnce
    <2>4. EdgesAsLive(now, where, mode) <=>
            /\ snapshot.success /\ SameAnswer(snapshot, live, {})
            /\ live.success \/ snapshot.rows = {}
      BY DEF EdgesAsLive
    <2>. HIDE DEF snapshot, live, wanted
    <2>5. CASE Answers(live, wanted, Cardinality(wanted))
      BY <1>3, <2>1, <2>3, <2>4, <2>5, AnswersAgree
    <2>6. CASE live = Failure /\ wanted = {}
      BY <1>3, <1>4, <2>1, <2>4, <2>6 DEF SameAnswer
    <2>. QED  BY <2>2, <2>5, <2>6
  <1>7. ASSUME IInv, NEW mode \in {"LIVE", "SNAPSHOT"}, NEW where \in FromForms
        PROVE  FromAsLive(now, where, mode)
    <2>. DEFINE snapshot == executeSelectEdgesSnapshot(now, where, NoTop)
                live == executeSelectEdges(where, mode, NoTop)
                wanted == FromEdges(where)
    <2>0. where \in EdgeForms
      BY <1>7 DEF EdgeForms
    <2>1. Answers(snapshot, wanted, Cardinality(wanted))
      BY <1>1, <1>7, <2>0, SnapshotEdgesAnswer
    <2>2. Answers(live, wanted, Cardinality(wanted) + Cardinality(ListedTwice(where, wanted)))
      BY <1>7, LiveFromAnswers
    <2>3. FromAsLive(now, where, mode) <=>
            /\ snapshot.success /\ live.success
            /\ SameAnswer(snapshot, live, ListedTwice(where, live.rows))
      BY DEF FromAsLive
    <2>. HIDE DEF snapshot, live, wanted
    <2>4. SameAnswer(snapshot, live, ListedTwice(where, wanted))
      BY <2>1, <2>2, AnswersAgree
    <2>5. ~live.truncated => live.rows = wanted
      BY <2>2 DEF Answers
    <2>6. SameAnswer(snapshot, live, ListedTwice(where, live.rows))
      BY <2>4, <2>5 DEF SameAnswer
    <2>. QED  BY <1>3, <2>1, <2>2, <2>3, <2>6
  <1>8. IInv => SnapshotAsLive
    BY <1>1, <1>2, <1>5, <1>6, <1>7, SameGraph
  <1>. QED  BY <1>8, Invariance, PTL

=============================================================================
