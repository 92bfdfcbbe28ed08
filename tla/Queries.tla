------------------------------ MODULE Queries ------------------------------
(***************************************************************************)
(* What Query.cpp reads once a statement is parsed: the WHERE evaluation,  *)
(* the index paths SELECT and UPDATE take around it, the row cap, and the  *)
(* same reads against the history for a snapshot.                          *)
(*                                                                         *)
(* A result names its rows by id; projection and messages are left out,    *)
(* except for the number a COUNT reports, and so is a TOP on an index      *)
(* path, which cuts the rows found.  Property values are numbers in the    *)
(* order of the strings, "" being 0.                                       *)
(***************************************************************************)
EXTENDS GraphStore, Sequences

CONSTANT ScanCap     \* DEFAULT_SCAN_CAP

ASSUME QueriesAssumption == ScanCap \in Nat /\ PropertyValues \subseteq Nat

NoTop == -1          \* a SELECT without TOP
Unparsable == -1     \* text in place of an id that no digits stand for

-----------------------------------------------------------------------------
\* Rows and results

\* Ids grow with insertion: an id's place in a scan is its rank.
Position(ids, x) == Cardinality({y \in ids : y <= x})

Failure == [success |-> FALSE, rows |-> {}, count |-> 0, truncated |-> FALSE]
Rows(ids) == [success |-> TRUE, rows |-> ids, count |-> Cardinality(ids), truncated |-> FALSE]

\* applyScanCap.  Of a walk without order any rows may be kept; here the first.
Scanned(ids, top) ==
    LET cap == IF top = NoTop THEN ScanCap ELSE top
        kept == {x \in ids : Position(ids, x) <= cap}
    IN  [Rows(kept) EXCEPT !.truncated = kept # ids]

-----------------------------------------------------------------------------
\* WHERE: a sequence of conditions, each with the connector to the next.

whereHasOr(where) == \E i \in DOMAIN where : where[i].logicOp = "OR"

\* The conditions an index can serve, and what the first and the last demand.
Equalities(where, properties) ==
    {i \in DOMAIN where : where[i].property \in properties /\ where[i].op = "="}
Anchored(where, property) == Equalities(where, {property}) # {}
FirstValue(where, property) ==
    LET found == Equalities(where, {property})
    IN  where[CHOOSE i \in found : \A j \in found : i <= j].value
LastValue(where, property) ==
    LET found == Equalities(where, {property})
    IN  where[CHOOSE i \in found : \A j \in found : i >= j].value

executeCondition(op, actual, value) ==
    CASE op = "=" -> actual = value
      [] op = "!=" -> actual # value
      [] op = "<" -> actual < value
      [] op = ">" -> actual > value
      [] op = "<=" -> actual <= value
      [] op = ">=" -> actual >= value

\* Ids and labels know = and != only.
executeIdentity(op, actual, value) == op \in {"=", "!="} /\ executeCondition(op, actual, value)

\* A property the node does not have reads as "".
ValueOf(node, key) == IF key \in DOMAIN node.properties THEN node.properties[key] ELSE 0

\* testNodeCondition, testEdgeCondition: edges have no properties, and nothing
\* here knows FROM, TO or DIRECTION.
testCondition(id, row, c) ==
    CASE c.property = "ID" -> c.value # Unparsable /\ executeIdentity(c.op, id, c.value)
      [] c.property = "LABEL" -> executeIdentity(c.op, row.label, c.value)
      [] OTHER -> "properties" \in DOMAIN row /\ executeCondition(c.op, ValueOf(row, c.property), c.value)

\* AND and OR with one precedence, from left to right.
evaluateLeftToRight(where, holding) ==
    LET upTo[i \in DOMAIN where] ==
          IF i = 1 THEN i \in holding
          ELSE IF where[i - 1].logicOp = "OR" THEN upTo[i - 1] \/ i \in holding
               ELSE upTo[i - 1] /\ i \in holding
    IN  where = << >> \/ upTo[Len(where)]

\* evaluateConditions: the loop's flags after each condition.  groupTrue starts
\* afresh once a connector other than AND has closed the group.
evaluateConditions(where, holding) ==
    LET after[i \in 0 .. Len(where)] ==
          IF i = 0 THEN [anyGroupTrue |-> FALSE, groupTrue |-> TRUE]
          ELSE LET group == after[i - 1].groupTrue /\ i \in holding
               IN  IF where[i].logicOp = "AND" THEN [after[i - 1] EXCEPT !.groupTrue = group]
                   ELSE [anyGroupTrue |-> after[i - 1].anyGroupTrue \/ group, groupTrue |-> TRUE]
    IN  where = << >> \/ after[Len(where)].anyGroupTrue

matchesConditions(id, row, where) ==
    evaluateConditions(where, {i \in DOMAIN where : testCondition(id, row, where[i])})

Matching(rows, ids, where) == {x \in ids \cap DOMAIN rows : matchesConditions(x, rows[x], where)}

-----------------------------------------------------------------------------
\* SELECT against the live graph; mode is "SNAPSHOT" when no snapshot was there
\* to read and the statement falls back to this.

FullScan(where, mode, keys) ==
    \/ whereHasOr(where) \/ where = << >>
    \/ mode = "SNAPSHOT" /\ Equalities(where, keys) = {}

ById(id, rows) ==
    IF id = Unparsable THEN Failure ELSE Rows({id} \cap DOMAIN rows)

\* The label's bucket, then the conditions on anything else, as properties: an
\* ID # n among them asks for a property called ID.  FindNodes warns of a label
\* that has no bucket.
NodesByLabel(where) ==
    IF FirstValue(where, "LABEL") \notin nodeLabels THEN Failure
    ELSE Rows({n \in labelToNodes[FirstValue(where, "LABEL")] :
                 \A i \in DOMAIN where :
                     where[i].property # "LABEL" =>
                         executeCondition(where[i].op, ValueOf(nodes[n], where[i].property), where[i].value)})

executeSelectNodes(where, mode, top) ==
    IF FullScan(where, mode, {"ID", "LABEL"})
    THEN Scanned(Matching(nodes, nodeInsertionOrder, where), top)
    ELSE IF Anchored(where, "ID") THEN ById(FirstValue(where, "ID"), nodes)
    ELSE IF Anchored(where, "LABEL") THEN NodesByLabel(where)
    ELSE Failure

Direction(where) ==
    IF Anchored(where, "DIRECTION") THEN LastValue(where, "DIRECTION") ELSE "OUTGOING"

DirectionValid(where) == Direction(where) \in {"OUTGOING", "INCOMING", "BOTH"}

\* The field map has the last value of each.
Parsable(where, properties) ==
    \A property \in properties :
        Anchored(where, property) => LastValue(where, property) # Unparsable

\* What the field map asks of an edge beyond its FROM; TO is either endpoint.
PassesFields(edge, where) ==
    /\ Anchored(where, "LABEL") => edge.label = LastValue(where, "LABEL")
    /\ Anchored(where, "TO") => LastValue(where, "TO") \in {edge.from, edge.to}

\* BOTH returns the one list and then the other, a self-loop twice.
EdgesFrom(where) ==
    LET n == LastValue(where, "FROM")
        listed(ids) == {e \in ids : PassesFields(edges[e], where)}
        out == IF Direction(where) = "INCOMING" THEN {} ELSE listed(adjacencyOut[n])
        in == IF Direction(where) = "OUTGOING" THEN {} ELSE listed(adjacencyIn[n])
    IN  [Rows(out \cup in) EXCEPT !.count = Cardinality(out) + Cardinality(in)]

\* FindEdgesByLabel warns of a label that has no bucket.
EdgesByLabel(where) ==
    LET label == LastValue(where, "LABEL")
    IN  IF label \in edgeLabels THEN Rows(labelToEdges[label]) ELSE Failure

\* Conditions other than equalities are ignored.
executeSelectEdges(where, mode, top) ==
    IF FullScan(where, mode, {"ID", "FROM", "LABEL"})
    THEN Scanned(Matching(edges, edgeInsertionOrder, where), top)
    ELSE IF Anchored(where, "ID") THEN ById(LastValue(where, "ID"), edges)
    ELSE IF ~DirectionValid(where) THEN Failure
    ELSE IF Anchored(where, "FROM")
    THEN IF Parsable(where, {"FROM", "TO"}) THEN EdgesFrom(where) ELSE Failure
    ELSE IF Anchored(where, "LABEL") THEN EdgesByLabel(where)
    ELSE Failure

\* executeSelectGraph: the two scans, less the edges with an endpoint cut off.
Bundle(nodePart, edgePart, edgeRows) ==
    LET whole(e) == {edgeRows[e].from, edgeRows[e].to} \subseteq nodePart.rows
        kept == {e \in edgePart.rows : whole(e)}
    IN  [nodes |-> nodePart.rows, edges |-> kept,
         truncated |-> nodePart.truncated \/ edgePart.truncated \/ kept # edgePart.rows]

executeSelectGraph(mode, top) ==
    Bundle(executeSelectNodes(<< >>, mode, top), executeSelectEdges(<< >>, mode, top), edges)

-----------------------------------------------------------------------------
\* UPDATE: the ids an equality leaves, or all; then the whole WHERE for each.  What
\* becomes of the rows it selects is UpdateNodeProperties and UpdateEdgeLabel.

\* The anchor taken although an OR follows.
CandidatesDespiteOr(where, order, byLabel) ==
    IF Anchored(where, "ID") THEN {FirstValue(where, "ID")}
    ELSE IF Anchored(where, "LABEL") THEN byLabel[FirstValue(where, "LABEL")]
    ELSE order

Candidates(where, order, byLabel) ==
    IF whereHasOr(where) THEN order
    ELSE IF Anchored(where, "ID") THEN {FirstValue(where, "ID")}
    ELSE IF Anchored(where, "LABEL") THEN byLabel[FirstValue(where, "LABEL")]
    ELSE order

executeUpdateNodes(where) ==
    Matching(nodes, Candidates(where, nodeInsertionOrder, labelToNodes), where)
executeUpdateEdges(where) ==
    Matching(edges, Candidates(where, edgeInsertionOrder, labelToEdges), where)

-----------------------------------------------------------------------------
\* SELECT against a snapshot

\* Rows the version itself has created are left out.
BuildLabelIndexBefore(members, version) ==
    [l \in Labels |-> {n \in members \cap DOMAIN RowsAt(mvccNodes, version) :
                         mvccNodes[n].row.label = l /\ mvccNodes[n].createdAtVersion < version}]

\* The members by the label they have at the version, for WHERE LABEL = '...'.
\* Members the version does not show are left out.
BuildLabelIndex(members, version) ==
    [l \in Labels |-> {n \in members \cap DOMAIN RowsAt(mvccNodes, version) :
                         mvccNodes[n].row.label = l}]

\* A CSR_Representation: csrToNode, the keys of nodeToCSR, and the label index.
Snapshot(version, members, mapped) ==
    [version |-> version, members |-> members, mapped |-> mapped,
     byLabel |-> BuildLabelIndex(members, version)]

\* An ID the lookup has served, read as a property once more.
PassesFiltersTwice(node, where) ==
    /\ Anchored(where, "LABEL") => node.label = LastValue(where, "LABEL")
    /\ \A i \in DOMAIN where \ Equalities(where, {"LABEL"}) :
         executeCondition(where[i].op, ValueOf(node, where[i].property), where[i].value)

\* Conditions neither ID nor LABEL equality serves, read as properties.
PassesFilters(node, where) ==
    /\ Anchored(where, "LABEL") => node.label = LastValue(where, "LABEL")
    /\ \A i \in DOMAIN where \ Equalities(where, {"ID", "LABEL"}) :
         executeCondition(where[i].op, ValueOf(node, where[i].property), where[i].value)

\* The ids looked at: one if it is mapped, a label's, or all members.
Walked(s, where) ==
    IF Anchored(where, "ID") THEN {LastValue(where, "ID")} \cap s.mapped
    ELSE IF Anchored(where, "LABEL") THEN s.byLabel[LastValue(where, "LABEL")]
    ELSE s.members

\* Under a TOP the walk stops by itself, and nothing counts as truncated.
executeSelectNodesSnapshot(s, where, top) ==
    LET view == RowsAt(mvccNodes, s.version)
        passing == {n \in Walked(s, where) \cap DOMAIN view : PassesFilters(view[n], where)}
    IN  IF whereHasOr(where) THEN Scanned(Matching(view, s.members, where), top)
        ELSE IF Unparsable \in {where[i].value : i \in Equalities(where, {"ID"})} THEN Failure
        ELSE [Scanned(passing, top) EXCEPT !.truncated = @ /\ top = NoTop]

PassesSnapshot(e, edge, where) ==
    LET n == LastValue(where, "FROM")
    IN  /\ Anchored(where, "ID") => e = LastValue(where, "ID")
        /\ Anchored(where, "FROM") => \/ Direction(where) # "INCOMING" /\ edge.from = n
                                      \/ Direction(where) # "OUTGOING" /\ edge.to = n
        /\ PassesFields(edge, where)

executeSelectEdgesSnapshot(s, where, top) ==
    LET view == EdgesAtVersion(s.version)
    IN  IF whereHasOr(where) THEN Scanned(Matching(view, DOMAIN view, where), top)
        ELSE IF ~Parsable(where, {"ID", "FROM", "TO"}) \/ ~DirectionValid(where) THEN Failure
        ELSE Scanned({e \in DOMAIN view : PassesSnapshot(e, view[e], where)}, top)

executeSelectGraphSnapshot(s, top) ==
    Bundle(executeSelectNodesSnapshot(s, << >>, top), executeSelectEdgesSnapshot(s, << >>, top),
           EdgesAtVersion(s.version))

-----------------------------------------------------------------------------
\* The statements the properties are about: the documented forms, over a few
\* operators and all values.

Condition(properties, operators, values) ==
    [property : properties, op : operators, value : values, logicOp : {""}]
Equal(property, values) == Condition({property}, {"="}, values)
Joined(c, connector, d) == <<[c EXCEPT !.logicOp = connector], d>>
Joined3(c, first, d, second, e) ==
    <<[c EXCEPT !.logicOp = first], [d EXCEPT !.logicOp = second], e>>

WithId(ids) == Condition({"ID"}, {"=", "!="}, ids \cup {Unparsable})
WithLabel == Condition({"LABEL"}, {"=", "!="}, Labels)
WithProperty == Condition(PropertyKeys \ {"ID", "LABEL"}, {"=", "<"}, PropertyValues \cup {0})
NodeConditions == WithId(NodeIds) \cup WithLabel \cup WithProperty
EdgeConditions == WithId(EdgeIds) \cup WithLabel

AndWheres(conditions) ==
    {<<c>> : c \in conditions} \cup {Joined(c, "AND", d) : c, d \in conditions}
OrWheres(conditions) ==
    {Joined(c, "OR", d) : c \in conditions, d \in WithLabel}
    \cup {Joined3(c, "OR", d, "AND", e) : c, d \in Equal("LABEL", Labels), e \in conditions}

\* QUERY_REFERENCE.md:334 a "Property filter with no ID/LABEL anchor".
PropertyForms == {<<d>> : d \in WithProperty}

\* QUERY_REFERENCE.md:328 and :283
NodeForms ==
    {<< >>} \cup {<<c>> : c \in Equal("ID", NodeIds) \cup Equal("LABEL", Labels)}
    \cup {Joined(c, "AND", d) : c \in Equal("LABEL", Labels), d \in WithProperty}
    \cup PropertyForms \cup OrWheres(NodeConditions)

\* QUERY_REFERENCE.md:365 and :283
FromForms ==
    {<<c>> : c \in Equal("FROM", NodeIds)}
    \cup {Joined(c, "AND", d) : c \in Equal("FROM", NodeIds),
            d \in Equal("DIRECTION", {"OUTGOING", "INCOMING", "BOTH"}) \cup Equal("LABEL", Labels)
                  \cup Equal("TO", NodeIds)}
    \cup {Joined3(c, "AND", d, "AND", e) : c \in Equal("FROM", NodeIds),
            d \in Equal("DIRECTION", {"INCOMING", "BOTH"}), e \in Equal("TO", NodeIds)}
EdgeForms ==
    {<< >>} \cup {<<c>> : c \in Equal("ID", EdgeIds) \cup Equal("LABEL", Labels)}
    \cup OrWheres(EdgeConditions) \cup FromForms

-----------------------------------------------------------------------------
\* Properties

\* WHERE as QUERY_REFERENCE.md:265 has it, for the conditions that hold: groups
\* of ANDed conditions, one of which holds whole.
SumOfProducts(where, holding) ==
    \/ where = << >>
    \/ \E i, j \in DOMAIN where :
         /\ i = 1 \/ where[i - 1].logicOp = "OR"
         /\ j = Len(where) \/ where[j].logicOp = "OR"
         /\ i <= j /\ i .. j \subseteq holding
         /\ \A k \in i .. j - 1 : where[k].logicOp = "AND"

Satisfying(rows, where) ==
    {x \in DOMAIN rows :
       SumOfProducts(where, {i \in DOMAIN where : testCondition(x, rows[x], where[i])})}

\* FROM = n AND TO = m for n # m, as QUERY_REFERENCE.md:369 describes it: edges
\* at n in the direction asked, whose other endpoint is m.
FromSatisfying(where) ==
    LET n == FirstValue(where, "FROM")
        other(e) == IF edges[e].from = n THEN edges[e].to ELSE edges[e].from
    IN  {e \in DOMAIN edges :
           /\ \/ Direction(where) # "INCOMING" /\ edges[e].from = n
              \/ Direction(where) # "OUTGOING" /\ edges[e].to = n
           /\ Anchored(where, "LABEL") => edges[e].label = FirstValue(where, "LABEL")
           /\ Anchored(where, "TO") => other(e) = FirstValue(where, "TO")}

ToIsAnchor(where) ==
    Anchored(where, "TO") /\ FirstValue(where, "TO") = FirstValue(where, "FROM")

Answers(result, wanted, count) ==
    /\ result.success /\ result.rows \subseteq wanted
    /\ ~result.truncated => result.rows = wanted /\ result.count = count

\* The self-loops among the edges FROM ... DIRECTION = 'BOTH' finds: each is in
\* both of the node's lists.
ListedTwice(where, ids) ==
    {e \in ids : Direction(where) = "BOTH" /\ edges[e].from = edges[e].to}

\* No row has the label an AND clause asks for.
NobodyHas(rows, where) ==
    /\ ~whereHasOr(where) /\ Anchored(where, "LABEL")
    /\ \A x \in DOMAIN rows : rows[x].label # LastValue(where, "LABEL")

NodesAnswered(where, mode) ==
    LET result == executeSelectNodes(where, mode, NoTop)
        wanted == Satisfying(nodes, where)
    IN  \/ Answers(result, wanted, Cardinality(wanted))
        \/ result = Failure /\ NobodyHas(nodes, where)
        \/ result = Failure /\ mode = "LIVE" /\ where \in PropertyForms

EdgesAnswered(where, mode) ==
    LET result == executeSelectEdges(where, mode, NoTop)
        wanted == Satisfying(edges, where)
    IN  \/ Answers(result, wanted, Cardinality(wanted))
        \/ result = Failure /\ NobodyHas(edges, where)

FromAnswered(where, mode) ==
    LET wanted == FromSatisfying(where)
    IN  Answers(executeSelectEdges(where, mode, NoTop), wanted,
                Cardinality(wanted) + Cardinality(ListedTwice(where, wanted)))

\* A SELECT in one of the forms above, whichever index or scan serves it, returns and
\* counts the rows its WHERE is true of: all of them, unless it says that it cut
\* them off.  Three departures from QUERY_REFERENCE.md are in it.  A property
\* filter alone, which lines 203 and 334 document, is turned down on the live graph.
\* The self-loops of BOTH are returned and counted twice (line 403 has each edge
\* once).  A label is turned down only if no row has it; but lines 356 and 401
\* would have it turned down whenever no row has it, and the code answers a label
\* whose rows are all gone with success, which this allows as well.
SelectAsEvaluated ==
    \A mode \in {"LIVE", "SNAPSHOT"} :
        /\ \A where \in NodeForms : NodesAnswered(where, mode)
        /\ \A where \in EdgeForms \ FromForms : EdgesAnswered(where, mode)
        /\ \A where \in FromForms : ~ToIsAnchor(where) => FromAnswered(where, mode)

\* Query.cpp:1868 "the result is identical to a full scan": the anchor an UPDATE
\* picks never hides a row its WHERE is true of, whatever the WHERE.
UpdateAsScan ==
    /\ \A where \in AndWheres(NodeConditions) \cup OrWheres(NodeConditions) :
         executeUpdateNodes(where) = Satisfying(nodes, where)
    /\ \A where \in AndWheres(EdgeConditions) \cup OrWheres(EdgeConditions) :
         executeUpdateEdges(where) = Satisfying(edges, where)

\* twice: the rows the live graph has one time too many
SameAnswer(snapshot, live, twice) ==
    live.success /\ ~live.truncated /\ ~snapshot.truncated =>
        snapshot.rows = live.rows /\ live.count = snapshot.count + Cardinality(twice)

NodesAsLive(now, where, mode) ==
    LET snapshot == executeSelectNodesSnapshot(now, where, NoTop)
        live == executeSelectNodes(where, mode, NoTop)
    IN  /\ snapshot.success /\ SameAnswer(snapshot, live, {})
        /\ live.success \/ snapshot.rows = {} \/ (mode = "LIVE" /\ where \in PropertyForms)

EdgesAsLive(now, where, mode) ==
    LET snapshot == executeSelectEdgesSnapshot(now, where, NoTop)
        live == executeSelectEdges(where, mode, NoTop)
    IN  /\ snapshot.success /\ SameAnswer(snapshot, live, {})
        /\ live.success \/ snapshot.rows = {}

FromAsLive(now, where, mode) ==
    LET snapshot == executeSelectEdgesSnapshot(now, where, NoTop)
        live == executeSelectEdges(where, mode, NoTop)
    IN  /\ snapshot.success /\ live.success
        /\ SameAnswer(snapshot, live, ListedTwice(where, live.rows))

\* A snapshot captured now answers every form above, and where the live graph
\* answers too, directly or as the fallback of a SNAPSHOT read, the rows and their
\* number are the same: the history, the id map and the label index agree with the
\* live rows and indexes.  QUERY_REFERENCE.md:570 and :594 promise more, identical
\* results and messages.  Three differences are in it: what only the live graph
\* turns down (a label no row has had, of which the snapshot shows no row, and a
\* property filter alone), and the self-loops that only the live graph has twice.
SnapshotAsLive ==
    LET now == Snapshot(currentVersion, nodeInsertionOrder, nodeInsertionOrder)
    IN  /\ \A mode \in {"LIVE", "SNAPSHOT"} :
             /\ \A where \in NodeForms : NodesAsLive(now, where, mode)
             /\ \A where \in EdgeForms \ FromForms : EdgesAsLive(now, where, mode)
             /\ \A where \in FromForms : FromAsLive(now, where, mode)
        /\ LET graph == executeSelectGraph("LIVE", NoTop)
           IN  ~graph.truncated => executeSelectGraphSnapshot(now, NoTop) = graph

-----------------------------------------------------------------------------
\* Statements of the documentation and of comments that the code does not keep

\* QUERY_REFERENCE.md:241 a COUNT is "not subject to the row cap", and Query.cpp:760
\* "A COUNT is never capped".
CountIsExact == executeSelectNodes(<< >>, "LIVE", NoTop).count = Cardinality(DOMAIN nodes)

=============================================================================
