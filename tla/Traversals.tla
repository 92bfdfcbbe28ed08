----------------------------- MODULE Traversals -----------------------------
(***************************************************************************)
(* One MATCH statement answered by both engines: by BFS_Searcher over the  *)
(* neighbour lists of the live graph, then by CSR_Searcher over the rows   *)
(* of a snapshot of the same graph.  The graph, its neighbour lists and    *)
(* the statement are picked at the start and stay; a step visits one       *)
(* neighbour, takes one node from a queue, or opens one layer.             *)
(***************************************************************************)
EXTENDS Integers, Sequences, FiniteSets, PartialMaps

CONSTANTS
    NodeIds,      \* ids the nodes of the graph may have
    Links,        \* pairs of ids an edge may lead between
    Hops          \* the k of MATCH KHOP

ASSUME TraversalsAssumption ==
    NodeIds \subseteq Nat /\ IsFiniteSet(NodeIds) /\ Links \subseteq NodeIds \X NodeIds /\ Hops \subseteq Nat

Requests ==
    [mode : {"REACHABLE"}, source : NodeIds]
    \cup [mode : {"SHORTEST_PATH"}, source : NodeIds, target : NodeIds]
    \cup [mode : {"KHOP"}, source : NodeIds, k : Hops]

Unanswered == [success |-> FALSE, nodes |-> <<0>>]
NoSource == [success |-> FALSE, nodes |-> << >>]
Found(nodes) == [success |-> TRUE, nodes |-> nodes]

VARIABLES
    members, links, upward,                      \* nodes, edges, order of the lists
    request,
    pc,
    visited, parent, visitQueue, visitOrder,     \* BFS_Searcher
    neighbours,                                  \* of the current node, still to visit
    visited_, parent_, frontier_, next_frontier_,\* CSR_Searcher, in CSR indexes
    layer,                                       \* of frontier_, still to expand
    row,                                         \* of the node expanded, still to visit
    current,                                     \* the node, or index, they belong to
    found, depth,
    live, snapshot                               \* the two answers

graphVars == <<members, links, upward, request>>
bfsVars == <<visited, parent, visitQueue, visitOrder, neighbours>>
csrVars == <<visited_, parent_, frontier_, next_frontier_, layer, row, found, depth>>
vars == <<graphVars, pc, bfsVars, csrVars, current, live, snapshot>>

-----------------------------------------------------------------------------
\* The graph

Rank(ids, x) == Cardinality({y \in ids : y <= x})
Ascending(ids) == [i \in 1 .. Cardinality(ids) |-> CHOOSE x \in ids : Rank(ids, x) = i]
Descending(ids) == [i \in 1 .. Cardinality(ids) |-> Ascending(ids)[Cardinality(ids) + 1 - i]]
Listed(ids) == IF upward THEN Ascending(ids) ELSE Descending(ids)

\* GetNeighbourIdsForTraversal, BOTH: the outgoing list, then the incoming one.
NeighbourIds(n) ==
    Listed({m \in members : <<n, m>> \in links}) \o Listed({m \in members : <<m, n>> \in links})

-----------------------------------------------------------------------------
\* Load_CSR

csrToNode == [i \in 0 .. Cardinality(members) - 1 |-> Ascending(members)[i + 1]]

\* Indexes from one up.
nodeToCSRFromOne(n) == Rank(members, n)

\* MapGraphNodeToCSR: a node that is not mapped gives index 0, and a warning.
Mapped(n) == n \in members
nodeToCSR(n) == IF Mapped(n) THEN Rank(members, n) - 1 ELSE 0

row_offsets ==
    LET upTo[i \in 0 .. Cardinality(members)] ==
          IF i = 0 THEN 0 ELSE upTo[i - 1] + Len(NeighbourIds(csrToNode[i - 1]))
    IN  upTo

columns ==
    LET upTo[i \in 0 .. Cardinality(members)] ==
          IF i = 0 THEN << >>
          ELSE LET ids == NeighbourIds(csrToNode[i - 1])
               IN  upTo[i - 1] \o [j \in 1 .. Len(ids) |-> nodeToCSR(ids[j])]
    IN  upTo[Cardinality(members)]

\* A row that ends one short.
RowShort(i) == SubSeq(columns, row_offsets[i] + 1, row_offsets[i + 1] - 1)

\* columns[row_offsets[i] .. row_offsets[i + 1])
Row(i) == SubSeq(columns, row_offsets[i] + 1, row_offsets[i + 1])

-----------------------------------------------------------------------------
\* MATCH against the live graph

StartLive ==
    /\ pc = "start"
    /\ IF request.source \in members
       THEN /\ visited' = {request.source} /\ visitQueue' = <<request.source>>
            /\ pc' = "live"
            /\ UNCHANGED live
       ELSE /\ live' = NoSource /\ pc' = "map"
            /\ UNCHANGED <<visited, visitQueue>>
    /\ UNCHANGED <<graphVars, parent, visitOrder, neighbours, csrVars, current, snapshot>>

\* Run_BFS takes the next node from the queue.
Dequeue ==
    /\ pc = "live" /\ neighbours = << >> /\ visitQueue # << >>
    /\ current' = Head(visitQueue)
    /\ visitQueue' = Tail(visitQueue)
    /\ visitOrder' = Append(visitOrder, current')
    /\ neighbours' = NeighbourIds(current')
    /\ UNCHANGED <<graphVars, pc, visited, parent, csrVars, live, snapshot>>

\* A stack for the queue.
EnqueueFront(n) == visitQueue' = <<n>> \o visitQueue

Enqueue(n) == visitQueue' = Append(visitQueue, n)

VisitNeighbour ==
    /\ pc = "live" /\ neighbours # << >>
    /\ LET n == Head(neighbours)
       IN  IF n \in visited THEN UNCHANGED <<visited, parent, visitQueue>>
           ELSE /\ visited' = visited \cup {n}
                /\ parent' = Put(parent, n, current)
                /\ Enqueue(n)
    /\ neighbours' = Tail(neighbours)
    /\ UNCHANGED <<graphVars, pc, visitOrder, csrVars, current, live, snapshot>>

\* The i-th ancestor; the first node without a parent, or its own, stays.
Ancestor(parents, n) ==
    LET up[i \in 0 .. Cardinality(NodeIds)] ==
          IF i = 0 THEN n
          ELSE IF up[i - 1] \in DOMAIN parents THEN parents[up[i - 1]] ELSE up[i - 1]
    IN  up

\* Steps from n up the parents to the root.
HopsTo(parents, root, n) ==
    CHOOSE h \in 0 .. Cardinality(NodeIds) :
        /\ Ancestor(parents, n)[h] = root
        /\ \A i \in 0 .. h - 1 : Ancestor(parents, n)[i] # root

\* GetShortestPath and reconstruct_path: the chain of parents, reversed.
PathTo(parents, root, n) ==
    LET hops == HopsTo(parents, root, n)
    IN  [i \in 1 .. hops + 1 |-> Ancestor(parents, n)[hops + 1 - i]]

\* What a list has of a set, in the order of the list.
Kept(list, ids) ==
    LET upTo[i \in 0 .. Len(list)] ==
          IF i = 0 THEN << >>
          ELSE IF list[i] \in ids THEN Append(upTo[i - 1], list[i]) ELSE upTo[i - 1]
    IN  upTo[Len(list)]

AnswerLive ==
    /\ pc = "live" /\ neighbours = << >> /\ visitQueue = << >>
    /\ live' = Found(
         CASE request.mode = "REACHABLE" -> visitOrder
           [] request.mode = "SHORTEST_PATH" ->
                IF request.target \in visited THEN PathTo(parent, request.source, request.target)
                ELSE << >>
           [] request.mode = "KHOP" ->
                Kept(visitOrder, {n \in visited : HopsTo(parent, request.source, n) <= request.k}))
    /\ pc' = "map"
    /\ UNCHANGED <<graphVars, bfsVars, csrVars, current, snapshot>>

-----------------------------------------------------------------------------
\* MATCH against the snapshot

\* Index 0 for a target that is not there.
TargetUnchecked == FALSE

TargetMissing == request.mode = "SHORTEST_PATH" /\ ~Mapped(request.target)

StartSnapshot ==
    LET start == nodeToCSR(request.source)
    IN  /\ pc = "map"
        /\ IF ~Mapped(request.source)
           THEN /\ snapshot' = NoSource /\ pc' = "done"
                /\ UNCHANGED <<visited_, parent_, frontier_>>
           ELSE IF TargetMissing
           THEN /\ snapshot' = Found(<< >>) /\ pc' = "done"
                /\ UNCHANGED <<visited_, parent_, frontier_>>
           ELSE /\ visited_' = {start} /\ frontier_' = <<start>>
                /\ parent_' = Put(EmptyMap, start, start)
                /\ pc' = "layer"
                /\ UNCHANGED snapshot
        /\ UNCHANGED <<graphVars, bfsVars, next_frontier_, layer, row, found, depth, current, live>>

\* Layers without an end for a target out of reach.
MoreLayersUntilFound == ~found /\ (request.mode = "KHOP" => depth < request.k)

\* The conditions of the three while loops.  Only the search for a path keeps parent_
\* and only KHOP counts; the others have no use for either.
MoreLayers == frontier_ # << >> /\ ~found /\ (request.mode = "KHOP" => depth < request.k)

OpenLayer ==
    /\ pc = "layer" /\ MoreLayers
    /\ layer' = frontier_ /\ next_frontier_' = << >>
    /\ pc' = "expand"
    /\ UNCHANGED <<graphVars, bfsVars, visited_, parent_, frontier_, row, found, depth, current,
                   live, snapshot>>

ExpandNode ==
    /\ pc = "expand" /\ ~found /\ row = << >> /\ layer # << >>
    /\ current' = Head(layer)
    /\ layer' = Tail(layer)
    /\ row' = Row(Head(layer))
    /\ UNCHANGED <<graphVars, pc, bfsVars, visited_, parent_, frontier_, next_frontier_, found,
                   depth, live, snapshot>>

\* Only the search for a path has a target to stop at.
IsTarget(i) == request.mode = "SHORTEST_PATH" /\ i = nodeToCSR(request.target)

VisitIndex ==
    /\ pc = "expand" /\ ~found /\ row # << >>
    /\ LET i == Head(row)
       IN  IF i \in visited_ THEN UNCHANGED <<visited_, parent_, next_frontier_, found>>
           ELSE /\ visited_' = visited_ \cup {i}
                /\ parent_' = Put(parent_, i, current)
                /\ found' = IsTarget(i)
                /\ next_frontier_' = IF IsTarget(i) THEN next_frontier_ ELSE Append(next_frontier_, i)
    /\ row' = Tail(row)
    /\ UNCHANGED <<graphVars, pc, bfsVars, frontier_, layer, depth, current, live, snapshot>>

\* The swap at the end of a layer, or after the break.
CloseLayer ==
    /\ pc = "expand" /\ (found \/ (row = << >> /\ layer = << >>))
    /\ frontier_' = next_frontier_ /\ next_frontier_' = frontier_
    /\ layer' = << >> /\ row' = << >>
    /\ depth' = IF request.mode = "KHOP" THEN depth + 1 ELSE depth
    /\ pc' = "layer"
    /\ UNCHANGED <<graphVars, bfsVars, visited_, parent_, found, current, live, snapshot>>

AnswerSnapshot ==
    LET target == nodeToCSR(request.target)
        path == PathTo(parent_, nodeToCSR(request.source), target)
    IN  /\ pc = "layer" /\ ~MoreLayers
        /\ snapshot' = Found(
             IF request.mode = "SHORTEST_PATH"
             THEN IF target \in visited_ THEN [i \in DOMAIN path |-> csrToNode[path[i]]] ELSE << >>
             ELSE Ascending({csrToNode[i] : i \in visited_}))
        /\ pc' = "done"
        /\ UNCHANGED <<graphVars, bfsVars, csrVars, current, live>>

-----------------------------------------------------------------------------
Init ==
    /\ members \in SUBSET NodeIds
    /\ links \in SUBSET (Links \cap (members \X members))
    /\ upward \in BOOLEAN
    /\ request \in Requests
    /\ pc = "start"
    /\ visited = {} /\ parent = EmptyMap /\ visitQueue = << >> /\ visitOrder = << >>
    /\ neighbours = << >>
    /\ visited_ = {} /\ parent_ = EmptyMap /\ frontier_ = << >> /\ next_frontier_ = << >>
    /\ layer = << >> /\ row = << >> /\ current = 0
    /\ found = FALSE /\ depth = 0
    /\ live = Unanswered /\ snapshot = Unanswered

\* The statement is answered; the next one starts afresh.
Done == pc = "done" /\ UNCHANGED vars

Step ==
    \/ StartLive \/ Dequeue \/ VisitNeighbour \/ AnswerLive
    \/ StartSnapshot \/ OpenLayer \/ ExpandNode \/ VisitIndex \/ CloseLayer \/ AnswerSnapshot

Next == Step \/ Done

\* The searchers run to the end under the handler's lock.
Spec == Init /\ [][Next]_vars /\ WF_vars(Step)

-----------------------------------------------------------------------------
\* Properties

TypeOK ==
    /\ members \subseteq NodeIds /\ links \subseteq members \X members
    /\ upward \in BOOLEAN /\ request \in Requests
    /\ pc \in {"start", "live", "map", "layer", "expand", "done"}
    /\ visited \subseteq members /\ DOMAIN parent \subseteq visited
    /\ visitQueue \in Seq(members) /\ visitOrder \in Seq(members) /\ neighbours \in Seq(members)
    /\ visited_ \subseteq DOMAIN csrToNode /\ DOMAIN parent_ \subseteq visited_
    /\ frontier_ \in Seq(DOMAIN csrToNode) /\ next_frontier_ \in Seq(DOMAIN csrToNode)
    /\ layer \in Seq(DOMAIN csrToNode) /\ row \in Seq(DOMAIN csrToNode)
    /\ found \in BOOLEAN /\ depth \in Nat

Adjacent(n) == {m \in members : <<n, m>> \in links \/ <<m, n>> \in links}

\* Nodes at most h steps away from the source, whichever way the edges point.
Within(h) ==
    LET ball[i \in 0 .. h] ==
          IF i = 0 THEN {request.source} ELSE ball[i - 1] \cup UNION {Adjacent(n) : n \in ball[i - 1]}
    IN  ball[h]

Reachable == Within(Cardinality(NodeIds))

IsPath(path) ==
    /\ path[1] = request.source /\ path[Len(path)] = request.target
    /\ \A i \in 1 .. Len(path) - 1 : path[i + 1] \in Adjacent(path[i])

Correct(answer) ==
    IF request.source \notin members THEN ~answer.success
    ELSE /\ answer.success
         /\ CASE request.mode = "REACHABLE" -> Range(answer.nodes) = Reachable
              [] request.mode = "KHOP" -> Range(answer.nodes) = Within(request.k)
              [] request.mode = "SHORTEST_PATH" ->
                   IF request.target \in Reachable
                   THEN /\ IsPath(answer.nodes)
                        /\ Len(answer.nodes) = 1 \/ request.target \notin Within(Len(answer.nodes) - 2)
                   ELSE answer.nodes = << >>

\* BFS over the neighbour lists answers with the nodes in reach, the nodes within
\* k hops, or a path no other is shorter than.
LiveCorrect == pc \in {"map", "layer", "expand", "done"} => Correct(live)

\* So does the search over the frozen rows, where nodes are indexes, the path search
\* stops in the middle of a row, and KHOP counts layers instead of parents.
SnapshotCorrect == pc = "done" => Correct(snapshot)

\* QUERY_REFERENCE.md:96 a query "behaves identically whichever engine serves it":
\* the same verdict, as many nodes, and the same ones unless they are a path.
EnginesAgree ==
    pc = "done" =>
        /\ live.success = snapshot.success /\ Len(live.nodes) = Len(snapshot.nodes)
        /\ request.mode # "SHORTEST_PATH" => Range(live.nodes) = Range(snapshot.nodes)

\* Cycles, self-loops and edges between the same nodes never keep a search going:
\* every statement is answered.
Answered == <>(pc = "done")
=============================================================================
