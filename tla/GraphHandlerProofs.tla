-------------------------- MODULE GraphHandlerProofs --------------------------
(***************************************************************************)
(* What the commands of GraphHandler do to the graph, to the registry and  *)
(* to the file of FLUSH, for any graph and any number of snapshots.        *)
(***************************************************************************)
EXTENDS GraphHandler, GraphStoreProofs

-----------------------------------------------------------------------------
\* The order of ids

\* In a finite set of numbers of n elements each element has a place of its own
\* from 1 to n, and smaller elements have smaller places.
LEMMA Places ==
    ASSUME NEW S \in SUBSET Nat, IsFiniteSet(S)
    PROVE  /\ Cardinality(S) \in Nat
           /\ \A x \in S : Position(S, x) \in 1 .. Cardinality(S)
           /\ \A x, y \in S : x < y => Position(S, x) < Position(S, y)
           /\ \A i \in 1 .. Cardinality(S) : \E x \in S : Position(S, x) = i
  <1>. DEFINE upTo(x) == {y \in S : y <= x}
              place == [x \in S |-> Position(S, x)]
  <1>0. \A x \in S : x \in Nat
    OBVIOUS
  <1>1. Cardinality(S) \in Nat
    BY FS_CardinalityType
  <1>2. ASSUME NEW x \in S
        PROVE  /\ IsFiniteSet(upTo(x)) /\ Position(S, x) = Cardinality(upTo(x))
               /\ Position(S, x) \in 1 .. Cardinality(S)
    <2>1. upTo(x) \in SUBSET S /\ x \in upTo(x) /\ Position(S, x) = Cardinality(upTo(x))
      BY DEF Position
    <2>. HIDE DEF upTo
    <2>2. IsFiniteSet(upTo(x)) /\ Cardinality(upTo(x)) <= Cardinality(S)
      BY <2>1, FS_Subset
    <2>3. Cardinality(upTo(x)) \in Nat /\ Cardinality(upTo(x)) # 0
      BY <2>1, <2>2, FS_CardinalityType, FS_EmptySet
    <2>. QED  BY <2>1, <2>2, <2>3, <1>1
  <1>3. ASSUME NEW x \in S, NEW y \in S, x < y
        PROVE  Position(S, x) < Position(S, y)
    <2>0. x \in Nat /\ y \in Nat
      BY <1>0
    <2>1. upTo(x) \in SUBSET upTo(y) /\ y \in upTo(y) /\ y \notin upTo(x)
      <3>1. \A z \in upTo(x) : z \in S /\ z \in Nat /\ z <= x
        BY <1>0
      <3>2. \A z \in upTo(x) : z \in upTo(y)
        BY <3>1, <2>0, <1>3
      <3>3. ~(y <= x) /\ y <= y
        BY <2>0, <1>3
      <3>. QED  BY <3>2, <3>3
    <2>. HIDE DEF upTo
    <2>2. Cardinality(upTo(x)) <= Cardinality(upTo(y)) /\ Cardinality(upTo(x)) # Cardinality(upTo(y))
      BY <2>1, <1>2, FS_Subset
    <2>. QED  BY <2>2, <1>1, <1>2
  <1>4. place \in Injection(S, 1 .. Cardinality(S))
    <2>1. place \in [S -> 1 .. Cardinality(S)]
      BY <1>2
    <2>2. ASSUME NEW x \in S, NEW y \in S, place[x] = place[y]
          PROVE  x = y
      <3>1. x < y \/ y < x \/ x = y
        <4>1. x \in Nat /\ y \in Nat
          BY <1>0
        <4>. QED  BY <4>1
      <3>2. Position(S, x) = Position(S, y) /\ Position(S, x) \in Int
        <4>1. Position(S, x) = Position(S, y)
          BY <2>2
        <4>2. Position(S, x) \in 1 .. Cardinality(S)
          BY <1>2
        <4>. QED  BY <4>1, <4>2, <1>1
      <3>. QED  BY <3>1, <3>2, <1>3
    <2>. HIDE DEF place
    <2>. QED  BY <2>1, <2>2 DEF Injection, IsInjective
  <1>5. place \in Surjection(S, 1 .. Cardinality(S))
    <2>1. IsFiniteSet(1 .. Cardinality(S)) /\ Cardinality(1 .. Cardinality(S)) = Cardinality(S)
      BY <1>1, FS_Interval
    <2>. HIDE DEF place
    <2>. QED  BY <2>1, <1>4, FS_Injection
  <1>6. \A i \in 1 .. Cardinality(S) : \E x \in S : Position(S, x) = i
    BY <1>5 DEF Surjection
  <1>. HIDE DEF upTo, place
  <1>. QED  BY <1>1, <1>2, <1>3, <1>6

-----------------------------------------------------------------------------
\* The file of FLUSH

\* What LOAD needs to know of a file: rows of graphs, no more than there are ids.
FileOK(file) ==
    /\ file.nodes \in Seq(Node) /\ Len(file.nodes) <= MaxNodes
    /\ file.edges \in Seq(Edge) /\ Len(file.edges) <= MaxEdges

LEMMA LiveIdsFinite ==
    ASSUME TypeOK
    PROVE  /\ DOMAIN nodes \in SUBSET Nat /\ IsFiniteSet(DOMAIN nodes)
           /\ Cardinality(DOMAIN nodes) \in Nat /\ Cardinality(DOMAIN nodes) <= MaxNodes
           /\ DOMAIN edges \in SUBSET Nat /\ IsFiniteSet(DOMAIN edges)
           /\ Cardinality(DOMAIN edges) \in Nat /\ Cardinality(DOMAIN edges) <= MaxEdges
  <1>1. DOMAIN nodes \in SUBSET (1 .. MaxNodes) /\ DOMAIN edges \in SUBSET (1 .. MaxEdges)
    BY DEF TypeOK, NodeIds, EdgeIds
  <1>2. /\ IsFiniteSet(1 .. MaxNodes) /\ Cardinality(1 .. MaxNodes) = MaxNodes
        /\ IsFiniteSet(1 .. MaxEdges) /\ Cardinality(1 .. MaxEdges) = MaxEdges
    BY FS_Interval, BoundsAssumption
  <1>3. /\ IsFiniteSet(DOMAIN nodes) /\ Cardinality(DOMAIN nodes) <= MaxNodes
        /\ IsFiniteSet(DOMAIN edges) /\ Cardinality(DOMAIN edges) <= MaxEdges
    BY <1>1, <1>2, FS_Subset
  <1>. QED  BY <1>1, <1>3, FS_CardinalityType

\* The row at a place is that of the id with this place.
LEMMA InOrderRows ==
    ASSUME NEW ids \in SUBSET Nat, IsFiniteSet(ids), NEW rows
    PROVE  /\ DOMAIN InOrder(rows, ids) = 1 .. Cardinality(ids)
           /\ \A x \in ids : InOrder(rows, ids)[Position(ids, x)] = rows[x]
           /\ \A i \in 1 .. Cardinality(ids) :
                \E x \in ids : Position(ids, x) = i /\ InOrder(rows, ids)[i] = rows[x]
  <1>. DEFINE at(i) == CHOOSE x \in ids : Position(ids, x) = i
  <1>1. \A i \in 1 .. Cardinality(ids) : at(i) \in ids /\ Position(ids, at(i)) = i
    BY Places
  <1>2. \A i \in 1 .. Cardinality(ids) : InOrder(rows, ids)[i] = rows[at(i)]
    BY DEF InOrder
  <1>3. DOMAIN InOrder(rows, ids) = 1 .. Cardinality(ids)
    BY DEF InOrder
  <1>. HIDE DEF at
  <1>4. ASSUME NEW x \in ids
        PROVE  InOrder(rows, ids)[Position(ids, x)] = rows[x]
    <2>1. Position(ids, x) \in 1 .. Cardinality(ids)
      BY Places
    <2>2. at(Position(ids, x)) \in ids /\ Position(ids, at(Position(ids, x))) = Position(ids, x)
      BY <2>1, <1>1
    <2>3. at(Position(ids, x)) = x
      <3>. DEFINE y == at(Position(ids, x))
      <3>1. y \in ids /\ Position(ids, y) = Position(ids, x)
        BY <2>2
      <3>. HIDE DEF y
      <3>2. x \in Nat /\ y \in Nat /\ Position(ids, x) \in Int
        BY <3>1, Places
      <3>3. ~(x < y) /\ ~(y < x)
        BY <3>1, <3>2, Places
      <3>4. x = y
        BY <3>2, <3>3
      <3>. QED  BY <3>4 DEF y
    <2>. QED  BY <2>1, <2>3, <1>2
  <1>. QED  BY <1>1, <1>2, <1>3, <1>4

\* What Save writes: the live rows at the places of their ids, the endpoints of
\* edges as places.
LEMMA SavedRows ==
    ASSUME IInv
    PROVE  LET file == Saved(nodes, edges)
               place(n) == Position(DOMAIN nodes, n)
           IN  /\ FileOK(file)
               /\ Len(file.nodes) = Cardinality(DOMAIN nodes)
               /\ Len(file.edges) = Cardinality(DOMAIN edges)
               /\ \A n \in DOMAIN nodes : file.nodes[place(n)] = nodes[n]
               /\ \A e \in DOMAIN edges :
                    file.edges[Position(DOMAIN edges, e)] =
                      [from |-> place(edges[e].from), to |-> place(edges[e].to), label |-> edges[e].label]
  <1>. DEFINE file == Saved(nodes, edges)
              place(n) == Position(DOMAIN nodes, n)
              written == [e \in DOMAIN edges |->
                            [edges[e] EXCEPT !.from = place(@), !.to = place(@)]]
              nodeRows == InOrder(nodes, DOMAIN nodes)
              edgeRows == InOrder(written, DOMAIN edges)
  <1>1. file.nodes = nodeRows /\ file.edges = edgeRows
    BY DEF Saved
  <1>2. /\ DOMAIN nodes \in SUBSET Nat /\ IsFiniteSet(DOMAIN nodes)
        /\ Cardinality(DOMAIN nodes) \in Nat /\ Cardinality(DOMAIN nodes) <= MaxNodes
        /\ DOMAIN edges \in SUBSET Nat /\ IsFiniteSet(DOMAIN edges)
        /\ Cardinality(DOMAIN edges) \in Nat /\ Cardinality(DOMAIN edges) <= MaxEdges
    BY LiveIdsFinite DEF IInv
  <1>3. /\ \A n \in DOMAIN nodes : nodes[n] \in Node
        /\ \A e \in DOMAIN edges : edges[e] \in Edge
        /\ \A e \in DOMAIN edges : edges[e].from \in DOMAIN nodes /\ edges[e].to \in DOMAIN nodes
    BY DEF IInv, TypeOK, IndexesMatchLive, EndpointsLive
  <1>4. \A n \in DOMAIN nodes : place(n) \in NodeIds
    <2>1. \A n \in DOMAIN nodes : place(n) \in 1 .. Cardinality(DOMAIN nodes)
      BY <1>2, Places
    <2>. HIDE DEF place
    <2>. QED  BY <2>1, <1>2, BoundsAssumption DEF NodeIds
  <1>5. ASSUME NEW e \in DOMAIN edges
        PROVE  /\ written[e] = [from |-> place(edges[e].from), to |-> place(edges[e].to),
                                label |-> edges[e].label]
               /\ written[e] \in Edge
    <2>1. edges[e] \in [from : NodeIds, to : NodeIds, label : Labels]
      BY <1>3 DEF Edge
    <2>2. written[e] = [edges[e] EXCEPT !.from = place(@), !.to = place(@)]
      OBVIOUS
    <2>. HIDE DEF place, written
    <2>3. written[e] = [from |-> place(edges[e].from), to |-> place(edges[e].to), label |-> edges[e].label]
      BY <2>1, <2>2
    <2>4. place(edges[e].from) \in NodeIds /\ place(edges[e].to) \in NodeIds /\ edges[e].label \in Labels
      BY <2>1, <1>3, <1>4
    <2>. QED  BY <2>3, <2>4 DEF Edge
  <1>. HIDE DEF place, written
  <1>6. /\ DOMAIN nodeRows = 1 .. Cardinality(DOMAIN nodes)
        /\ \A n \in DOMAIN nodes : nodeRows[Position(DOMAIN nodes, n)] = nodes[n]
        /\ \A i \in 1 .. Cardinality(DOMAIN nodes) : \E n \in DOMAIN nodes : nodeRows[i] = nodes[n]
    BY <1>2, InOrderRows
  <1>7. /\ DOMAIN edgeRows = 1 .. Cardinality(DOMAIN edges)
        /\ \A e \in DOMAIN edges : edgeRows[Position(DOMAIN edges, e)] = written[e]
        /\ \A i \in 1 .. Cardinality(DOMAIN edges) : \E e \in DOMAIN edges : edgeRows[i] = written[e]
    BY <1>2, InOrderRows
  <1>8. nodeRows = [i \in 1 .. Cardinality(DOMAIN nodes) |-> nodeRows[i]]
        /\ edgeRows = [i \in 1 .. Cardinality(DOMAIN edges) |-> edgeRows[i]]
    BY DEF InOrder
  <1>. HIDE DEF nodeRows, edgeRows, file
  <1>9. /\ nodeRows \in Seq(Node) /\ Len(nodeRows) = Cardinality(DOMAIN nodes)
        /\ edgeRows \in Seq(Edge) /\ Len(edgeRows) = Cardinality(DOMAIN edges)
    <2>1. nodeRows \in [1 .. Cardinality(DOMAIN nodes) -> Node]
      BY <1>3, <1>6, <1>8
    <2>2. edgeRows \in [1 .. Cardinality(DOMAIN edges) -> Edge]
      BY <1>5, <1>7, <1>8
    <2>3. nodeRows \in Seq(Node) /\ Len(nodeRows) = Cardinality(DOMAIN nodes)
      BY <2>1, <1>2
    <2>4. edgeRows \in Seq(Edge) /\ Len(edgeRows) = Cardinality(DOMAIN edges)
      BY <2>2, <1>2
    <2>. QED  BY <2>3, <2>4
  <1>10. FileOK(file)
    BY <1>1, <1>2, <1>9 DEF FileOK
  <1>. QED  BY <1>1, <1>5, <1>6, <1>7, <1>9, <1>10 DEF file, place

-----------------------------------------------------------------------------
\* LOAD and restarts

\* A graph built from a file, row by row, is in order: indexes, history and all.
LEMMA RebuiltInv ==
    ASSUME NEW file, FileOK(file), EndpointsInFile(file), Rebuilt(file)
    PROVE  IInv'
  <1>. DEFINE n == Len(file.nodes)
              m == Len(file.edges)
              Between(a, b) == {j \in 1 .. m : file.edges[j].from = a /\ file.edges[j].to = b}
  <1>1. /\ n \in Nat /\ m \in Nat /\ n <= MaxNodes /\ m <= MaxEdges /\ n + m <= MaxVersion
        /\ DOMAIN file.nodes = 1 .. n /\ DOMAIN file.edges = 1 .. m
        /\ \A i \in 1 .. n : file.nodes[i] \in Node
        /\ \A j \in 1 .. m : file.edges[j] \in Edge
        /\ file.nodes \in [1 .. n -> Node] /\ file.edges \in [1 .. m -> Edge]
    <2>1. /\ file.nodes \in Seq(Node) /\ n <= MaxNodes
          /\ file.edges \in Seq(Edge) /\ m <= MaxEdges
      BY DEF FileOK
    <2>2. n + m <= MaxVersion
      BY DEF Rebuilt
    <2>3. n \in Nat /\ DOMAIN file.nodes = 1 .. n /\ file.nodes \in [1 .. n -> Node]
      BY <2>1
    <2>4. m \in Nat /\ DOMAIN file.edges = 1 .. m /\ file.edges \in [1 .. m -> Edge]
      BY <2>1
    <2>. HIDE DEF n, m
    <2>. QED  BY <2>1, <2>2, <2>3, <2>4
  <1>2. \A j \in 1 .. m : file.edges[j].from \in 1 .. n /\ file.edges[j].to \in 1 .. n
    BY DEF EndpointsInFile
  <1>3. RebuiltRows(file, n, m) /\ RebuiltIndexes(file, n, m) /\ RebuiltHistory(file, n, m)
    BY DEF Rebuilt
  <1>4. \A a, b \in NodeIds :
          /\ Cardinality(Between(a, b)) \in Nat
          /\ Cardinality(Between(a, b)) > 0 => Between(a, b) # {}
    <2>. SUFFICES ASSUME NEW a \in NodeIds, NEW b \in NodeIds
                  PROVE  /\ Cardinality(Between(a, b)) \in Nat
                         /\ Cardinality(Between(a, b)) > 0 => Between(a, b) # {}
      OBVIOUS
    <2>1. IsFiniteSet(1 .. m)
      BY <1>1, FS_Interval
    <2>2. Between(a, b) \in SUBSET (1 .. m)
      OBVIOUS
    <2>. HIDE DEF Between, m
    <2>3. IsFiniteSet(Between(a, b))
      BY <2>1, <2>2, FS_Subset
    <2>4. Cardinality(Between(a, b)) \in Nat
      BY <2>3, FS_CardinalityType
    <2>5. Between(a, b) = {} => Cardinality(Between(a, b)) = 0
      BY FS_EmptySet
    <2>. QED  BY <2>4, <2>5
  <1>5. \A a, b \in NodeIds :
          /\ neighbourOut'[a][b] = Cardinality(Between(a, b))
          /\ neighbourIn'[b][a] = Cardinality(Between(a, b))
    BY <1>3 DEF RebuiltIndexes
  <1>6. /\ neighbourOut' \in [NodeIds -> [NodeIds -> Nat]]
        /\ neighbourIn' \in [NodeIds -> [NodeIds -> Nat]]
    <2>. HIDE DEF n, m
    <2>. QED  BY <1>3, <1>4 DEF RebuiltIndexes, m
  <1>. HIDE DEF n, m, Between
  <1>7. /\ nextNodeID' = n + 1 /\ nextEdgeID' = m + 1
        /\ nodes' = file.nodes /\ edges' = file.edges
        /\ nodeInsertionOrder' = 1 .. n /\ edgeInsertionOrder' = 1 .. m
    BY <1>3 DEF RebuiltRows
  <1>8. /\ labelToNodes' = [l \in Labels |-> {i \in 1 .. n : file.nodes[i].label = l}]
        /\ labelToEdges' = [l \in Labels |-> {j \in 1 .. m : file.edges[j].label = l}]
        /\ adjacencyOut' = [a \in NodeIds |-> {j \in 1 .. m : file.edges[j].from = a}]
        /\ adjacencyIn' = [a \in NodeIds |-> {j \in 1 .. m : file.edges[j].to = a}]
        /\ nodeLabels' = {file.nodes[i].label : i \in 1 .. n}
        /\ edgeLabels' = {file.edges[j].label : j \in 1 .. m}
    BY <1>3 DEF RebuiltIndexes
  <1>9. /\ currentVersion' = n + m /\ mvccNodeOrder' = 1 .. n
        /\ activeSnapshots' = [v \in Versions |-> 0]
        /\ DOMAIN mvccNodes' = 1 .. n /\ DOMAIN mvccEdges' = 1 .. m
        /\ \A i \in 1 .. n :
             mvccNodes'[i] = [row |-> file.nodes[i], createdAtVersion |-> i, deletedAtVersion |-> 0]
        /\ \A j \in 1 .. m :
             mvccEdges'[j] = [row |-> file.edges[j], createdAtVersion |-> n + j, deletedAtVersion |-> 0]
        /\ mvccNodes' = [i \in DOMAIN mvccNodes' |-> mvccNodes'[i]]
        /\ mvccEdges' = [j \in DOMAIN mvccEdges' |-> mvccEdges'[j]]
    BY <1>3 DEF RebuiltHistory
  <1>10. /\ \A i \in 1 .. n : mvccNodes'[i] \in RowVersion(Node)
         /\ \A j \in 1 .. m : mvccEdges'[j] \in RowVersion(Edge)
    <2>1. /\ \A i \in 1 .. n : i \in Versions
          /\ \A j \in 1 .. m : n + j \in Versions
          /\ 0 \in Versions
      BY <1>1, BoundsAssumption DEF Versions
    <2>. QED  BY <2>1, <1>1, <1>9 DEF RowVersion
  <1>11. TypeOK'
    <2>1. /\ nextNodeID' \in 1 .. MaxNodes + 1 /\ nextEdgeID' \in 1 .. MaxEdges + 1
          /\ currentVersion' \in Versions
          /\ 1 .. n \subseteq NodeIds /\ 1 .. m \subseteq EdgeIds
      BY <1>1, <1>7, <1>9, BoundsAssumption DEF Versions, NodeIds, EdgeIds
    <2>2. /\ DOMAIN nodes' \subseteq NodeIds /\ nodes' \in [DOMAIN nodes' -> Node]
          /\ DOMAIN edges' \subseteq EdgeIds /\ edges' \in [DOMAIN edges' -> Edge]
          /\ nodeInsertionOrder' \subseteq NodeIds /\ edgeInsertionOrder' \subseteq EdgeIds
      BY <2>1, <1>1, <1>7
    <2>3. /\ labelToNodes' \in [Labels -> SUBSET NodeIds]
          /\ labelToEdges' \in [Labels -> SUBSET EdgeIds]
          /\ adjacencyOut' \in [NodeIds -> SUBSET EdgeIds]
          /\ adjacencyIn' \in [NodeIds -> SUBSET EdgeIds]
      BY <2>1, <1>8
    <2>4. /\ DOMAIN mvccNodes' \subseteq NodeIds
          /\ mvccNodes' \in [DOMAIN mvccNodes' -> RowVersion(Node)]
          /\ DOMAIN mvccEdges' \subseteq EdgeIds
          /\ mvccEdges' \in [DOMAIN mvccEdges' -> RowVersion(Edge)]
          /\ mvccNodeOrder' \subseteq NodeIds
      BY <2>1, <1>9, <1>10
    <2>5. activeSnapshots' \in [Versions -> Nat]
      BY <1>9
    <2>6. nodeLabels' \subseteq Labels /\ edgeLabels' \subseteq Labels
      BY <1>1, <1>8 DEF Node, Edge
    <2>. QED  BY <2>1, <2>2, <2>3, <2>4, <2>5, <2>6, <1>6 DEF TypeOK
  <1>12. FreshIds'
    BY <1>1, <1>7, <1>9 DEF FreshIds
  <1>13. StampsOrdered'
    BY <1>1, <1>9 DEF StampsOrdered, Lifetime
  <1>14. IndexesMatchLive'
    BY <1>1, <1>2, <1>7, <1>8 DEF IndexesMatchLive, EndpointsLive
  <1>15. NeighboursAreEdges'
    <2>1. \A a, b \in NodeIds : EdgesBetween(a, b)' = Between(a, b)
      BY <1>1, <1>7 DEF EdgesBetween, Between
    <2>. QED  BY <2>1, <1>4, <1>5 DEF NeighboursAreEdges
  <1>16. HistoryMirrorsLive'
    BY <1>1, <1>7, <1>9 DEF HistoryMirrorsLive
  <1>17. EndpointHistoryRetained'
    BY <1>2, <1>9 DEF EndpointHistoryRetained
  <1>18. NoNodeGarbage'
    BY <1>9 DEF NoNodeGarbage
  <1>19. LabelsListed'
    BY <1>1, <1>7, <1>8 DEF LabelsListed
  <1>. QED
    BY <1>11, <1>12, <1>13, <1>14, <1>15, <1>16, <1>17, <1>18, <1>19 DEF IInv

-----------------------------------------------------------------------------
\* The graph of a session

\* Versions that were handed out, in the snapshots and in the snapshot file; and a
\* graph file that can be loaded.
SessionOK ==
    /\ \A id \in DOMAIN snapshots : snapshots[id].version \in Versions
    /\ snapshotFile # NoFile => snapshotFile.version \in Versions
    /\ graphFile # NoFile => FileOK(graphFile)

HInv == IInv /\ SessionOK

LEMMA MutationInv ==
    ASSUME IInv, Mutation
    PROVE  IInv' /\ activeSnapshots' = activeSnapshots
  <1>1. Next
    BY DEF Mutation, Next
  <1>2. IInv'
    BY <1>1, NextInv
  <1>3. activeSnapshots' = activeSnapshots
    BY DEF Mutation, CreateNode, CreateEdge, DeleteEdge, DeleteNode, UpdateNodeProperties, UpdateEdgeLabel
  <1>. QED  BY <1>2, <1>3

LEMMA HandlerInitInv == HandlerInit => HInv
  BY InitInv DEF HandlerInit, HInv, SessionOK, EmptyMap

LEMMA HandlerNextInv == HInv /\ [HandlerNext]_allVars => HInv'
  <1>. SUFFICES ASSUME HInv, [HandlerNext]_allVars PROVE HInv'
    OBVIOUS
  <1>0. IInv /\ SessionOK /\ currentVersion \in Versions
    BY DEF HInv, IInv, TypeOK
  <1>1. CASE Mutation /\ UNCHANGED handlerVars
    BY <1>0, <1>1, MutationInv DEF HInv, SessionOK, handlerVars
  <1>2. CASE createSnapshot
    <2>1. IInv'
      BY <1>0, <1>2, CaptureSnapshotInv DEF createSnapshot
    <2>2. \A id \in DOMAIN snapshots' : snapshots'[id].version \in Versions
      BY <1>0, <1>2 DEF createSnapshot, SessionOK, Put, Snapshot
    <2>. QED  BY <1>0, <1>2, <2>1, <2>2 DEF createSnapshot, HInv, SessionOK
  <1>3. ASSUME NEW id \in SnapshotIds, releaseSnapshot(id)
        PROVE  HInv'
    <2>1. IInv'
      BY <1>0, <1>3, ReleaseSnapshotInv DEF releaseSnapshot, ReleaseVersion, SessionOK
    <2>2. \A x \in DOMAIN snapshots' : snapshots'[x].version \in Versions
      BY <1>0, <1>3 DEF releaseSnapshot, SessionOK, Without, Restrict
    <2>. QED  BY <1>0, <1>3, <2>1, <2>2 DEF releaseSnapshot, HInv, SessionOK
  <1>4. ASSUME UNCHANGED graphVars
        PROVE  IInv'
    BY <1>0, <1>4, NextInv DEF graphVars
  <1>5. ASSUME NEW id \in SnapshotIds, persistSnapshot(id)
        PROVE  HInv'
    <2>1. snapshotFile'.version = snapshots[id].version
      BY <1>5 DEF persistSnapshot
    <2>. QED  BY <1>0, <1>4, <1>5, <2>1 DEF persistSnapshot, HInv, SessionOK
  <1>6. CASE loadSnapshot
    <2>1. IInv'
      BY <1>0, <1>6, CaptureSnapshotInv DEF loadSnapshot
    <2>2. \A id \in DOMAIN snapshots' : snapshots'[id].version \in Versions
      BY <1>0, <1>6 DEF loadSnapshot, SessionOK, Put, Snapshot
    <2>. QED  BY <1>0, <1>6, <2>1, <2>2 DEF loadSnapshot, HInv, SessionOK
  <1>7. CASE loadSnapshotFails
    <2>1. Held' = Held
      BY <1>7 DEF loadSnapshotFails, Held
    <2>2. TypeOK'
      <3>1. /\ mvccNodes' = Without(mvccNodes, Reclaimable(mvccNodes, Held, currentVersion))
            /\ mvccEdges' = Without(mvccEdges, Reclaimable(mvccEdges, Held, currentVersion))
            /\ mvccNodeOrder' = mvccNodeOrder \ Reclaimable(mvccNodes, Held, currentVersion)
        BY <1>7 DEF loadSnapshotFails, GarbageCollect
      <3>2. /\ DOMAIN mvccNodes' \subseteq NodeIds
            /\ mvccNodes' \in [DOMAIN mvccNodes' -> RowVersion(Node)]
        BY <1>0, <3>1, WithoutType DEF IInv, TypeOK
      <3>3. /\ DOMAIN mvccEdges' \subseteq EdgeIds
            /\ mvccEdges' \in [DOMAIN mvccEdges' -> RowVersion(Edge)]
        BY <1>0, <3>1, WithoutType DEF IInv, TypeOK
      <3>. QED
        BY <1>0, <1>7, <3>1, <3>2, <3>3
        DEF loadSnapshotFails, IInv, TypeOK, nodeVars, edgeVars, adjacencyVars
    <2>3. IInv'
      BY <1>0, <1>7, <2>1, <2>2, CollectInv DEF loadSnapshotFails
    <2>. QED  BY <1>0, <1>7, <2>3 DEF loadSnapshotFails, handlerVars, HInv, SessionOK
  <1>8. CASE flush
    <2>1. FileOK(graphFile')
      BY <1>0, <1>8, SavedRows DEF flush
    <2>. QED  BY <1>0, <1>4, <1>8, <2>1 DEF flush, HInv, SessionOK
  <1>9. CASE loadLive
    <2>1. IInv'
      BY <1>0, <1>9, RebuiltInv DEF loadLive, SessionOK
    <2>. QED  BY <1>0, <1>9, <2>1 DEF loadLive, handlerVars, HInv, SessionOK
  <1>10. CASE Restart
    <2>. DEFINE empty == [nodes |-> << >>, edges |-> << >>]
    <2>1. FileOK(empty) /\ EndpointsInFile(empty)
      <3>1. empty.nodes = << >> /\ empty.edges = << >>
        OBVIOUS
      <3>2. << >> \in Seq(Node) /\ << >> \in Seq(Edge) /\ Len(<< >>) = 0
        OBVIOUS
      <3>. HIDE DEF empty
      <3>. QED  BY <3>1, <3>2, BoundsAssumption DEF FileOK, EndpointsInFile
    <2>2. Rebuilt(empty)
      BY <1>10 DEF Restart
    <2>. HIDE DEF empty
    <2>3. IInv'
      BY <2>1, <2>2, RebuiltInv
    <2>. QED  BY <1>0, <1>10, <2>3 DEF Restart, HInv, SessionOK, EmptyMap
  <1>11. CASE UNCHANGED allVars
    BY <1>0, <1>4, <1>11 DEF allVars, graphVars, handlerVars, HInv, SessionOK
  <1>. QED
    BY <1>1, <1>2, <1>3, <1>5, <1>6, <1>7, <1>8, <1>9, <1>10, <1>11 DEF HandlerNext

\* Whatever the clients of a handler do, in any order, LOAD at any time, snapshots
\* restored from files and restarts included, the graph stays in order.
THEOREM HandlerInvariance == HandlerSpec => []IInv
  <1>1. HInv => IInv
    BY DEF HInv
  <1>. QED  BY <1>1, HandlerInitInv, HandlerNextInv, PTL DEF HandlerSpec

-----------------------------------------------------------------------------
\* FLUSH and LOAD

\* The places of ids are a renaming that keeps their order.
LEMMA PlacesRename ==
    ASSUME NEW S \in SUBSET Nat, IsFiniteSet(S)
    PROVE  LET f == [x \in S |-> Position(S, x)]
           IN  /\ f \in [S -> 1 .. Cardinality(S)]
               /\ \A x, y \in S : x < y <=> f[x] < f[y]
               /\ {f[x] : x \in S} = 1 .. Cardinality(S)
  <1>. DEFINE f == [x \in S |-> Position(S, x)]
  <1>1. \A x \in S : f[x] = Position(S, x) /\ f[x] \in 1 .. Cardinality(S) /\ f[x] \in Int /\ x \in Int
    <2>1. Cardinality(S) \in Nat /\ \A x \in S : Position(S, x) \in 1 .. Cardinality(S)
      BY Places
    <2>. QED  BY <2>1
  <1>2. f \in [S -> 1 .. Cardinality(S)]
    BY <1>1
  <1>3. \A x, y \in S : x < y => f[x] < f[y]
    BY <1>1, Places
  <1>4. \A i \in 1 .. Cardinality(S) : \E x \in S : f[x] = i
    BY <1>1, Places
  <1>. HIDE DEF f
  <1>5. ASSUME NEW x \in S, NEW y \in S, f[x] < f[y]
        PROVE  x < y
    <2>1. ~(y < x)
      BY <1>1, <1>3, <1>5
    <2>2. x # y
      BY <1>1, <1>5
    <2>. QED  BY <1>1, <2>1, <2>2
  <1>6. {f[x] : x \in S} = 1 .. Cardinality(S)
    BY <1>1, <1>4
  <1>7. \A x, y \in S : x < y <=> f[x] < f[y]
    BY <1>3, <1>5
  <1>. QED  BY <1>2, <1>6, <1>7 DEF f

LEMMA SavedSame ==
    ASSUME IInv
    PROVE  LET file == Saved(nodes, edges)
           IN  SameGraph(nodes, edges, file.nodes, file.edges)
  <1>. DEFINE file == Saved(nodes, edges)
              f == [n \in DOMAIN nodes |-> Position(DOMAIN nodes, n)]
              g == [e \in DOMAIN edges |-> Position(DOMAIN edges, e)]
  <1>1. /\ DOMAIN nodes \in SUBSET Nat /\ IsFiniteSet(DOMAIN nodes)
        /\ DOMAIN edges \in SUBSET Nat /\ IsFiniteSet(DOMAIN edges)
    BY LiveIdsFinite DEF IInv
  <1>2. /\ FileOK(file)
        /\ Len(file.nodes) = Cardinality(DOMAIN nodes)
        /\ Len(file.edges) = Cardinality(DOMAIN edges)
        /\ \A n \in DOMAIN nodes : file.nodes[Position(DOMAIN nodes, n)] = nodes[n]
        /\ \A e \in DOMAIN edges :
             file.edges[Position(DOMAIN edges, e)] =
               [from |-> Position(DOMAIN nodes, edges[e].from),
                to |-> Position(DOMAIN nodes, edges[e].to), label |-> edges[e].label]
    BY SavedRows
  <1>3. DOMAIN file.nodes = 1 .. Len(file.nodes) /\ DOMAIN file.edges = 1 .. Len(file.edges)
    <2>. HIDE DEF file
    <2>. QED  BY <1>2 DEF FileOK
  <1>4. /\ f \in [DOMAIN nodes -> DOMAIN file.nodes]
        /\ \A m, n \in DOMAIN nodes : m < n <=> f[m] < f[n]
        /\ {f[n] : n \in DOMAIN nodes} = DOMAIN file.nodes
    BY <1>1, <1>2, <1>3, PlacesRename
  <1>5. /\ g \in [DOMAIN edges -> DOMAIN file.edges]
        /\ \A d, e \in DOMAIN edges : d < e <=> g[d] < g[e]
        /\ {g[e] : e \in DOMAIN edges} = DOMAIN file.edges
    BY <1>1, <1>2, <1>3, PlacesRename
  <1>6. \A e \in DOMAIN edges : edges[e].from \in DOMAIN nodes /\ edges[e].to \in DOMAIN nodes
    BY DEF IInv, IndexesMatchLive, EndpointsLive
  <1>7. /\ \A n \in DOMAIN nodes : file.nodes[f[n]] = nodes[n]
        /\ \A e \in DOMAIN edges :
             file.edges[g[e]] = [from |-> f[edges[e].from], to |-> f[edges[e].to],
                                 label |-> edges[e].label]
    BY <1>2, <1>6
  <1>. HIDE DEF f, g, file
  <1>8. SameGraph(nodes, edges, file.nodes, file.edges)
    BY <1>4, <1>5, <1>7 DEF SameGraph
  <1>. QED  BY <1>8 DEF file

LEMMA LoadedSame ==
    ASSUME NEW file, FileOK(file), EndpointsInFile(file)
    PROVE  SameGraph(file.nodes, file.edges, file.nodes, file.edges)
  <1>. DEFINE f == [n \in DOMAIN file.nodes |-> n]
              g == [e \in DOMAIN file.edges |-> e]
  <1>1. /\ DOMAIN file.nodes = 1 .. Len(file.nodes) /\ DOMAIN file.edges = 1 .. Len(file.edges)
        /\ \A e \in DOMAIN file.edges : file.edges[e] \in Edge
    BY DEF FileOK
  <1>2. \A e \in DOMAIN file.edges :
          /\ file.edges[e].from \in DOMAIN file.nodes /\ file.edges[e].to \in DOMAIN file.nodes
          /\ file.edges[e] = [from |-> file.edges[e].from, to |-> file.edges[e].to,
                              label |-> file.edges[e].label]
    BY <1>1 DEF EndpointsInFile, Edge
  <1>3. f \in [DOMAIN file.nodes -> DOMAIN file.nodes] /\ g \in [DOMAIN file.edges -> DOMAIN file.edges]
    OBVIOUS
  <1>4. /\ \A n \in DOMAIN file.nodes : f[n] = n
        /\ \A e \in DOMAIN file.edges : g[e] = e
    OBVIOUS
  <1>. HIDE DEF f, g
  <1>5. /\ \A m, n \in DOMAIN file.nodes : m < n <=> f[m] < f[n]
        /\ \A d, e \in DOMAIN file.edges : d < e <=> g[d] < g[e]
    BY <1>4
  <1>6. /\ {f[n] : n \in DOMAIN file.nodes} = DOMAIN file.nodes
        /\ {g[e] : e \in DOMAIN file.edges} = DOMAIN file.edges
    BY <1>4
  <1>7. /\ \A n \in DOMAIN file.nodes : file.nodes[f[n]] = file.nodes[n]
        /\ \A e \in DOMAIN file.edges :
             file.edges[g[e]] = [from |-> f[file.edges[e].from], to |-> f[file.edges[e].to],
                                 label |-> file.edges[e].label]
    BY <1>2, <1>4
  <1>. QED  BY <1>3, <1>5, <1>6, <1>7 DEF SameGraph

\* FLUSH and LOAD between them bring back the graph that was there, whatever its
\* size and however many ids deletions have left unused.
THEOREM RoundTripCorrect == HandlerSpec => RoundTrip
  <1>1. ASSUME HInv
        PROVE  /\ flush => SameGraph(nodes, edges, graphFile'.nodes, graphFile'.edges)
               /\ loadLive => SameGraph(graphFile.nodes, graphFile.edges, nodes', edges')
    <2>1. ASSUME flush
          PROVE  SameGraph(nodes, edges, graphFile'.nodes, graphFile'.edges)
      <3>1. graphFile' = Saved(nodes, edges)
        BY <2>1 DEF flush
      <3>. QED  BY <1>1, <3>1, SavedSame DEF HInv
    <2>2. ASSUME loadLive
          PROVE  SameGraph(graphFile.nodes, graphFile.edges, nodes', edges')
      <3>1. nodes' = graphFile.nodes /\ edges' = graphFile.edges
        BY <2>2 DEF loadLive, Rebuilt, RebuiltRows
      <3>2. FileOK(graphFile) /\ EndpointsInFile(graphFile)
        BY <1>1, <2>2 DEF loadLive, HInv, SessionOK
      <3>. QED  BY <3>1, <3>2, LoadedSame
    <2>. QED  BY <2>1, <2>2
  <1>2. HandlerSpec => []HInv
    BY HandlerInitInv, HandlerNextInv, PTL DEF HandlerSpec
  <1>. QED  BY <1>1, <1>2, PTL DEF RoundTrip

-----------------------------------------------------------------------------
\* The registry and the map of snapshots

\* Where snapshots come from commands alone, LOAD in a fresh server, each open
\* snapshot is registered once, under an id handed out before.
RegInv ==
    /\ Registrations
    /\ nextSnapshotId \in Nat \ {0}
    /\ DOMAIN snapshots \subseteq 1 .. nextSnapshotId - 1

OInv == HInv /\ RegInv /\ SnapshotsPast

Opened(v) == {id \in DOMAIN snapshots : snapshots[id].version = v}

LEMMA OpenedFinite ==
    ASSUME RegInv, NEW v
    PROVE  IsFiniteSet(Opened(v)) /\ Cardinality(Opened(v)) \in Nat
  <1>1. IsFiniteSet(1 .. nextSnapshotId - 1)
    BY FS_Interval DEF RegInv
  <1>2. Opened(v) \in SUBSET (1 .. nextSnapshotId - 1)
    BY DEF RegInv, Opened
  <1>. QED  BY <1>1, <1>2, FS_Subset, FS_CardinalityType

\* What is counted once for each open snapshot is counted for each of them.
LEMMA OpenCounted ==
    ASSUME NEW open, NEW n \in Nat, DOMAIN open \subseteq 1 .. n - 1,
           NEW id \in DOMAIN open, NEW v, open[id].version = v
    PROVE  Cardinality({x \in DOMAIN open : open[x].version = v}) > 0
  <1>. DEFINE same == {x \in DOMAIN open : open[x].version = v}
  <1>1. IsFiniteSet(1 .. n - 1) /\ same \in SUBSET (1 .. n - 1) /\ id \in same
    BY FS_Interval
  <1>. HIDE DEF same
  <1>2. IsFiniteSet(same) /\ same # {}
    BY <1>1, FS_Subset
  <1>3. Cardinality(same) \in Nat /\ Cardinality(same) # 0
    BY <1>2, FS_CardinalityType, FS_EmptySet
  <1>4. Cardinality(same) > 0
    BY <1>3
  <1>. QED  BY <1>4 DEF same

\* The version of an open snapshot is held.
LEMMA OpenHeld ==
    ASSUME RegInv, SessionOK, NEW id \in DOMAIN snapshots
    PROVE  snapshots[id].version \in Held
  <1>. DEFINE v == snapshots[id].version
  <1>1. v \in Versions /\ nextSnapshotId \in Nat /\ DOMAIN snapshots \subseteq 1 .. nextSnapshotId - 1
    BY DEF SessionOK, RegInv
  <1>2. activeSnapshots[v] = Cardinality({x \in DOMAIN snapshots : snapshots[x].version = v})
    BY <1>1 DEF RegInv, Registrations
  <1>3. Cardinality({x \in DOMAIN snapshots : snapshots[x].version = v}) > 0
    BY <1>1, OpenCounted
  <1>. HIDE DEF v
  <1>4. v \in Held
    BY <1>1, <1>2, <1>3 DEF Held
  <1>. QED  BY <1>4 DEF v

LEMMA OpenHeldNext ==
    ASSUME RegInv', SessionOK', NEW id \in DOMAIN snapshots'
    PROVE  snapshots'[id].version \in Held'
  <1>. DEFINE v == snapshots'[id].version
  <1>1. v \in Versions /\ nextSnapshotId' \in Nat /\ DOMAIN snapshots' \subseteq 1 .. nextSnapshotId' - 1
    BY DEF SessionOK, RegInv
  <1>2. activeSnapshots'[v] = Cardinality({x \in DOMAIN snapshots' : snapshots'[x].version = v})
    BY <1>1 DEF RegInv, Registrations
  <1>3. Cardinality({x \in DOMAIN snapshots' : snapshots'[x].version = v}) > 0
    BY <1>1, OpenCounted
  <1>. HIDE DEF v
  <1>4. v \in Held'
    BY <1>1, <1>2, <1>3 DEF Held
  <1>. QED  BY <1>4 DEF v

LEMMA CreateSnapshotReg ==
    ASSUME TypeOK, RegInv, createSnapshot
    PROVE  RegInv' /\ \A id \in DOMAIN snapshots : id \in DOMAIN snapshots' /\ snapshots'[id] = snapshots[id]
  <1>. DEFINE new == nextSnapshotId
              w == currentVersion
  <1>1. /\ activeSnapshots' = [activeSnapshots EXCEPT ![w] = @ + 1]
        /\ DOMAIN snapshots' = DOMAIN snapshots \cup {new}
        /\ snapshots'[new].version = w
        /\ \A id \in DOMAIN snapshots \ {new} : snapshots'[id] = snapshots[id]
        /\ nextSnapshotId' = new + 1
    BY DEF createSnapshot, CaptureSnapshot, Put, Snapshot
  <1>2. /\ new \notin DOMAIN snapshots /\ new + 1 \in Nat \ {0}
        /\ DOMAIN snapshots \cup {new} \subseteq 1 .. (new + 1) - 1
    <2>1. new \in Nat \ {0} /\ DOMAIN snapshots \subseteq 1 .. new - 1
      BY DEF RegInv
    <2>2. new \notin 1 .. new - 1 /\ new + 1 \in Nat \ {0}
      BY <2>1
    <2>3. 1 .. new - 1 \subseteq 1 .. (new + 1) - 1 /\ new \in 1 .. (new + 1) - 1
      BY <2>1
    <2>. HIDE DEF new
    <2>. QED  BY <2>1, <2>2, <2>3
  <1>3. w \in Versions /\ activeSnapshots \in [Versions -> Nat]
    BY DEF TypeOK
  <1>4. ASSUME NEW v \in Versions
        PROVE  activeSnapshots'[v] = Cardinality(Opened(v)')
    <2>1. activeSnapshots[v] = Cardinality(Opened(v)) /\ new \notin Opened(v)
      BY <1>2 DEF RegInv, Registrations, Opened
    <2>2. CASE v = w
      <3>1. Opened(v)' = Opened(v) \cup {new}
        BY <1>1, <1>2, <2>2 DEF Opened
      <3>. HIDE DEF new, w
      <3>2. Cardinality(Opened(v) \cup {new}) = Cardinality(Opened(v)) + 1
        BY <2>1, OpenedFinite, FS_AddElement
      <3>. QED  BY <1>1, <1>3, <2>1, <2>2, <3>1, <3>2
    <2>3. CASE v # w
      <3>1. Opened(v)' = Opened(v)
        BY <1>1, <1>2, <2>3 DEF Opened
      <3>. QED  BY <1>1, <1>3, <2>1, <2>3, <3>1
    <2>. QED  BY <2>2, <2>3
  <1>5. Registrations'
    BY <1>4 DEF Registrations, Opened
  <1>. QED  BY <1>1, <1>2, <1>5 DEF RegInv

LEMMA ReleaseSnapshotReg ==
    ASSUME TypeOK, SessionOK, RegInv, NEW id \in SnapshotIds, releaseSnapshot(id)
    PROVE  RegInv' /\ \A x \in DOMAIN snapshots' : x \in DOMAIN snapshots /\ snapshots'[x] = snapshots[x]
  <1>. DEFINE w == snapshots[id].version
  <1>1. /\ id \in DOMAIN snapshots
        /\ activeSnapshots' = [activeSnapshots EXCEPT ![w] = IF @ > 0 THEN @ - 1 ELSE 0]
        /\ DOMAIN snapshots' = DOMAIN snapshots \ {id}
        /\ \A x \in DOMAIN snapshots' : snapshots'[x] = snapshots[x]
        /\ nextSnapshotId' = nextSnapshotId
    BY DEF releaseSnapshot, ReleaseVersion, ReleaseSnapshot, Unregister, Without, Restrict
  <1>2. w \in Versions /\ activeSnapshots \in [Versions -> Nat] /\ activeSnapshots[w] > 0
    BY <1>1, OpenHeld DEF SessionOK, TypeOK, Held
  <1>3. ASSUME NEW v \in Versions
        PROVE  activeSnapshots'[v] = Cardinality(Opened(v)')
    <2>1. activeSnapshots[v] = Cardinality(Opened(v))
      BY DEF RegInv, Registrations, Opened
    <2>2. CASE v = w
      <3>1. Opened(v)' = Opened(v) \ {id} /\ id \in Opened(v)
        BY <1>1, <2>2 DEF Opened
      <3>. HIDE DEF w
      <3>2. Cardinality(Opened(v) \ {id}) = Cardinality(Opened(v)) - 1
        BY <3>1, OpenedFinite, FS_RemoveElement
      <3>. QED  BY <1>1, <1>2, <2>1, <2>2, <3>1, <3>2
    <2>3. CASE v # w
      <3>1. Opened(v)' = Opened(v)
        BY <1>1, <2>3 DEF Opened
      <3>. QED  BY <1>1, <1>2, <2>1, <2>3, <3>1
    <2>. QED  BY <2>2, <2>3
  <1>4. Registrations'
    BY <1>3 DEF Registrations, Opened
  <1>. QED  BY <1>1, <1>4 DEF RegInv

\* Nothing is open and nothing is registered: after a start or a LOAD.
LEMMA NothingOpen ==
    ASSUME snapshots' = EmptyMap, activeSnapshots' = [v \in Versions |-> 0],
           nextSnapshotId' \in Nat \ {0}
    PROVE  RegInv' /\ SnapshotsPast'
  <1>1. DOMAIN snapshots' = {}
    BY DEF EmptyMap
  <1>2. Registrations'
    <2>1. \A v \in Versions : {id \in DOMAIN snapshots' : snapshots'[id].version = v} = {}
      BY <1>1
    <2>. QED  BY <2>1, FS_EmptySet DEF Registrations
  <1>3. Held' = {}
    BY DEF Held
  <1>. QED  BY <1>1, <1>2, <1>3 DEF RegInv, SnapshotsPast

-----------------------------------------------------------------------------
LEMMA OpenInit == HandlerInit => OInv
  <1>. SUFFICES ASSUME HandlerInit PROVE OInv
    OBVIOUS
  <1>1. HInv /\ SnapshotsPast
    BY HandlerInitInv, SnapshotsPastInit DEF HandlerInit
  <1>2. DOMAIN snapshots = {} /\ activeSnapshots = [v \in Versions |-> 0] /\ nextSnapshotId = 1
    BY DEF HandlerInit, Init, EmptyMap
  <1>3. \A v \in Versions : {id \in DOMAIN snapshots : snapshots[id].version = v} = {}
    BY <1>2
  <1>4. Registrations
    BY <1>2, <1>3, FS_EmptySet DEF Registrations
  <1>. QED  BY <1>1, <1>2, <1>4 DEF OInv, RegInv

\* What a command does to the snapshots that stay open: nothing, and to the graph
\* one operation of it.
GraphStepKeeps ==
    /\ [Next]_vars
    /\ \A id \in DOMAIN snapshots \cap DOMAIN snapshots' : snapshots'[id] = snapshots[id]

LEMMA OpenNext ==
    ASSUME ~LoadAnytime, ~LoadSnapshots, OInv, [HandlerNext]_allVars
    PROVE  OInv' /\ (GraphStepKeeps \/ DOMAIN snapshots' = {})
  <1>0. /\ HInv' /\ HInv /\ RegInv /\ SnapshotsPast /\ TypeOK /\ SessionOK /\ IInv
    BY HandlerNextInv DEF OInv, HInv, IInv
  <1>1. [Next]_vars => SnapshotsPast'
    BY <1>0, SnapshotsPastNext DEF RInv
  <1>2. ASSUME UNCHANGED <<activeSnapshots, snapshots, nextSnapshotId>>
        PROVE  RegInv'
    BY <1>0, <1>2 DEF RegInv, Registrations
  <1>3. CASE Mutation /\ UNCHANGED handlerVars
    <2>1. Next /\ activeSnapshots' = activeSnapshots
      BY <1>0, <1>3, MutationInv DEF Mutation, Next
    <2>. QED  BY <1>0, <1>1, <1>2, <1>3, <2>1 DEF OInv, GraphStepKeeps, handlerVars
  <1>4. CASE createSnapshot
    <2>1. Next
      BY <1>4 DEF createSnapshot, Next
    <2>. QED  BY <1>0, <1>1, <1>4, <2>1, CreateSnapshotReg DEF OInv, GraphStepKeeps
  <1>5. ASSUME NEW id \in SnapshotIds, releaseSnapshot(id)
        PROVE  OInv' /\ GraphStepKeeps
    <2>1. Next
      BY <1>0, <1>5 DEF releaseSnapshot, ReleaseVersion, SessionOK, Next
    <2>. QED  BY <1>0, <1>1, <1>5, <2>1, ReleaseSnapshotReg DEF OInv, GraphStepKeeps
  <1>6. ASSUME UNCHANGED graphVars, UNCHANGED <<snapshots, nextSnapshotId>>
        PROVE  OInv' /\ GraphStepKeeps
    <2>1. [Next]_vars /\ activeSnapshots' = activeSnapshots
      BY <1>6 DEF graphVars, vars
    <2>. QED  BY <1>0, <1>1, <1>2, <1>6, <2>1 DEF OInv, GraphStepKeeps
  <1>7. ASSUME NEW id \in SnapshotIds, persistSnapshot(id)
        PROVE  OInv' /\ GraphStepKeeps
    BY <1>6, <1>7 DEF persistSnapshot
  <1>8. CASE flush
    BY <1>6, <1>8 DEF flush
  <1>9. CASE loadLive
    <2>1. /\ snapshots = EmptyMap /\ UNCHANGED <<snapshots, nextSnapshotId>>
          /\ activeSnapshots' = [v \in Versions |-> 0]
      BY <1>9 DEF loadLive, Rebuilt, RebuiltHistory, handlerVars
    <2>2. nextSnapshotId' \in Nat \ {0}
      BY <1>0, <2>1 DEF RegInv
    <2>3. RegInv' /\ SnapshotsPast' /\ DOMAIN snapshots' = {}
      BY <2>1, <2>2, NothingOpen DEF EmptyMap
    <2>. QED  BY <1>0, <2>3 DEF OInv
  <1>10. CASE Restart
    <2>1. /\ snapshots' = EmptyMap /\ nextSnapshotId' = 1
          /\ activeSnapshots' = [v \in Versions |-> 0]
      BY <1>10 DEF Restart, Rebuilt, RebuiltHistory
    <2>2. RegInv' /\ SnapshotsPast' /\ DOMAIN snapshots' = {}
      BY <2>1, NothingOpen DEF EmptyMap
    <2>. QED  BY <1>0, <2>2 DEF OInv
  <1>11. CASE UNCHANGED allVars
    BY <1>6, <1>11 DEF allVars, graphVars, handlerVars
  <1>12. ~loadSnapshot /\ ~loadSnapshotFails
    BY DEF loadSnapshot, loadSnapshotFails
  <1>. QED
    BY <1>3, <1>4, <1>5, <1>7, <1>8, <1>9, <1>10, <1>11, <1>12 DEF HandlerNext

\* As long as LOAD is given to fresh servers and no snapshot is restored from a
\* file, the registry of the graph and the map of the handler agree, however many
\* snapshots come and go.
THEOREM RegistrationsCorrect ==
    ASSUME ~LoadAnytime, ~LoadSnapshots
    PROVE  HandlerSpec => []Registrations
  <1>1. OInv /\ [HandlerNext]_allVars => OInv'
    BY OpenNext
  <1>2. OInv => Registrations
    BY DEF OInv, RegInv
  <1>. QED  BY <1>1, <1>2, OpenInit, PTL DEF HandlerSpec

-----------------------------------------------------------------------------
\* What an open snapshot reads

RowsKept(v) ==
    /\ ViewKept(mvccNodes, RowsAt(mvccNodes, v), mvccNodes', RowsAt(mvccNodes', v), v)
    /\ ViewKept(mvccEdges, RowsAt(mvccEdges, v), mvccEdges', RowsAt(mvccEdges', v), v)

\* A row that goes because a later version is stamped on it.
LEMMA RestampedKept ==
    ASSUME NEW history, NEW historyNext, NEW id \in DOMAIN history, NEW record, NEW v \in Nat,
           record.createdAtVersion \in Nat, record.createdAtVersion > v,
           historyNext = Put(history, id, record)
    PROVE  ViewKept(history, RowsAt(history, v), historyNext, RowsAt(historyNext, v), v)
  <1>. DEFINE read == RowsAt(history, v)
              readNext == RowsAt(historyNext, v)
  <1>1. readNext = Without(read, {id})
    BY RestampedLeaves
  <1>. HIDE DEF read, readNext
  <1>2. /\ DOMAIN readNext = DOMAIN read \ {id}
        /\ \A x \in DOMAIN readNext : readNext[x] = read[x]
    BY <1>1 DEF Without, Restrict
  <1>3. id \in DOMAIN historyNext /\ historyNext[id] = record
    BY DEF Put
  <1>4. ViewKept(history, read, historyNext, readNext, v)
    BY <1>2, <1>3 DEF ViewKept
  <1>. QED  BY <1>4 DEF read, readNext

\* One operation of the graph, seen from a version held before and after it.
LEMMA StepKept ==
    ASSUME RInv, IInv', [Next]_vars, NEW v \in Held, v \in Held'
    PROVE  RowsKept(v)
  <1>0. /\ HistoryMirrorsLive /\ HistoryMirrorsLive' /\ v \in Nat
        /\ currentVersion + 1 \in Nat /\ currentVersion + 1 > v
    BY NextStamp DEF RInv, IInv
  <1>1. /\ v \in DOMAIN Views /\ v \in DOMAIN Views'
        /\ Views[v] = [nodes |-> RowsAt(mvccNodes, v), edges |-> RowsAt(mvccEdges, v)]
        /\ Views'[v] = [nodes |-> RowsAt(mvccNodes', v), edges |-> RowsAt(mvccEdges', v)]
    <2>1. Views = [w \in Held |-> [nodes |-> RowsAt(mvccNodes, w), edges |-> RowsAt(mvccEdges, w)]]
      BY <1>0, ViewRows
    <2>2. Views' = [w \in Held' |-> [nodes |-> RowsAt(mvccNodes', w), edges |-> RowsAt(mvccEdges', w)]]
      BY <1>0, ViewRowsNext
    <2>. QED  BY <2>1, <2>2
  <1>2. ASSUME Views'[v] = Views[v]
        PROVE  RowsKept(v)
    <2>1. RowsAt(mvccNodes', v) = RowsAt(mvccNodes, v) /\ RowsAt(mvccEdges', v) = RowsAt(mvccEdges, v)
      BY <1>1, <1>2
    <2>. QED  BY <2>1 DEF RowsKept, ViewKept
  <1>3. CASE \E l \in Labels, p \in Properties : CreateNode(l, p)
    BY <1>2, <1>3, CreateNodeAdds DEF Abstract!AddNode
  <1>4. CASE \E a, b \in NodeIds, l \in Labels : CreateEdge(a, b, l)
    BY <1>2, <1>4, CreateEdgeAdds DEF Abstract!AddEdge
  <1>5. CASE \E e \in EdgeIds : DeleteEdge(e)
    BY <1>2, <1>5, DeleteEdgeRemoves DEF Abstract!RemoveEdge
  <1>6. CASE \E n \in NodeIds : DeleteNode(n)
    BY <1>2, <1>6, DeleteNodeRemoves DEF Abstract!RemoveNode
  <1>7. ASSUME NEW n \in NodeIds, NEW u \in Properties, UpdateNodeProperties(n, u)
        PROVE  RowsKept(v)
    <2>. DEFINE record == Born([nodes[n] EXCEPT !.properties = Merge(@, u)])
    <2>1. /\ n \in DOMAIN mvccNodes
          /\ mvccNodes' = Put(mvccNodes, n, record) /\ mvccEdges' = mvccEdges
      BY <1>0, <1>7 DEF UpdateNodeProperties, HistoryMirrorsLive
    <2>2. record.createdAtVersion = currentVersion + 1
      BY DEF Born
    <2>. HIDE DEF record
    <2>3. ViewKept(mvccNodes, RowsAt(mvccNodes, v), mvccNodes', RowsAt(mvccNodes', v), v)
      BY <1>0, <2>1, <2>2, RestampedKept
    <2>. QED  BY <2>1, <2>3 DEF RowsKept, ViewKept
  <1>8. ASSUME NEW e \in EdgeIds, NEW l \in Labels, UpdateEdgeLabel(e, l)
        PROVE  RowsKept(v)
    <2>. DEFINE record == Born([edges[e] EXCEPT !.label = l])
    <2>1. /\ e \in DOMAIN mvccEdges
          /\ mvccEdges' = Put(mvccEdges, e, record) /\ mvccNodes' = mvccNodes
      BY <1>0, <1>8 DEF UpdateEdgeLabel, HistoryMirrorsLive
    <2>2. record.createdAtVersion = currentVersion + 1
      BY DEF Born
    <2>. HIDE DEF record
    <2>3. ViewKept(mvccEdges, RowsAt(mvccEdges, v), mvccEdges', RowsAt(mvccEdges', v), v)
      BY <1>0, <2>1, <2>2, RestampedKept
    <2>. QED  BY <2>1, <2>3 DEF RowsKept, ViewKept
  <1>9. CASE CaptureSnapshot
    <2>1. UNCHANGED <<mvccNodes, mvccEdges>>
      BY <1>9 DEF CaptureSnapshot, historyVars
    <2>. QED  BY <1>1, <1>2, <2>1
  <1>10. ASSUME NEW w \in Versions, ReleaseSnapshot(w)
         PROVE  RowsKept(v)
    <2>1. Abstract!Release \/ UNCHANGED Views
      BY <1>10, ReleaseReleases DEF Abstract!vars
    <2>2. Abstract!Release => Views'[v] = Views[v]
      BY <1>1 DEF Abstract!Release, Abstract!Without, Abstract!Restrict
    <2>. QED  BY <1>2, <2>1, <2>2
  <1>11. CASE UNCHANGED vars
    <2>1. UNCHANGED <<mvccNodes, mvccEdges>>
      BY <1>11 DEF vars, historyVars
    <2>. QED  BY <1>1, <1>2, <2>1
  <1>. QED
    BY <1>3, <1>4, <1>5, <1>6, <1>7, <1>8, <1>9, <1>10, <1>11 DEF Next

\* The members of a snapshot are read as the version's rows are.
LEMMA MembersKept ==
    ASSUME NEW history, NEW historyNext, NEW v, NEW members,
           ViewKept(history, RowsAt(history, v), historyNext, RowsAt(historyNext, v), v)
    PROVE  LET scan(h) == Restrict(RowsAt(h, v), members \cap DOMAIN RowsAt(h, v))
           IN  ViewKept(history, scan(history), historyNext, scan(historyNext), v)
  BY DEF ViewKept, Restrict

LEMMA OpenRowsKept ==
    ASSUME OInv, OInv', GraphStepKeeps, NEW id \in DOMAIN snapshots, id \in DOMAIN snapshots'
    PROVE  snapshots'[id] = snapshots[id] /\ RowsKept(snapshots[id].version)
  <1>. DEFINE v == snapshots[id].version
  <1>1. v \in Held /\ v \in Held' /\ snapshots'[id] = snapshots[id]
    <2>1. snapshots'[id] = snapshots[id]
      BY DEF GraphStepKeeps
    <2>2. v \in Held
      BY OpenHeld DEF OInv, HInv
    <2>3. snapshots'[id].version \in Held'
      BY OpenHeldNext DEF OInv, HInv
    <2>. QED  BY <2>1, <2>2, <2>3
  <1>2. RInv /\ IInv' /\ [Next]_vars
    BY DEF OInv, HInv, RInv, GraphStepKeeps
  <1>3. \A w \in Held : w \in Held' => RowsKept(w)
    BY <1>2, StepKept
  <1>. HIDE DEF v
  <1>4. RowsKept(v)
    BY <1>1, <1>3
  <1>. QED  BY <1>1, <1>4 DEF v

LEMMA OpenKept ==
    ASSUME OInv, OInv', GraphStepKeeps, NEW id \in DOMAIN snapshots, id \in DOMAIN snapshots'
    PROVE  SnapshotKept(id)
  <1>. DEFINE v == snapshots[id].version
              members == snapshots[id].members
              scan(h) == Restrict(RowsAt(h, v), members \cap DOMAIN RowsAt(h, v))
  <1>1. snapshots'[id] = snapshots[id] /\ RowsKept(v)
    BY OpenRowsKept
  <1>2. ViewKept(mvccNodes, scan(mvccNodes), mvccNodes', scan(mvccNodes'), v)
    <2>. HIDE DEF v, members
    <2>. QED  BY <1>1, MembersKept DEF RowsKept
  <1>3. /\ ScanNodes(id) = scan(mvccNodes) /\ ScanNodes(id)' = scan(mvccNodes')
        /\ ScanEdges(id) = RowsAt(mvccEdges, v) /\ ScanEdges(id)' = RowsAt(mvccEdges', v)
    BY <1>1 DEF ScanNodes, ScanEdges, EdgesAtVersion, RowsAt, Restrict
  <1>. HIDE DEF scan
  <1>. QED  BY <1>1, <1>2, <1>3 DEF SnapshotKept, RowsKept

\* QUERY_REFERENCE.md:532, for any number of nodes, edges and snapshots: what an
\* open snapshot shows changes by the updates of rows and by nothing else.
THEOREM SnapshotsFrozenCorrect ==
    ASSUME ~LoadAnytime, ~LoadSnapshots
    PROVE  HandlerSpec => SnapshotsFrozen
  <1>1. OInv /\ [HandlerNext]_allVars => OInv'
    BY OpenNext
  <1>2. OInv /\ [HandlerNext]_allVars
          => [\A id \in DOMAIN snapshots \cap DOMAIN snapshots' : SnapshotKept(id)]_allVars
    BY OpenNext, OpenKept
  <1>. QED  BY <1>1, <1>2, OpenInit, PTL DEF HandlerSpec, SnapshotsFrozen

-----------------------------------------------------------------------------
\* What the statements read on an open snapshot

\* A cap of as many rows as there are ids cuts nothing off.
LEMMA ScannedWhole ==
    ASSUME NEW max \in Nat, NEW top \in Nat, max <= top, NEW ids \in SUBSET (1 .. max)
    PROVE  Scanned(ids, top).rows = ids
  <1>1. IsFiniteSet(ids) /\ Cardinality(ids) \in Nat /\ Cardinality(ids) <= max
    <2>1. IsFiniteSet(1 .. max) /\ Cardinality(1 .. max) = max
      BY FS_Interval
    <2>. QED  BY <2>1, FS_Subset, FS_CardinalityType
  <1>2. \A x \in ids : Position(ids, x) \in 1 .. Cardinality(ids)
    <2>1. ids \in SUBSET Nat
      OBVIOUS
    <2>. QED  BY <1>1, <2>1, Places
  <1>3. \A x \in ids : Position(ids, x) <= top
    BY <1>1, <1>2
  <1>4. {x \in ids : Position(ids, x) <= top} = ids
    BY <1>3
  <1>5. top # NoTop
    BY DEF NoTop
  <1>6. Scanned(ids, top) = [Rows(ids) EXCEPT !.truncated = FALSE]
    BY <1>4, <1>5 DEF Scanned
  <1>. QED  BY <1>6 DEF Rows

\* One condition, an equality, and no OR.
OneEquality(property, value) ==
    <<[property |-> property, op |-> "=", value |-> value, logicOp |-> ""]>>

LEMMA OneEqualityServed ==
    ASSUME NEW property, NEW value
    PROVE  LET where == OneEquality(property, value)
           IN  /\ DOMAIN where = {1} /\ ~whereHasOr(where)
               /\ \A served : property \in served => Equalities(where, served) = {1}
               /\ \A served : property \notin served => Equalities(where, served) = {}
               /\ where[1].value = value
               /\ LastValue(where, property) = value
  <1>. DEFINE where == OneEquality(property, value)
  <1>1. /\ DOMAIN where = {1} /\ where[1].property = property /\ where[1].op = "="
        /\ where[1].value = value /\ where[1].logicOp = ""
    <2>1. \A c : DOMAIN <<c>> = {1} /\ <<c>>[1] = c
      OBVIOUS
    <2>. DEFINE c == [property |-> property, op |-> "=", value |-> value, logicOp |-> ""]
    <2>2. c.property = property /\ c.op = "=" /\ c.value = value /\ c.logicOp = ""
      OBVIOUS
    <2>3. where = <<c>>
      BY DEF OneEquality
    <2>. HIDE DEF c, where
    <2>. QED  BY <2>1, <2>2, <2>3
  <1>. HIDE DEF where
  <1>2. ~whereHasOr(where)
    BY <1>1 DEF whereHasOr
  <1>3. /\ \A served : property \in served => Equalities(where, served) = {1}
        /\ \A served : property \notin served => Equalities(where, served) = {}
    BY <1>1 DEF Equalities
  <1>4. Equalities(where, {property}) = {1}
    BY <1>3
  <1>5. (CHOOSE i \in {1} : \A j \in {1} : i >= j) = 1
    OBVIOUS
  <1>6. LastValue(where, property) = value
    BY <1>1, <1>4, <1>5 DEF LastValue
  <1>. QED  BY <1>1, <1>2, <1>3, <1>6 DEF where

LEMMA NodesByLabelRead ==
    ASSUME NEW s, NEW l, DOMAIN RowsAt(mvccNodes, s.version) \subseteq NodeIds
    PROVE  LET view == RowsAt(mvccNodes, s.version)
           IN  executeSelectNodesSnapshot(s, OneEquality("LABEL", l), MaxNodes).rows
                 = {n \in s.byLabel[l] \cap DOMAIN view : view[n].label = l}
  <1>. DEFINE view == RowsAt(mvccNodes, s.version)
              where == OneEquality("LABEL", l)
              passing == {n \in Walked(s, where) \cap DOMAIN view : PassesFilters(view[n], where)}
  <1>1. /\ DOMAIN where = {1} /\ ~whereHasOr(where) /\ LastValue(where, "LABEL") = l
        /\ Equalities(where, {"LABEL"}) = {1} /\ Equalities(where, {"ID"}) = {}
        /\ Equalities(where, {"ID", "LABEL"}) = {1}
    BY OneEqualityServed
  <1>. HIDE DEF where, view
  <1>2. Walked(s, where) = s.byLabel[l]
    BY <1>1 DEF Walked, Anchored
  <1>3. \A node : PassesFilters(node, where) <=> node.label = l
    BY <1>1 DEF PassesFilters, Anchored
  <1>4. passing = {n \in s.byLabel[l] \cap DOMAIN view : view[n].label = l}
    BY <1>2, <1>3
  <1>5. passing \in SUBSET (1 .. MaxNodes)
    BY DEF view, NodeIds
  <1>. HIDE DEF passing
  <1>6. Scanned(passing, MaxNodes).rows = passing
    BY <1>5, ScannedWhole, BoundsAssumption
  <1>7. executeSelectNodesSnapshot(s, where, MaxNodes).rows = passing
    <2>1. executeSelectNodesSnapshot(s, where, MaxNodes)
            = [Scanned(passing, MaxNodes) EXCEPT !.truncated = @ /\ MaxNodes = NoTop]
      BY <1>1 DEF executeSelectNodesSnapshot, view, passing
    <2>. QED  BY <1>6, <2>1 DEF Scanned, Rows
  <1>. QED  BY <1>4, <1>7 DEF where, view

LEMMA NodeByIdRead ==
    ASSUME NEW s, NEW n, n # Unparsable, DOMAIN RowsAt(mvccNodes, s.version) \subseteq NodeIds
    PROVE  executeSelectNodesSnapshot(s, OneEquality("ID", n), MaxNodes).rows
             = {n} \cap s.mapped \cap DOMAIN RowsAt(mvccNodes, s.version)
  <1>. DEFINE view == RowsAt(mvccNodes, s.version)
              where == OneEquality("ID", n)
              passing == {m \in Walked(s, where) \cap DOMAIN view : PassesFilters(view[m], where)}
  <1>1. /\ DOMAIN where = {1} /\ ~whereHasOr(where) /\ LastValue(where, "ID") = n
        /\ where[1].value = n
        /\ Equalities(where, {"LABEL"}) = {} /\ Equalities(where, {"ID"}) = {1}
        /\ Equalities(where, {"ID", "LABEL"}) = {1}
    BY OneEqualityServed
  <1>. HIDE DEF where, view
  <1>2. Walked(s, where) = {n} \cap s.mapped
    BY <1>1 DEF Walked, Anchored
  <1>3. \A node : PassesFilters(node, where)
    BY <1>1 DEF PassesFilters, Anchored
  <1>4. passing = {n} \cap s.mapped \cap DOMAIN view
    BY <1>2, <1>3
  <1>5. passing \in SUBSET (1 .. MaxNodes)
    BY DEF view, NodeIds
  <1>6. Unparsable \notin {where[i].value : i \in Equalities(where, {"ID"})}
    BY <1>1
  <1>. HIDE DEF passing
  <1>7. Scanned(passing, MaxNodes).rows = passing
    BY <1>5, ScannedWhole, BoundsAssumption
  <1>8. executeSelectNodesSnapshot(s, where, MaxNodes).rows = passing
    <2>1. executeSelectNodesSnapshot(s, where, MaxNodes)
            = [Scanned(passing, MaxNodes) EXCEPT !.truncated = @ /\ MaxNodes = NoTop]
      BY <1>1, <1>6 DEF executeSelectNodesSnapshot, view, passing
    <2>. QED  BY <1>7, <2>1 DEF Scanned, Rows
  <1>. QED  BY <1>4, <1>8 DEF where, view

LEMMA NoConditions ==
    LET where == << >>
    IN  /\ DOMAIN where = {} /\ ~whereHasOr(where)
        /\ \A served : Equalities(where, served) = {} /\ ~Anchored(where, served)
        /\ Parsable(where, {"ID", "FROM", "TO"}) /\ DirectionValid(where)
  BY DEF whereHasOr, Equalities, Anchored, Parsable, DirectionValid, Direction

LEMMA NodesRead ==
    ASSUME NEW s, NEW top \in Nat, MaxNodes <= top,
           DOMAIN RowsAt(mvccNodes, s.version) \subseteq NodeIds
    PROVE  executeSelectNodesSnapshot(s, << >>, top).rows
             = s.members \cap DOMAIN RowsAt(mvccNodes, s.version)
  <1>. DEFINE view == RowsAt(mvccNodes, s.version)
              passing == {n \in Walked(s, << >>) \cap DOMAIN view : PassesFilters(view[n], << >>)}
  <1>. HIDE DEF view
  <1>1. Walked(s, << >>) = s.members /\ \A node : PassesFilters(node, << >>)
    BY NoConditions DEF Walked, PassesFilters
  <1>2. passing = s.members \cap DOMAIN view
    BY <1>1
  <1>3. passing \in SUBSET (1 .. MaxNodes)
    BY DEF view, NodeIds
  <1>. HIDE DEF passing
  <1>4. Scanned(passing, top).rows = passing
    BY <1>3, ScannedWhole, BoundsAssumption
  <1>5. executeSelectNodesSnapshot(s, << >>, top)
          = [Scanned(passing, top) EXCEPT !.truncated = @ /\ top = NoTop]
    BY NoConditions DEF executeSelectNodesSnapshot, view, passing
  <1>. QED  BY <1>2, <1>4, <1>5 DEF Scanned, Rows, view

LEMMA EdgesRead ==
    ASSUME NEW s, NEW top \in Nat, MaxEdges <= top,
           DOMAIN EdgesAtVersion(s.version) \subseteq EdgeIds
    PROVE  executeSelectEdgesSnapshot(s, << >>, top).rows = DOMAIN EdgesAtVersion(s.version)
  <1>. DEFINE view == EdgesAtVersion(s.version)
  <1>. HIDE DEF view
  <1>1. \A e, edge : PassesSnapshot(e, edge, << >>)
    BY NoConditions DEF PassesSnapshot, PassesFields
  <1>2. {e \in DOMAIN view : PassesSnapshot(e, view[e], << >>)} = DOMAIN view
    BY <1>1
  <1>3. executeSelectEdgesSnapshot(s, << >>, top) = Scanned(DOMAIN view, top)
    BY <1>2, NoConditions DEF executeSelectEdgesSnapshot, view
  <1>4. DOMAIN view \in SUBSET (1 .. MaxEdges)
    BY DEF view, EdgeIds
  <1>. QED  BY <1>3, <1>4, ScannedWhole, BoundsAssumption DEF view

\* Every node an open snapshot shows is one of its members, mapped, and indexed
\* under the label it has.
CapturedWhole ==
    \A id \in DOMAIN snapshots :
        LET s == snapshots[id]
            view == RowsAt(mvccNodes, s.version)
        IN  /\ DOMAIN view \subseteq s.members /\ DOMAIN view \subseteq s.mapped
            /\ \A n \in DOMAIN view : n \in s.byLabel[view[n].label]

CInv == OInv /\ CapturedWhole

\* A capture maps and indexes the nodes that are live.
LEMMA CapturedNow ==
    ASSUME IInv
    PROVE  LET s == Snapshot(currentVersion, nodeInsertionOrder, nodeInsertionOrder)
               view == RowsAt(mvccNodes, s.version)
           IN  /\ DOMAIN view \subseteq s.members /\ DOMAIN view \subseteq s.mapped
               /\ \A n \in DOMAIN view : n \in s.byLabel[view[n].label]
  <1>. DEFINE s == Snapshot(currentVersion, nodeInsertionOrder, nodeInsertionOrder)
              view == RowsAt(mvccNodes, currentVersion)
  <1>1. view = nodes /\ nodeInsertionOrder = DOMAIN nodes
    BY CurrentView, ScanComplete DEF IInv, IndexesMatchLive
  <1>2. \A n \in DOMAIN nodes : nodes[n].label \in Labels /\ mvccNodes[n].row = nodes[n]
    BY DEF IInv, TypeOK, HistoryMirrorsLive, Node
  <1>3. /\ s.version = currentVersion /\ s.members = nodeInsertionOrder
        /\ s.mapped = nodeInsertionOrder
        /\ s.byLabel = [l \in Labels |-> {n \in nodeInsertionOrder \cap DOMAIN view :
                                            mvccNodes[n].row.label = l}]
    BY DEF Snapshot, BuildLabelIndex
  <1>. HIDE DEF s, view
  <1>4. \A n \in DOMAIN view : n \in s.byLabel[view[n].label]
    BY <1>1, <1>2, <1>3
  <1>. QED  BY <1>1, <1>3, <1>4 DEF s, view

LEMMA CapturedNext ==
    ASSUME ~LoadAnytime, ~LoadSnapshots, CInv, [HandlerNext]_allVars
    PROVE  CInv'
  <1>1. OInv' /\ (GraphStepKeeps \/ DOMAIN snapshots' = {})
    BY OpenNext DEF CInv
  <1>2. ASSUME GraphStepKeeps, NEW id \in DOMAIN snapshots, id \in DOMAIN snapshots'
        PROVE  LET s == snapshots'[id]
                   view == RowsAt(mvccNodes', s.version)
               IN  /\ DOMAIN view \subseteq s.members /\ DOMAIN view \subseteq s.mapped
                   /\ \A n \in DOMAIN view : n \in s.byLabel[view[n].label]
    <2>. DEFINE s == snapshots[id]
                view == RowsAt(mvccNodes, s.version)
                viewNext == RowsAt(mvccNodes', s.version)
    <2>1. snapshots'[id] = s /\ RowsKept(s.version)
      BY <1>1, <1>2, OpenRowsKept DEF CInv
    <2>2. ViewKept(mvccNodes, view, mvccNodes', viewNext, s.version)
      BY <2>1 DEF RowsKept
    <2>3. /\ DOMAIN view \subseteq s.members /\ DOMAIN view \subseteq s.mapped
          /\ \A n \in DOMAIN view : n \in s.byLabel[view[n].label]
      BY DEF CInv, CapturedWhole
    <2>4. \A n \in DOMAIN viewNext : n \in DOMAIN view /\ viewNext[n] = view[n]
      <3>1. \A n \in DOMAIN viewNext : mvccNodes'[n].createdAtVersion <= s.version
        BY DEF viewNext, RowsAt, Visible
      <3>2. \A n \in DOMAIN viewNext : n \in DOMAIN mvccNodes'
        BY DEF viewNext, RowsAt
      <3>3. \A n \in DOMAIN mvccNodes' : mvccNodes'[n].createdAtVersion \in Nat
        BY <1>1, BoundsAssumption DEF OInv, HInv, IInv, TypeOK, RowVersion, Versions
      <3>4. s.version \in Nat
        BY BoundsAssumption DEF CInv, OInv, HInv, SessionOK, Versions
      <3>. HIDE DEF view, viewNext
      <3>5. \A n \in DOMAIN viewNext : n \in DOMAIN view
        BY <2>2 DEF ViewKept
      <3>6. \A n \in DOMAIN viewNext : ~(mvccNodes'[n].createdAtVersion > s.version)
        BY <3>1, <3>2, <3>3, <3>4
      <3>. QED  BY <2>2, <3>5, <3>6 DEF ViewKept
    <2>. HIDE DEF view, viewNext
    <2>5. /\ DOMAIN viewNext \subseteq s.members /\ DOMAIN viewNext \subseteq s.mapped
          /\ \A n \in DOMAIN viewNext : n \in s.byLabel[viewNext[n].label]
      BY <2>3, <2>4
    <2>. QED  BY <2>1, <2>5 DEF viewNext
  <1>3. ASSUME NEW id \in DOMAIN snapshots', id \notin DOMAIN snapshots
        PROVE  createSnapshot /\ id = nextSnapshotId
    <2>1. createSnapshot \/ DOMAIN snapshots' \subseteq DOMAIN snapshots
      <3>1. ~loadSnapshot /\ ~loadSnapshotFails
        BY DEF loadSnapshot, loadSnapshotFails
      <3>2. UNCHANGED handlerVars => DOMAIN snapshots' \subseteq DOMAIN snapshots
        BY DEF handlerVars
      <3>3. \A x \in SnapshotIds : releaseSnapshot(x) \/ persistSnapshot(x)
              => DOMAIN snapshots' \subseteq DOMAIN snapshots
        BY DEF releaseSnapshot, persistSnapshot, Without, Restrict
      <3>4. flush \/ Restart => DOMAIN snapshots' \subseteq DOMAIN snapshots
        BY DEF flush, Restart, EmptyMap
      <3>5. loadLive \/ UNCHANGED allVars => UNCHANGED handlerVars
        BY DEF loadLive, allVars
      <3>. QED  BY <3>1, <3>2, <3>3, <3>4, <3>5 DEF HandlerNext
    <2>2. createSnapshot => DOMAIN snapshots' = DOMAIN snapshots \cup {nextSnapshotId}
      BY DEF createSnapshot, Put
    <2>. QED  BY <1>3, <2>1, <2>2
  <1>4. ASSUME NEW id \in DOMAIN snapshots', id \notin DOMAIN snapshots
        PROVE  LET s == snapshots'[id]
                   view == RowsAt(mvccNodes', s.version)
               IN  /\ DOMAIN view \subseteq s.members /\ DOMAIN view \subseteq s.mapped
                   /\ \A n \in DOMAIN view : n \in s.byLabel[view[n].label]
    <2>1. /\ snapshots'[id] = Snapshot(currentVersion, nodeInsertionOrder, nodeInsertionOrder)
          /\ mvccNodes' = mvccNodes
      BY <1>3, <1>4 DEF createSnapshot, CaptureSnapshot, historyVars, Put
    <2>2. IInv
      BY DEF CInv, OInv, HInv
    <2>. QED  BY <2>1, <2>2, CapturedNow
  <1>5. CapturedWhole'
    <2>1. CASE DOMAIN snapshots' = {}
      BY <2>1 DEF CapturedWhole
    <2>2. CASE GraphStepKeeps
      BY <1>2, <1>4, <2>2 DEF CapturedWhole
    <2>. QED  BY <1>1, <2>1, <2>2
  <1>. QED  BY <1>1, <1>5 DEF CInv

LEMMA CapturedInvariant ==
    ASSUME ~LoadAnytime, ~LoadSnapshots
    PROVE  HandlerSpec => []CInv
  <1>1. HandlerInit => CInv
    <2>1. HandlerInit => CapturedWhole
      BY DEF HandlerInit, CapturedWhole, EmptyMap
    <2>. QED  BY <2>1, OpenInit DEF CInv
  <1>2. CInv /\ [HandlerNext]_allVars => CInv'
    BY CapturedNext
  <1>. QED  BY <1>1, <1>2, PTL DEF HandlerSpec

\* The label index and the id map of a snapshot, both built at capture, lead to the
\* rows its scan shows and to no others, for any labels and any history since.
THEOREM SnapshotIndexesCorrect ==
    ASSUME ~LoadAnytime, ~LoadSnapshots
    PROVE  HandlerSpec => []SnapshotIndexesAsScan
  <1>1. ASSUME CInv
        PROVE  SnapshotIndexesAsScan
    <2>. SUFFICES ASSUME NEW id \in DOMAIN snapshots
                  PROVE  LET s == snapshots[id]
                             scan == executeSelectNodesSnapshot(s, << >>, MaxNodes).rows
                             found(property, value) ==
                                 executeSelectNodesSnapshot(s, OneEquality(property, value), MaxNodes).rows
                         IN  /\ \A l \in Labels :
                                  found("LABEL", l) = {n \in scan : mvccNodes[n].row.label = l}
                             /\ \A n \in NodeIds : found("ID", n) = {n} \cap scan
      BY DEF SnapshotIndexesAsScan, OneEquality
    <2>. DEFINE s == snapshots[id]
                view == RowsAt(mvccNodes, s.version)
                scan == executeSelectNodesSnapshot(s, << >>, MaxNodes).rows
                found(property, value) ==
                    executeSelectNodesSnapshot(s, OneEquality(property, value), MaxNodes).rows
    <2>1. /\ DOMAIN view \subseteq s.members /\ DOMAIN view \subseteq s.mapped
          /\ \A n \in DOMAIN view : n \in s.byLabel[view[n].label]
      BY <1>1 DEF CInv, CapturedWhole
    <2>2. DOMAIN view \subseteq NodeIds /\ \A n \in DOMAIN view : view[n] = mvccNodes[n].row
      BY <1>1 DEF CInv, OInv, HInv, IInv, TypeOK, RowsAt
    <2>3. MaxNodes \in Nat /\ MaxNodes <= MaxNodes
      BY BoundsAssumption
    <2>4. scan = s.members \cap DOMAIN view
      <3>. HIDE DEF s
      <3>. QED  BY <2>2, <2>3, NodesRead
    <2>5. \A l \in Labels : found("LABEL", l) = {n \in s.byLabel[l] \cap DOMAIN view : view[n].label = l}
      <3>. HIDE DEF s
      <3>. QED  BY <2>2, NodesByLabelRead
    <2>6. \A n \in NodeIds : found("ID", n) = {n} \cap s.mapped \cap DOMAIN view
      <3>1. Unparsable \notin NodeIds
        BY BoundsAssumption DEF NodeIds, Unparsable
      <3>. HIDE DEF s
      <3>. QED  BY <2>2, <3>1, NodeByIdRead
    <2>. HIDE DEF s, view, scan, found
    <2>7. scan = DOMAIN view
      BY <2>1, <2>4
    <2>8. \A l \in Labels : found("LABEL", l) = {n \in scan : mvccNodes[n].row.label = l}
      BY <2>1, <2>2, <2>5, <2>7
    <2>9. \A n \in NodeIds : found("ID", n) = {n} \cap scan
      BY <2>1, <2>6, <2>7
    <2>. QED  BY <2>8, <2>9 DEF s, scan, found
  <1>. QED  BY <1>1, CapturedInvariant, PTL

\* A graph read on a snapshot loses an edge to an update of one of its endpoints
\* only, whatever cascades and collections there have been.
THEOREM GraphReadWholeCorrect ==
    ASSUME ~LoadAnytime, ~LoadSnapshots
    PROVE  HandlerSpec => []GraphReadWhole
  <1>1. ASSUME CInv
        PROVE  GraphReadWhole
    <2>. DEFINE top == MaxNodes + MaxEdges
    <2>. SUFFICES ASSUME NEW id \in DOMAIN snapshots,
                         NEW e \in DOMAIN ScanEdges(id),
                         e \notin executeSelectGraphSnapshot(snapshots[id], top).edges
                  PROVE  \E n \in {ScanEdges(id)[e].from, ScanEdges(id)[e].to} \cap DOMAIN mvccNodes :
                             mvccNodes[n].createdAtVersion > snapshots[id].version
      BY DEF GraphReadWhole
    <2>. DEFINE s == snapshots[id]
                view == RowsAt(mvccNodes, s.version)
                edgeView == EdgesAtVersion(s.version)
    <2>1. DOMAIN view \subseteq s.members
      BY <1>1 DEF CInv, CapturedWhole
    <2>2. TypeOK /\ EndpointHistoryRetained
      BY <1>1 DEF CInv, OInv, HInv, IInv
    <2>3. DOMAIN view \subseteq NodeIds /\ DOMAIN edgeView \subseteq EdgeIds
      BY <2>2 DEF TypeOK, RowsAt, EdgesAtVersion
    <2>4. top \in Nat /\ MaxNodes <= top /\ MaxEdges <= top
      BY BoundsAssumption
    <2>5. /\ executeSelectNodesSnapshot(s, << >>, top).rows = s.members \cap DOMAIN view
          /\ executeSelectEdgesSnapshot(s, << >>, top).rows = DOMAIN edgeView
      <3>. HIDE DEF s, top
      <3>. QED  BY <2>3, <2>4, NodesRead, EdgesRead
    <2>6. ScanEdges(id) = edgeView
      BY DEF ScanEdges
    <2>. HIDE DEF view, edgeView, top
    <2>7. executeSelectGraphSnapshot(s, top).edges
            = {d \in DOMAIN edgeView : {edgeView[d].from, edgeView[d].to} \subseteq DOMAIN view}
      BY <2>1, <2>5 DEF executeSelectGraphSnapshot, Bundle, edgeView
    <2>8. PICK n \in {edgeView[e].from, edgeView[e].to} : n \notin DOMAIN view
      BY <2>6, <2>7
    <2>9. /\ e \in DOMAIN mvccEdges /\ edgeView[e] = mvccEdges[e].row
          /\ mvccEdges[e].deletedAtVersion = 0 \/ mvccEdges[e].deletedAtVersion > s.version
      BY <2>6 DEF edgeView, EdgesAtVersion, RowsAt, Visible
    <2>10. /\ n \in DOMAIN mvccNodes
           /\ mvccNodes[n].deletedAtVersion # 0 =>
                /\ mvccEdges[e].deletedAtVersion # 0
                /\ mvccEdges[e].deletedAtVersion < mvccNodes[n].deletedAtVersion
      BY <2>2, <2>8, <2>9 DEF EndpointHistoryRetained
    <2>11. /\ mvccNodes[n].deletedAtVersion \in Nat /\ mvccNodes[n].createdAtVersion \in Nat
           /\ mvccEdges[e].deletedAtVersion \in Nat /\ s.version \in Nat
      <3>1. mvccNodes[n] \in RowVersion(Node) /\ mvccEdges[e] \in RowVersion(Edge)
        BY <2>2, <2>9, <2>10 DEF TypeOK
      <3>2. s.version \in Versions
        BY <1>1 DEF CInv, OInv, HInv, SessionOK
      <3>. HIDE DEF s
      <3>. QED  BY <3>1, <3>2, BoundsAssumption DEF RowVersion, Versions
    <2>12. mvccNodes[n].deletedAtVersion = 0 \/ mvccNodes[n].deletedAtVersion > s.version
      <3>. HIDE DEF s
      <3>. QED  BY <2>9, <2>10, <2>11
    <2>13. ~Visible(mvccNodes[n], s.version)
      BY <2>8, <2>10 DEF view, RowsAt
    <2>14. mvccNodes[n].createdAtVersion > s.version
      <3>. HIDE DEF s
      <3>. QED  BY <2>11, <2>12, <2>13 DEF Visible
    <2>. QED  BY <2>6, <2>8, <2>10, <2>14
  <1>. QED  BY <1>1, CapturedInvariant, PTL
=============================================================================
