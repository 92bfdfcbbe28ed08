-------------------------- MODULE GraphStoreProofs --------------------------
EXTENDS GraphStore, FiniteSetTheorems, TLAPS

LEMMA PutMap ==
    ASSUME NEW map, NEW key, NEW value
    PROVE  /\ DOMAIN Put(map, key, value) = DOMAIN map \cup {key}
           /\ Put(map, key, value)[key] = value
           /\ \A x \in DOMAIN map \ {key} : Put(map, key, value)[x] = map[x]
  BY DEF Put

LEMMA EmplaceMap ==
    ASSUME NEW map, NEW key, NEW value, key \notin DOMAIN map
    PROVE  Emplace(map, key, value) = Put(map, key, value)
  BY DEF Emplace, Put

LEMMA WithoutMap ==
    ASSUME NEW map, NEW keys
    PROVE  /\ DOMAIN Without(map, keys) = DOMAIN map \ keys
           /\ \A x \in DOMAIN map \ keys : Without(map, keys)[x] = map[x]
  BY DEF Without, Restrict

LEMMA PutType ==
    ASSUME NEW map, NEW key, NEW value, NEW S, NEW R,
           DOMAIN map \subseteq S, map \in [DOMAIN map -> R], key \in S, value \in R
    PROVE  /\ DOMAIN Put(map, key, value) \subseteq S
           /\ Put(map, key, value) \in [DOMAIN Put(map, key, value) -> R]
  BY DEF Put

LEMMA WithoutType ==
    ASSUME NEW map, NEW keys, NEW S, NEW R,
           DOMAIN map \subseteq S, map \in [DOMAIN map -> R]
    PROVE  /\ DOMAIN Without(map, keys) \subseteq S
           /\ Without(map, keys) \in [DOMAIN Without(map, keys) -> R]
  BY DEF Without, Restrict

LEMMA NextVersion ==
    ASSUME TypeOK, VersionRoom(1)
    PROVE  0 \in Versions /\ currentVersion + 1 \in Versions
  <1>1. currentVersion \in Versions
    BY DEF TypeOK
  <1>. QED  BY <1>1, BoundsAssumption DEF Versions, VersionRoom

LEMMA CreateNodeType ==
    ASSUME TypeOK, FreshIds, NEW l \in Labels, NEW p \in Properties, CreateNode(l, p)
    PROVE  TypeOK'
  <1>. DEFINE node == [label |-> l, properties |-> p]
  <1>1. /\ nextNodeID \in NodeIds
        /\ nextNodeID \notin DOMAIN nodes /\ nextNodeID \notin DOMAIN mvccNodes
        /\ node \in Node
        /\ currentVersion + 1 \in Versions
        /\ Born(node) \in RowVersion(Node)
    <2>1. /\ nextNodeID \in NodeIds
          /\ nextNodeID \notin DOMAIN nodes /\ nextNodeID \notin DOMAIN mvccNodes
      <3>1. nextNodeID \in 1 .. MaxNodes + 1 /\ nextNodeID <= MaxNodes
        BY DEF TypeOK, CreateNode
      <3>. QED  BY <3>1, BoundsAssumption DEF FreshIds, NodeIds
    <2>2. 0 \in Versions /\ currentVersion + 1 \in Versions
      BY NextVersion DEF CreateNode
    <2>3. node \in Node
      BY DEF Node
    <2>. HIDE DEF node
    <2>. QED  BY <2>1, <2>2, <2>3 DEF RowVersion, Born
  <1>a. nodes' = Put(nodes, nextNodeID, node)
    BY <1>1, EmplaceMap DEF CreateNode
  <1>b. mvccNodes' = Put(mvccNodes, nextNodeID, Born(node))
    BY <1>1, EmplaceMap DEF CreateNode
  <1>2. /\ DOMAIN nodes' \subseteq NodeIds
        /\ nodes' \in [DOMAIN nodes' -> Node]
    <2>. HIDE DEF node
    <2>1. DOMAIN nodes \subseteq NodeIds /\ nodes \in [DOMAIN nodes -> Node]
      BY DEF TypeOK
    <2>. QED  BY <2>1, <1>1, <1>a, PutType
  <1>3. /\ DOMAIN mvccNodes' \subseteq NodeIds
        /\ mvccNodes' \in [DOMAIN mvccNodes' -> RowVersion(Node)]
    <2>. HIDE DEF node
    <2>1. DOMAIN mvccNodes \subseteq NodeIds /\ mvccNodes \in [DOMAIN mvccNodes -> RowVersion(Node)]
      BY DEF TypeOK
    <2>. QED  BY <2>1, <1>1, <1>b, PutType
  <1>4. nextNodeID' \in 1 .. MaxNodes + 1
    BY BoundsAssumption DEF TypeOK, CreateNode
  <1>. QED
    BY <1>1, <1>2, <1>3, <1>4
    DEF TypeOK, CreateNode, edgeVars, adjacencyVars

LEMMA CreateEdgeType ==
    ASSUME TypeOK, FreshIds, NEW a \in NodeIds, NEW b \in NodeIds, NEW l \in Labels,
           CreateEdge(a, b, l)
    PROVE  TypeOK'
  <1>. DEFINE edge == [from |-> a, to |-> b, label |-> l]
  <1>1. /\ nextEdgeID \in EdgeIds
        /\ nextEdgeID \notin DOMAIN edges /\ nextEdgeID \notin DOMAIN mvccEdges
        /\ edge \in Edge
        /\ currentVersion + 1 \in Versions
        /\ Born(edge) \in RowVersion(Edge)
    <2>1. /\ nextEdgeID \in EdgeIds
          /\ nextEdgeID \notin DOMAIN edges /\ nextEdgeID \notin DOMAIN mvccEdges
      <3>1. nextEdgeID \in 1 .. MaxEdges + 1 /\ nextEdgeID <= MaxEdges
        BY DEF TypeOK, CreateEdge
      <3>. QED  BY <3>1, BoundsAssumption DEF FreshIds, EdgeIds
    <2>2. currentVersion + 1 \in Versions /\ 0 \in Versions
      BY NextVersion DEF CreateEdge
    <2>3. edge \in Edge
      BY DEF Edge
    <2>. HIDE DEF edge
    <2>. QED  BY <2>1, <2>2, <2>3 DEF RowVersion, Born
  <1>2. /\ edges' = Put(edges, nextEdgeID, edge)
        /\ mvccEdges' = Put(mvccEdges, nextEdgeID, Born(edge))
    BY <1>1, EmplaceMap DEF CreateEdge
  <1>3. /\ DOMAIN edges' \subseteq EdgeIds
        /\ edges' \in [DOMAIN edges' -> Edge]
    <2>. HIDE DEF edge
    <2>1. DOMAIN edges \subseteq EdgeIds /\ edges \in [DOMAIN edges -> Edge]
      BY DEF TypeOK
    <2>. QED  BY <2>1, <1>1, <1>2, PutType
  <1>4. /\ DOMAIN mvccEdges' \subseteq EdgeIds
        /\ mvccEdges' \in [DOMAIN mvccEdges' -> RowVersion(Edge)]
    <2>. HIDE DEF edge
    <2>1. DOMAIN mvccEdges \subseteq EdgeIds /\ mvccEdges \in [DOMAIN mvccEdges -> RowVersion(Edge)]
      BY DEF TypeOK
    <2>. QED  BY <2>1, <1>1, <1>2, PutType
  <1>5. nextEdgeID' \in 1 .. MaxEdges + 1
    BY BoundsAssumption DEF TypeOK, CreateEdge
  <1>6. /\ neighbourOut' \in [NodeIds -> [NodeIds -> Nat]]
        /\ neighbourIn' \in [NodeIds -> [NodeIds -> Nat]]
    BY DEF TypeOK, CreateEdge
  <1>. QED
    BY <1>1, <1>3, <1>4, <1>5, <1>6 DEF TypeOK, CreateEdge, nodeVars

\* What deleting a set of edges leaves in the indexes.
LEMMA RemoveEdgesType ==
    ASSUME TypeOK, NEW gone, RemoveEdges(gone)
    PROVE  /\ DOMAIN edges' \subseteq EdgeIds
           /\ edges' \in [DOMAIN edges' -> Edge]
           /\ labelToEdges' \in [Labels -> SUBSET EdgeIds]
           /\ edgeInsertionOrder' \subseteq EdgeIds
           /\ nextEdgeID' = nextEdgeID /\ edgeLabels' = edgeLabels
           /\ AdjacencyWithout(adjacencyOut, From, gone) \in [NodeIds -> SUBSET EdgeIds]
           /\ AdjacencyWithout(adjacencyIn, To, gone) \in [NodeIds -> SUBSET EdgeIds]
           /\ NeighboursWithout(neighbourOut, From, To, gone) \in [NodeIds -> [NodeIds -> Nat]]
           /\ NeighboursWithout(neighbourIn, To, From, gone) \in [NodeIds -> [NodeIds -> Nat]]
  <1>1. DOMAIN edges \subseteq EdgeIds /\ edges \in [DOMAIN edges -> Edge]
    BY DEF TypeOK
  <1>2. DOMAIN edges' \subseteq EdgeIds /\ edges' \in [DOMAIN edges' -> Edge]
    BY <1>1, WithoutType DEF RemoveEdges
  <1>3. /\ labelToEdges' \in [Labels -> SUBSET EdgeIds]
        /\ edgeInsertionOrder' \subseteq EdgeIds
        /\ nextEdgeID' = nextEdgeID /\ edgeLabels' = edgeLabels
    BY DEF TypeOK, RemoveEdges
  <1>4. /\ AdjacencyWithout(adjacencyOut, From, gone) \in [NodeIds -> SUBSET EdgeIds]
        /\ AdjacencyWithout(adjacencyIn, To, gone) \in [NodeIds -> SUBSET EdgeIds]
    BY DEF TypeOK, AdjacencyWithout
  <1>5. /\ NeighboursWithout(neighbourOut, From, To, gone) \in [NodeIds -> [NodeIds -> Nat]]
        /\ NeighboursWithout(neighbourIn, To, From, gone) \in [NodeIds -> [NodeIds -> Nat]]
    BY DEF TypeOK, NeighboursWithout
  <1>. QED  BY <1>2, <1>3, <1>4, <1>5

\* What Tombstone returns.
LEMMA TombstoneMap ==
    ASSUME NEW history, NEW stamp
    PROVE  /\ DOMAIN Tombstone(history, stamp) = DOMAIN history
           /\ \A x \in DOMAIN history :
                Tombstone(history, stamp)[x] =
                  IF x \in DOMAIN stamp /\ history[x].deletedAtVersion = 0
                  THEN [history[x] EXCEPT !.deletedAtVersion = stamp[x]]
                  ELSE history[x]
  BY DEF Tombstone

LEMMA TombstoneType ==
    ASSUME NEW history, NEW stamp, NEW S, NEW Row,
           DOMAIN history \subseteq S, history \in [DOMAIN history -> RowVersion(Row)],
           \A x \in DOMAIN stamp : stamp[x] \in Versions
    PROVE  LET h == Tombstone(history, stamp)
           IN  DOMAIN h \subseteq S /\ h \in [DOMAIN h -> RowVersion(Row)]
  BY DEF Tombstone, RowVersion

LEMMA DeleteEdgeType ==
    ASSUME TypeOK, NEW e \in EdgeIds, DeleteEdge(e)
    PROVE  TypeOK'
  <1>1. currentVersion + 1 \in Versions
    BY BoundsAssumption DEF TypeOK, DeleteEdge, Versions, VersionRoom
  <1>2. /\ DOMAIN mvccEdges' \subseteq EdgeIds
        /\ mvccEdges' \in [DOMAIN mvccEdges' -> RowVersion(Edge)]
    <2>. DEFINE stamp == [x \in {e} |-> currentVersion + 1]
    <2>1. mvccEdges' = Tombstone(mvccEdges, stamp)
      BY DEF DeleteEdge
    <2>2. \A x \in DOMAIN stamp : stamp[x] \in Versions
      BY <1>1
    <2>3. DOMAIN mvccEdges \subseteq EdgeIds /\ mvccEdges \in [DOMAIN mvccEdges -> RowVersion(Edge)]
      BY DEF TypeOK
    <2>. HIDE DEF stamp
    <2>. QED  BY <2>1, <2>2, <2>3, TombstoneType
  <1>3. RemoveEdges({e})
    BY DEF DeleteEdge
  <1>. QED
    BY <1>1, <1>2, <1>3, RemoveEdgesType DEF TypeOK, DeleteEdge, nodeVars

\* A cascade is finite and its stamps are the bumps that follow the current
\* version, the node's own deletion being the last.
LEMMA CascadeBounds ==
    ASSUME TypeOK, NEW id \in NodeIds
    PROVE  /\ IsFiniteSet(Incident(id))
           /\ Cardinality(Incident(id)) \in Nat
           /\ \A e \in Incident(id) :
                CascadeStamp(id)[e] \in
                  currentVersion + 1 .. currentVersion + Cardinality(Incident(id))
  <1>1. IsFiniteSet(Incident(id))
    <2>1. Incident(id) \in SUBSET (1 .. MaxEdges)
      BY DEF TypeOK, Incident, EdgeIds
    <2>2. IsFiniteSet(1 .. MaxEdges)
      BY FS_Interval, BoundsAssumption
    <2>. QED  BY <2>1, <2>2, FS_Subset
  <1>2. Cardinality(Incident(id)) \in Nat
    BY <1>1, FS_CardinalityType
  <1>3. ASSUME NEW e \in Incident(id)
        PROVE  CascadeStamp(id)[e] \in
                 currentVersion + 1 .. currentVersion + Cardinality(Incident(id))
    <2>. DEFINE before == {d \in Incident(id) : DeletedBefore(id, d, e)}
    <2>1. before \in SUBSET Incident(id) /\ before # Incident(id)
      <3>1. e \in Nat
        BY DEF Incident, TypeOK, EdgeIds
      <3>. QED  BY <3>1 DEF DeletedBefore
    <2>2. Cardinality(before) \in Nat
      <3>. HIDE DEF before
      <3>. QED  BY <2>1, <1>1, FS_Subset, FS_CardinalityType
    <2>3. Cardinality(before) < Cardinality(Incident(id))
      <3>. HIDE DEF before
      <3>. QED  BY <2>1, <2>2, <1>1, <1>2, FS_Subset
    <2>4. CascadeStamp(id)[e] = currentVersion + 1 + Cardinality(before)
      BY DEF CascadeStamp
    <2>5. currentVersion \in Nat
      BY BoundsAssumption DEF TypeOK, Versions
    <2>. HIDE DEF before
    <2>. QED  BY <2>2, <2>3, <2>4, <2>5, <1>2
  <1>. QED  BY <1>1, <1>2, <1>3

LEMMA DeleteNodeType ==
    ASSUME TypeOK, NEW id \in NodeIds, DeleteNode(id)
    PROVE  TypeOK'
  <1>. DEFINE gone == Incident(id)
              version == currentVersion + Cardinality(gone) + 1
              nodeStamp == [n \in {id} |-> version]
  <1>1. /\ Cardinality(gone) \in Nat
        /\ version \in Versions
        /\ \A e \in DOMAIN CascadeStamp(id) : CascadeStamp(id)[e] \in Versions
    <2>1. /\ Cardinality(gone) \in Nat
          /\ version \in Versions
          /\ currentVersion \in Nat
      <3>1. Cardinality(gone) \in Nat
        BY CascadeBounds
      <3>2. currentVersion \in Versions
        BY DEF TypeOK
      <3>3. VersionRoom(Cardinality(gone) + 1)
        BY DEF DeleteNode
      <3>. HIDE DEF gone
      <3>. QED  BY <3>1, <3>2, <3>3, BoundsAssumption DEF Versions, VersionRoom
    <2>2. DOMAIN CascadeStamp(id) = gone
      BY DEF CascadeStamp
    <2>. QED  BY <2>1, <2>2, CascadeBounds, BoundsAssumption DEF Versions
  <1>2. RemoveEdges(gone) /\ currentVersion' = version
    BY DEF DeleteNode
  <1>3. /\ DOMAIN nodes' \subseteq NodeIds
        /\ nodes' \in [DOMAIN nodes' -> Node]
    <2>1. DOMAIN nodes \subseteq NodeIds /\ nodes \in [DOMAIN nodes -> Node]
      BY DEF TypeOK
    <2>2. nodes' = Without(nodes, {id})
      BY DEF DeleteNode
    <2>. QED  BY <2>1, <2>2, WithoutType
  <1>4. /\ DOMAIN mvccNodes' \subseteq NodeIds
        /\ mvccNodes' \in [DOMAIN mvccNodes' -> RowVersion(Node)]
        /\ mvccNodeOrder' \subseteq NodeIds
    <2>. DEFINE h == Tombstone(mvccNodes, nodeStamp)
                r == Reclaimable(h, Held, version)
    <2>1. mvccNodes' = Without(h, r) /\ mvccNodeOrder' = mvccNodeOrder \ r
      BY DEF DeleteNode, GarbageCollect
    <2>2. DOMAIN mvccNodes \subseteq NodeIds /\ mvccNodes \in [DOMAIN mvccNodes -> RowVersion(Node)]
      BY DEF TypeOK
    <2>3. \A n \in DOMAIN nodeStamp : nodeStamp[n] \in Versions
      BY <1>1
    <2>. HIDE DEF nodeStamp
    <2>4. DOMAIN h \subseteq NodeIds /\ h \in [DOMAIN h -> RowVersion(Node)]
      BY <2>2, <2>3, TombstoneType
    <2>. HIDE DEF h, r
    <2>. QED  BY <2>1, <2>4, WithoutType DEF TypeOK
  <1>5. /\ DOMAIN mvccEdges' \subseteq EdgeIds
        /\ mvccEdges' \in [DOMAIN mvccEdges' -> RowVersion(Edge)]
    <2>. DEFINE h == Tombstone(mvccEdges, CascadeStamp(id))
                r == Reclaimable(h, Held, version)
    <2>1. mvccEdges' = Without(h, r)
      BY DEF DeleteNode, GarbageCollect
    <2>2. DOMAIN mvccEdges \subseteq EdgeIds /\ mvccEdges \in [DOMAIN mvccEdges -> RowVersion(Edge)]
      BY DEF TypeOK
    <2>4. DOMAIN h \subseteq EdgeIds /\ h \in [DOMAIN h -> RowVersion(Edge)]
      BY <2>2, <1>1, TombstoneType
    <2>. HIDE DEF h, r
    <2>. QED  BY <2>1, <2>4, WithoutType
  <1>6. /\ labelToNodes' \in [Labels -> SUBSET NodeIds]
        /\ nodeInsertionOrder' \subseteq NodeIds
        /\ nextNodeID' = nextNodeID /\ activeSnapshots' = activeSnapshots
        /\ nodeLabels' = nodeLabels
    BY DEF TypeOK, DeleteNode
  <1>7. /\ adjacencyOut' \in [NodeIds -> SUBSET EdgeIds]
        /\ adjacencyIn' \in [NodeIds -> SUBSET EdgeIds]
        /\ neighbourOut' \in [NodeIds -> [NodeIds -> Nat]]
        /\ neighbourIn' \in [NodeIds -> [NodeIds -> Nat]]
    BY <1>2, RemoveEdgesType DEF DeleteNode
  <1>. QED
    BY <1>1, <1>2, <1>3, <1>4, <1>5, <1>6, <1>7, RemoveEdgesType DEF TypeOK

LEMMA MergeType ==
    ASSUME NEW p \in Properties, NEW u \in Properties
    PROVE  Merge(p, u) \in Properties
  <1>1. PICK K \in SUBSET PropertyKeys : p \in [K -> PropertyValues]
    BY DEF Properties
  <1>2. PICK L \in SUBSET PropertyKeys : u \in [L -> PropertyValues]
    BY DEF Properties
  <1>3. Merge(p, u) \in [K \cup L -> PropertyValues]
    BY <1>1, <1>2 DEF Merge
  <1>4. K \cup L \in SUBSET PropertyKeys
    OBVIOUS
  <1>. QED  BY <1>3, <1>4 DEF Properties

LEMMA UpdateNodePropertiesType ==
    ASSUME TypeOK, NEW id \in NodeIds, NEW u \in Properties, UpdateNodeProperties(id, u)
    PROVE  TypeOK'
  <1>. DEFINE node == [nodes[id] EXCEPT !.properties = Merge(@, u)]
  <1>1. node \in Node
    <2>1. nodes[id] \in Node
      BY DEF TypeOK, UpdateNodeProperties
    <2>. QED  BY <2>1, MergeType DEF Node
  <1>2. currentVersion + 1 \in Versions /\ 0 \in Versions
    BY BoundsAssumption DEF TypeOK, UpdateNodeProperties, Versions, VersionRoom
  <1>3. /\ nodes' = [nodes EXCEPT ![id] = node]
        /\ mvccNodes' = Put(mvccNodes, id, Born(node))
    BY DEF UpdateNodeProperties
  <1>. HIDE DEF node
  <1>4. Born(node) \in RowVersion(Node)
    BY <1>1, <1>2 DEF RowVersion, Born
  <1>5. /\ DOMAIN nodes' \subseteq NodeIds
        /\ nodes' \in [DOMAIN nodes' -> Node]
    BY <1>1, <1>3 DEF TypeOK
  <1>6. /\ DOMAIN mvccNodes' \subseteq NodeIds
        /\ mvccNodes' \in [DOMAIN mvccNodes' -> RowVersion(Node)]
    <2>1. DOMAIN mvccNodes \subseteq NodeIds /\ mvccNodes \in [DOMAIN mvccNodes -> RowVersion(Node)]
      BY DEF TypeOK
    <2>. QED  BY <2>1, <1>3, <1>4, PutType
  <1>. QED
    BY <1>2, <1>5, <1>6 DEF TypeOK, UpdateNodeProperties, edgeVars, adjacencyVars

LEMMA UpdateEdgeLabelType ==
    ASSUME TypeOK, NEW id \in EdgeIds, NEW l \in Labels, UpdateEdgeLabel(id, l)
    PROVE  TypeOK'
  <1>. DEFINE edge == [edges[id] EXCEPT !.label = l]
  <1>1. edge \in Edge
    <2>1. edges[id] \in Edge
      BY DEF TypeOK, UpdateEdgeLabel
    <2>. QED  BY <2>1 DEF Edge
  <1>2. currentVersion + 1 \in Versions /\ 0 \in Versions
    BY BoundsAssumption DEF TypeOK, UpdateEdgeLabel, Versions, VersionRoom
  <1>3. /\ edges' = [edges EXCEPT ![id] = edge]
        /\ mvccEdges' = Put(mvccEdges, id, Born(edge))
    BY DEF UpdateEdgeLabel
  <1>. HIDE DEF edge
  <1>4. Born(edge) \in RowVersion(Edge)
    BY <1>1, <1>2 DEF RowVersion, Born
  <1>5. /\ DOMAIN edges' \subseteq EdgeIds
        /\ edges' \in [DOMAIN edges' -> Edge]
    BY <1>1, <1>3 DEF TypeOK
  <1>6. /\ DOMAIN mvccEdges' \subseteq EdgeIds
        /\ mvccEdges' \in [DOMAIN mvccEdges' -> RowVersion(Edge)]
    <2>1. DOMAIN mvccEdges \subseteq EdgeIds /\ mvccEdges \in [DOMAIN mvccEdges -> RowVersion(Edge)]
      BY DEF TypeOK
    <2>. QED  BY <2>1, <1>3, <1>4, PutType
  <1>7. labelToEdges' \in [Labels -> SUBSET EdgeIds] /\ edgeLabels' \subseteq Labels
    BY DEF TypeOK, UpdateEdgeLabel
  <1>. QED
    BY <1>2, <1>5, <1>6, <1>7 DEF TypeOK, UpdateEdgeLabel, nodeVars, adjacencyVars

LEMMA CaptureSnapshotType ==
    ASSUME TypeOK, CaptureSnapshot
    PROVE  TypeOK'
  BY DEF TypeOK, CaptureSnapshot, nodeVars, edgeVars, adjacencyVars, historyVars

LEMMA ReleaseSnapshotType ==
    ASSUME TypeOK, NEW v \in Versions, ReleaseSnapshot(v)
    PROVE  TypeOK'
  <1>. DEFINE active == Unregister(v)
              held == {w \in Versions : active[w] > 0}
              goneNodes == Reclaimable(mvccNodes, held, currentVersion)
              goneEdges == Reclaimable(mvccEdges, held, currentVersion)
  <1>1. active \in [Versions -> Nat]
    BY DEF TypeOK, Unregister
  <1>2. /\ activeSnapshots' = active
        /\ mvccNodes' = Without(mvccNodes, goneNodes)
        /\ mvccNodeOrder' = mvccNodeOrder \ goneNodes
        /\ mvccEdges' = Without(mvccEdges, goneEdges)
    BY DEF ReleaseSnapshot, GarbageCollect
  <1>. HIDE DEF active, goneNodes, goneEdges
  <1>3. /\ DOMAIN mvccNodes' \subseteq NodeIds
        /\ mvccNodes' \in [DOMAIN mvccNodes' -> RowVersion(Node)]
    BY <1>2, WithoutType DEF TypeOK
  <1>4. /\ DOMAIN mvccEdges' \subseteq EdgeIds
        /\ mvccEdges' \in [DOMAIN mvccEdges' -> RowVersion(Edge)]
    BY <1>2, WithoutType DEF TypeOK
  <1>. QED
    BY <1>1, <1>2, <1>3, <1>4 DEF TypeOK, ReleaseSnapshot, nodeVars, edgeVars, adjacencyVars

-----------------------------------------------------------------------------
\* Creations

LEMMA CreateNodeFacts ==
    ASSUME TypeOK, FreshIds, NEW l \in Labels, NEW p \in Properties, CreateNode(l, p)
    PROVE  LET id == nextNodeID
               node == [label |-> l, properties |-> p]
           IN  /\ id \in NodeIds /\ id \notin DOMAIN nodes /\ id \notin DOMAIN mvccNodes
               /\ DOMAIN nodes' = DOMAIN nodes \cup {id}
               /\ nodes'[id] = node
               /\ \A n \in DOMAIN nodes : nodes'[n] = nodes[n]
               /\ DOMAIN mvccNodes' = DOMAIN mvccNodes \cup {id}
               /\ mvccNodes'[id] = Born(node)
               /\ \A n \in DOMAIN mvccNodes : mvccNodes'[n] = mvccNodes[n]
  <1>. DEFINE id == nextNodeID
              node == [label |-> l, properties |-> p]
  <1>1. id \in NodeIds /\ id \notin DOMAIN nodes /\ id \notin DOMAIN mvccNodes
    BY BoundsAssumption DEF TypeOK, FreshIds, CreateNode, NodeIds
  <1>2. nodes' = Put(nodes, id, node) /\ mvccNodes' = Put(mvccNodes, id, Born(node))
    BY <1>1, EmplaceMap DEF CreateNode
  <1>. HIDE DEF node
  <1>3. DOMAIN nodes' = DOMAIN nodes \cup {id} /\ DOMAIN mvccNodes' = DOMAIN mvccNodes \cup {id}
    BY <1>2, PutMap
  <1>4. nodes'[id] = node
    BY <1>2 DEF Put
  <1>5. mvccNodes'[id] = Born(node)
    BY <1>2 DEF Put
  <1>6. \A n \in DOMAIN nodes : nodes'[n] = nodes[n]
    BY <1>1, <1>2 DEF Put
  <1>7. \A n \in DOMAIN mvccNodes : mvccNodes'[n] = mvccNodes[n]
    BY <1>1, <1>2 DEF Put
  <1>. QED  BY <1>1, <1>3, <1>4, <1>5, <1>6, <1>7 DEF node

LEMMA CreateNodeInv ==
    ASSUME IInv, NEW l \in Labels, NEW p \in Properties, CreateNode(l, p)
    PROVE  IInv'
  <1>. DEFINE id == nextNodeID
              node == [label |-> l, properties |-> p]
  <1>0. TypeOK /\ FreshIds
    BY DEF IInv
  <1>1. TypeOK'
    BY <1>0, CreateNodeType
  <1>2. /\ id \in NodeIds /\ id \notin DOMAIN nodes /\ id \notin DOMAIN mvccNodes
        /\ DOMAIN nodes' = DOMAIN nodes \cup {id}
        /\ nodes'[id] = node
        /\ \A n \in DOMAIN nodes : nodes'[n] = nodes[n]
        /\ DOMAIN mvccNodes' = DOMAIN mvccNodes \cup {id}
        /\ mvccNodes'[id] = Born(node)
        /\ \A n \in DOMAIN mvccNodes : mvccNodes'[n] = mvccNodes[n]
    BY <1>0, CreateNodeFacts
  <1>3. /\ nextNodeID' = id + 1 /\ currentVersion' = currentVersion + 1
        /\ labelToNodes' = [labelToNodes EXCEPT ![l] = @ \cup {id}]
        /\ nodeInsertionOrder' = nodeInsertionOrder \cup {id}
        /\ mvccNodeOrder' = mvccNodeOrder \cup {id}
        /\ nodeLabels' = nodeLabels \cup {l} /\ edgeLabels' = edgeLabels
        /\ UNCHANGED <<nextEdgeID, edges, labelToEdges, edgeInsertionOrder, adjacencyOut,
                       adjacencyIn, neighbourOut, neighbourIn, activeSnapshots, mvccEdges>>
    BY DEF CreateNode, edgeVars, adjacencyVars
  <1>4. /\ node.label = l
        /\ Born(node).row = node
        /\ Born(node).createdAtVersion = currentVersion + 1
        /\ Born(node).deletedAtVersion = 0
    BY DEF Born
  <1>5. currentVersion \in Nat /\ id \in Nat
    BY <1>0, BoundsAssumption DEF TypeOK, Versions
  <1>. HIDE DEF node
  <1>6. FreshIds'
    BY <1>0, <1>2, <1>3, <1>5 DEF FreshIds, TypeOK, NodeIds, EdgeIds
  <1>7. StampsOrdered'
    BY <1>2, <1>3, <1>4, <1>5 DEF IInv, StampsOrdered, Lifetime
  <1>8. IndexesMatchLive'
    BY <1>0, <1>2, <1>3, <1>4 DEF IInv, IndexesMatchLive, EndpointsLive, TypeOK
  <1>9. NeighboursAreEdges'
    BY <1>3 DEF IInv, NeighboursAreEdges, EdgesBetween
  <1>10. HistoryMirrorsLive'
    BY <1>2, <1>3, <1>4 DEF IInv, HistoryMirrorsLive
  <1>11. EndpointHistoryRetained'
    BY <1>2, <1>3, <1>4 DEF IInv, EndpointHistoryRetained
  <1>12. NoNodeGarbage'
    BY <1>2, <1>3, <1>4 DEF IInv, NoNodeGarbage, Held
  <1>13. LabelsListed'
    BY <1>2, <1>3, <1>4 DEF IInv, LabelsListed
  <1>. QED
    BY <1>13, <1>1, <1>6, <1>7, <1>8, <1>9, <1>10, <1>11, <1>12 DEF IInv

LEMMA CreateEdgeFacts ==
    ASSUME TypeOK, FreshIds, NEW a \in NodeIds, NEW b \in NodeIds, NEW l \in Labels,
           CreateEdge(a, b, l)
    PROVE  LET id == nextEdgeID
               edge == [from |-> a, to |-> b, label |-> l]
           IN  /\ id \in EdgeIds /\ id \notin DOMAIN edges /\ id \notin DOMAIN mvccEdges
               /\ DOMAIN edges' = DOMAIN edges \cup {id}
               /\ edges'[id] = edge
               /\ \A e \in DOMAIN edges : edges'[e] = edges[e]
               /\ DOMAIN mvccEdges' = DOMAIN mvccEdges \cup {id}
               /\ mvccEdges'[id] = Born(edge)
               /\ \A e \in DOMAIN mvccEdges : mvccEdges'[e] = mvccEdges[e]
  <1>. DEFINE id == nextEdgeID
              edge == [from |-> a, to |-> b, label |-> l]
  <1>1. id \in EdgeIds /\ id \notin DOMAIN edges /\ id \notin DOMAIN mvccEdges
    BY BoundsAssumption DEF TypeOK, FreshIds, CreateEdge, EdgeIds
  <1>2. edges' = Put(edges, id, edge) /\ mvccEdges' = Put(mvccEdges, id, Born(edge))
    BY <1>1, EmplaceMap DEF CreateEdge
  <1>. HIDE DEF edge
  <1>3. DOMAIN edges' = DOMAIN edges \cup {id} /\ DOMAIN mvccEdges' = DOMAIN mvccEdges \cup {id}
    BY <1>2, PutMap
  <1>4. edges'[id] = edge
    BY <1>2 DEF Put
  <1>5. mvccEdges'[id] = Born(edge)
    BY <1>2 DEF Put
  <1>6. \A e \in DOMAIN edges : edges'[e] = edges[e]
    BY <1>1, <1>2 DEF Put
  <1>7. \A e \in DOMAIN mvccEdges : mvccEdges'[e] = mvccEdges[e]
    BY <1>1, <1>2 DEF Put
  <1>. QED  BY <1>1, <1>3, <1>4, <1>5, <1>6, <1>7 DEF edge

LEMMA CreateEdgeInv ==
    ASSUME IInv, NEW a \in NodeIds, NEW b \in NodeIds, NEW l \in Labels, CreateEdge(a, b, l)
    PROVE  IInv'
  <1>. DEFINE id == nextEdgeID
              edge == [from |-> a, to |-> b, label |-> l]
  <1>0. TypeOK /\ FreshIds
    BY DEF IInv
  <1>1. TypeOK'
    BY <1>0, CreateEdgeType
  <1>2. /\ id \in EdgeIds /\ id \notin DOMAIN edges /\ id \notin DOMAIN mvccEdges
        /\ DOMAIN edges' = DOMAIN edges \cup {id}
        /\ edges'[id] = edge
        /\ \A e \in DOMAIN edges : edges'[e] = edges[e]
        /\ DOMAIN mvccEdges' = DOMAIN mvccEdges \cup {id}
        /\ mvccEdges'[id] = Born(edge)
        /\ \A e \in DOMAIN mvccEdges : mvccEdges'[e] = mvccEdges[e]
    BY <1>0, CreateEdgeFacts
  <1>3. /\ a \in DOMAIN nodes /\ b \in DOMAIN nodes
        /\ nextEdgeID' = id + 1 /\ currentVersion' = currentVersion + 1
        /\ labelToEdges' = [labelToEdges EXCEPT ![l] = @ \cup {id}]
        /\ edgeInsertionOrder' = edgeInsertionOrder \cup {id}
        /\ edgeLabels' = edgeLabels \cup {l} /\ nodeLabels' = nodeLabels
        /\ adjacencyOut' = [adjacencyOut EXCEPT ![a] = @ \cup {id}]
        /\ adjacencyIn' = [adjacencyIn EXCEPT ![b] = @ \cup {id}]
        /\ neighbourOut' = [neighbourOut EXCEPT ![a][b] = @ + 1]
        /\ neighbourIn' = [neighbourIn EXCEPT ![b][a] = @ + 1]
        /\ UNCHANGED <<nextNodeID, nodes, labelToNodes, nodeInsertionOrder,
                       activeSnapshots, mvccNodes, mvccNodeOrder>>
    BY DEF CreateEdge, nodeVars
  <1>4. /\ edge.label = l /\ edge.from = a /\ edge.to = b
        /\ Born(edge).row = edge
        /\ Born(edge).createdAtVersion = currentVersion + 1
        /\ Born(edge).deletedAtVersion = 0
    BY DEF Born
  <1>5. currentVersion \in Nat /\ id \in Nat
    BY <1>0, BoundsAssumption DEF TypeOK, Versions
  <1>. HIDE DEF edge
  <1>6. FreshIds'
    <2>1. DOMAIN edges \cup DOMAIN mvccEdges \subseteq Nat
      BY <1>0 DEF TypeOK, EdgeIds
    <2>2. \A e \in DOMAIN edges' \cup DOMAIN mvccEdges' : e < nextEdgeID'
      BY <1>0, <1>2, <1>3, <1>5, <2>1 DEF FreshIds
    <2>. QED  BY <1>0, <1>3, <2>2 DEF FreshIds
  <1>7. StampsOrdered'
    BY <1>2, <1>3, <1>4, <1>5 DEF IInv, StampsOrdered, Lifetime
  <1>8. IndexesMatchLive'
    BY <1>0, <1>2, <1>3, <1>4 DEF IInv, IndexesMatchLive, EndpointsLive, TypeOK
  <1>9. NeighboursAreEdges'
    <2>1. ASSUME NEW n \in NodeIds, NEW m \in NodeIds
          PROVE  /\ neighbourOut'[n][m] = neighbourIn'[m][n]
                 /\ neighbourOut'[n][m] > 0 => EdgesBetween(n, m)' # {}
      <3>1. /\ neighbourOut[n][m] = neighbourIn[m][n]
            /\ neighbourOut[n][m] > 0 => EdgesBetween(n, m) # {}
            /\ neighbourOut[n][m] \in Nat
        BY <1>0 DEF IInv, NeighboursAreEdges, TypeOK
      <3>2. EdgesBetween(n, m)' = EdgesBetween(n, m) \cup (IF n = a /\ m = b THEN {id} ELSE {})
        BY <1>2, <1>4 DEF EdgesBetween
      <3>3. CASE n = a /\ m = b
        BY <1>0, <1>3, <3>1, <3>2, <3>3 DEF TypeOK
      <3>4. CASE ~(n = a /\ m = b)
        <4>1. neighbourOut'[n][m] = neighbourOut[n][m] /\ neighbourIn'[m][n] = neighbourIn[m][n]
          BY <1>0, <1>3, <3>4 DEF TypeOK
        <4>. QED  BY <4>1, <3>1, <3>2
      <3>. QED  BY <3>3, <3>4
    <2>. QED  BY <2>1 DEF NeighboursAreEdges
  <1>10. HistoryMirrorsLive'
    BY <1>2, <1>3, <1>4 DEF IInv, HistoryMirrorsLive
  <1>11. EndpointHistoryRetained'
    BY <1>2, <1>3, <1>4 DEF IInv, EndpointHistoryRetained, HistoryMirrorsLive
  <1>12. NoNodeGarbage'
    BY <1>2, <1>3, <1>4 DEF IInv, NoNodeGarbage, Held
  <1>13. LabelsListed'
    BY <1>2, <1>3, <1>4 DEF IInv, LabelsListed
  <1>. QED
    BY <1>13, <1>1, <1>6, <1>7, <1>8, <1>9, <1>10, <1>11, <1>12 DEF IInv

-----------------------------------------------------------------------------
\* Deletions

\* The adjacency lists of every node, after the edges of gone are deleted.
LEMMA RemoveEdgesIndexes ==
    ASSUME TypeOK, IndexesMatchLive, NEW gone \in SUBSET DOMAIN edges, RemoveEdges(gone)
    PROVE  /\ DOMAIN edges' = DOMAIN edges \ gone
           /\ \A e \in DOMAIN edges' : edges'[e] = edges[e]
           /\ edgeInsertionOrder' = DOMAIN edges'
           /\ \A l \in Labels : labelToEdges'[l] = {e \in DOMAIN edges' : edges'[e].label = l}
           /\ \A n \in NodeIds :
                /\ AdjacencyWithout(adjacencyOut, From, gone)[n] = {e \in DOMAIN edges' : edges'[e].from = n}
                /\ AdjacencyWithout(adjacencyIn, To, gone)[n] = {e \in DOMAIN edges' : edges'[e].to = n}
  <1>1. DOMAIN edges' = DOMAIN edges \ gone
    BY WithoutMap DEF RemoveEdges
  <1>2. \A e \in DOMAIN edges' : edges'[e] = edges[e]
    BY <1>1 DEF RemoveEdges, Without, Restrict
  <1>3. edgeInsertionOrder' = DOMAIN edges'
    BY <1>1 DEF RemoveEdges, IndexesMatchLive
  <1>4. \A l \in Labels : labelToEdges'[l] = {e \in DOMAIN edges' : edges'[e].label = l}
    BY <1>1, <1>2 DEF RemoveEdges, IndexesMatchLive
  <1>5. ASSUME NEW n \in NodeIds
        PROVE  /\ AdjacencyWithout(adjacencyOut, From, gone)[n] = {e \in DOMAIN edges' : edges'[e].from = n}
               /\ AdjacencyWithout(adjacencyIn, To, gone)[n] = {e \in DOMAIN edges' : edges'[e].to = n}
    BY <1>1, <1>2 DEF AdjacencyWithout, From, To, IndexesMatchLive
  <1>. QED  BY <1>1, <1>2, <1>3, <1>4, <1>5

\* ... and their neighbour lists.
LEMMA RemoveEdgesNeighbours ==
    ASSUME TypeOK, NeighboursAreEdges, NEW gone \in SUBSET DOMAIN edges, RemoveEdges(gone),
           NEW n \in NodeIds, NEW m \in NodeIds
    PROVE  LET out == NeighboursWithout(neighbourOut, From, To, gone)
               in == NeighboursWithout(neighbourIn, To, From, gone)
           IN  /\ out[n][m] = in[m][n]
               /\ out[n][m] > 0 => EdgesBetween(n, m)' # {}
  <1>. DEFINE out == NeighboursWithout(neighbourOut, From, To, gone)
              in == NeighboursWithout(neighbourIn, To, From, gone)
              erased == \E e \in gone : edges[e].from = n /\ edges[e].to = m
  <1>1. /\ out[n][m] = IF erased THEN 0 ELSE neighbourOut[n][m]
        /\ in[m][n] = IF erased THEN 0 ELSE neighbourIn[m][n]
    BY DEF NeighboursWithout, From, To
  <1>2. ~erased => EdgesBetween(n, m) \subseteq EdgesBetween(n, m)'
    <2>1. DOMAIN edges' = DOMAIN edges \ gone
      BY WithoutMap DEF RemoveEdges
    <2>2. \A e \in DOMAIN edges' : edges'[e] = edges[e]
      BY <2>1 DEF RemoveEdges, Without, Restrict
    <2>. QED  BY <2>1, <2>2 DEF EdgesBetween
  <1>3. /\ neighbourOut[n][m] = neighbourIn[m][n]
        /\ neighbourOut[n][m] > 0 => EdgesBetween(n, m) # {}
    BY DEF NeighboursAreEdges
  <1>. QED  BY <1>1, <1>2, <1>3

LEMMA DeleteEdgeInv ==
    ASSUME IInv, NEW id \in EdgeIds, DeleteEdge(id)
    PROVE  IInv'
  <1>0. TypeOK /\ FreshIds /\ IndexesMatchLive /\ NeighboursAreEdges /\ id \in DOMAIN edges
    BY DEF IInv, DeleteEdge
  <1>1. TypeOK'
    BY <1>0, DeleteEdgeType
  <1>2. /\ RemoveEdges({id}) /\ {id} \in SUBSET DOMAIN edges
        /\ currentVersion' = currentVersion + 1
        /\ adjacencyOut' = AdjacencyWithout(adjacencyOut, From, {id})
        /\ adjacencyIn' = AdjacencyWithout(adjacencyIn, To, {id})
        /\ neighbourOut' = NeighboursWithout(neighbourOut, From, To, {id})
        /\ neighbourIn' = NeighboursWithout(neighbourIn, To, From, {id})
        /\ UNCHANGED <<nextNodeID, nodes, labelToNodes, nodeInsertionOrder, nextEdgeID,
                       nodeLabels, edgeLabels, activeSnapshots, mvccNodes, mvccNodeOrder>>
    BY <1>0 DEF DeleteEdge, RemoveEdges, nodeVars
  <1>3. /\ DOMAIN edges' = DOMAIN edges \ {id}
        /\ \A e \in DOMAIN edges' : edges'[e] = edges[e]
        /\ edgeInsertionOrder' = DOMAIN edges'
        /\ \A l \in Labels : labelToEdges'[l] = {e \in DOMAIN edges' : edges'[e].label = l}
        /\ \A n \in NodeIds :
             /\ adjacencyOut'[n] = {e \in DOMAIN edges' : edges'[e].from = n}
             /\ adjacencyIn'[n] = {e \in DOMAIN edges' : edges'[e].to = n}
    BY <1>0, <1>2, RemoveEdgesIndexes
  <1>4. /\ DOMAIN mvccEdges' = DOMAIN mvccEdges
        /\ id \in DOMAIN mvccEdges /\ mvccEdges[id].deletedAtVersion = 0
        /\ mvccEdges'[id] = [mvccEdges[id] EXCEPT !.deletedAtVersion = currentVersion + 1]
        /\ \A e \in DOMAIN mvccEdges \ {id} : mvccEdges'[e] = mvccEdges[e]
    <2>1. id \in DOMAIN mvccEdges /\ mvccEdges[id].deletedAtVersion = 0
      BY <1>0 DEF IInv, HistoryMirrorsLive
    <2>2. mvccEdges' = Tombstone(mvccEdges, [e \in {id} |-> currentVersion + 1])
      BY DEF DeleteEdge
    <2>. QED  BY <2>1, <2>2 DEF Tombstone
  <1>5. /\ mvccEdges[id] \in RowVersion(Edge) /\ mvccEdges'[id] \in RowVersion(Edge)
        /\ mvccEdges'[id].deletedAtVersion = currentVersion + 1
        /\ mvccEdges'[id].createdAtVersion = mvccEdges[id].createdAtVersion
        /\ mvccEdges'[id].row = mvccEdges[id].row
    <2>1. mvccEdges[id] \in RowVersion(Edge)
      BY <1>0, <1>4 DEF TypeOK
    <2>2. mvccEdges'[id] \in RowVersion(Edge)
      BY <1>1, <1>4 DEF TypeOK
    <2>. QED  BY <2>1, <2>2, <1>4 DEF RowVersion
  <1>6. currentVersion \in Nat
    BY <1>0, BoundsAssumption DEF TypeOK, Versions
  <1>7. FreshIds'
    BY <1>0, <1>2, <1>3, <1>4 DEF FreshIds
  <1>8. StampsOrdered'
    <2>1. ASSUME NEW e \in DOMAIN mvccEdges'
          PROVE  Lifetime(mvccEdges[e])'
      <3>1. CASE e = id
        BY <3>1, <1>2, <1>4, <1>5, <1>6 DEF IInv, StampsOrdered, Lifetime
      <3>2. CASE e # id
        BY <3>2, <1>2, <1>4, <1>6 DEF IInv, StampsOrdered, Lifetime
      <3>. QED  BY <3>1, <3>2
    <2>2. ASSUME NEW n \in DOMAIN mvccNodes'
          PROVE  Lifetime(mvccNodes[n])'
      BY <1>2, <1>6 DEF IInv, StampsOrdered, Lifetime
    <2>. QED  BY <2>1, <2>2 DEF StampsOrdered
  <1>9. IndexesMatchLive'
    <2>1. EndpointsLive'
      BY <1>0, <1>2, <1>3 DEF IndexesMatchLive, EndpointsLive
    <2>2. /\ \A l \in Labels : labelToNodes'[l] = {n \in DOMAIN nodes' : nodes'[n].label = l}
          /\ nodeInsertionOrder' = DOMAIN nodes'
      BY <1>0, <1>2 DEF IndexesMatchLive
    <2>. QED  BY <2>1, <2>2, <1>3 DEF IndexesMatchLive
  <1>10. NeighboursAreEdges'
    BY <1>0, <1>2, RemoveEdgesNeighbours DEF NeighboursAreEdges
  <1>11. HistoryMirrorsLive'
    <2>0. HistoryMirrorsLive
      BY DEF IInv
    <2>1. /\ DOMAIN nodes' = {n \in DOMAIN mvccNodes' : mvccNodes'[n].deletedAtVersion = 0}
          /\ \A n \in DOMAIN nodes' : mvccNodes'[n].row = nodes'[n]
          /\ mvccNodeOrder' = DOMAIN mvccNodes'
      BY <2>0, <1>2 DEF HistoryMirrorsLive
    <2>2. \A e \in DOMAIN mvccEdges' :
            mvccEdges'[e].deletedAtVersion = 0 <=> mvccEdges[e].deletedAtVersion = 0 /\ e # id
      <3>1. mvccEdges'[id].deletedAtVersion # 0
        BY <1>5, <1>6
      <3>. QED  BY <3>1, <1>4
    <2>3. DOMAIN edges' = {e \in DOMAIN mvccEdges' : mvccEdges'[e].deletedAtVersion = 0}
      BY <2>0, <2>2, <1>3, <1>4 DEF HistoryMirrorsLive
    <2>4. \A e \in DOMAIN edges' : mvccEdges'[e].row = edges'[e]
      BY <2>0, <1>3, <1>4 DEF HistoryMirrorsLive
    <2>. QED  BY <2>1, <2>3, <2>4 DEF HistoryMirrorsLive
  <1>12. EndpointHistoryRetained'
    <2>. SUFFICES ASSUME NEW e \in DOMAIN mvccEdges',
                         NEW n \in {mvccEdges'[e].row.from, mvccEdges'[e].row.to}
                  PROVE  /\ n \in DOMAIN mvccNodes'
                         /\ mvccNodes'[n].deletedAtVersion # 0 =>
                              /\ mvccEdges'[e].deletedAtVersion # 0
                              /\ mvccEdges'[e].deletedAtVersion < mvccNodes'[n].deletedAtVersion
      BY DEF EndpointHistoryRetained
    <2>1. e \in DOMAIN mvccEdges /\ mvccEdges'[e].row = mvccEdges[e].row
      BY <1>4, <1>5
    <2>2. /\ n \in DOMAIN mvccNodes
          /\ mvccNodes[n].deletedAtVersion # 0 =>
               /\ mvccEdges[e].deletedAtVersion # 0
               /\ mvccEdges[e].deletedAtVersion < mvccNodes[n].deletedAtVersion
      BY <2>1 DEF IInv, EndpointHistoryRetained
    <2>3. CASE e = id
      BY <2>2, <2>3, <1>2, <1>4
    <2>4. CASE e # id
      BY <2>1, <2>2, <2>4, <1>2, <1>4
    <2>. QED  BY <2>3, <2>4
  <1>13. NoNodeGarbage'
    BY <1>2 DEF IInv, NoNodeGarbage, Held
  <1>14. LabelsListed'
    BY <1>2, <1>3 DEF IInv, LabelsListed
  <1>. QED
    BY <1>14, <1>1, <1>7, <1>8, <1>9, <1>10, <1>11, <1>12, <1>13 DEF IInv

\* What a garbage collection leaves.
LEMMA GarbageCollectFacts ==
    ASSUME NEW nodeHistory, NEW edgeHistory, NEW held, NEW version,
           GarbageCollect(nodeHistory, edgeHistory, held, version)
    PROVE  /\ DOMAIN mvccNodes' = DOMAIN nodeHistory \ Reclaimable(nodeHistory, held, version)
           /\ \A n \in DOMAIN mvccNodes' : mvccNodes'[n] = nodeHistory[n]
           /\ mvccNodeOrder' = mvccNodeOrder \ Reclaimable(nodeHistory, held, version)
           /\ DOMAIN mvccEdges' = DOMAIN edgeHistory \ Reclaimable(edgeHistory, held, version)
           /\ \A e \in DOMAIN mvccEdges' : mvccEdges'[e] = edgeHistory[e]
  BY DEF GarbageCollect, Without, Restrict

\* An edge record goes whenever the record of an endpoint does, its own
\* deletion being the earlier one.
LEMMA CollectedTogether ==
    ASSUME NEW nodeHistory, NEW edgeHistory, NEW held \in SUBSET Versions, NEW version \in Versions,
           NEW n \in Reclaimable(nodeHistory, held, version), NEW e \in DOMAIN edgeHistory,
           nodeHistory[n].deletedAtVersion \in Versions,
           edgeHistory[e].deletedAtVersion \in Versions,
           edgeHistory[e].deletedAtVersion # 0,
           edgeHistory[e].deletedAtVersion < nodeHistory[n].deletedAtVersion
    PROVE  e \in Reclaimable(edgeHistory, held, version)
  BY BoundsAssumption DEF Reclaimable, Versions

\* A collection for those who hold a version after the step, on its own.
LEMMA CollectInv ==
    ASSUME IInv, TypeOK', GarbageCollect(mvccNodes, mvccEdges, Held', currentVersion),
           UNCHANGED <<nodeVars, edgeVars, currentVersion>>
    PROVE  IInv'
  <1>. DEFINE held == Held'
              goneNodes == Reclaimable(mvccNodes, held, currentVersion)
              goneEdges == Reclaimable(mvccEdges, held, currentVersion)
  <1>0. TypeOK /\ FreshIds
    BY DEF IInv
  <1>1. held \in SUBSET Versions
    BY DEF Held
  <1>2. /\ DOMAIN mvccNodes' = DOMAIN mvccNodes \ goneNodes
        /\ \A n \in DOMAIN mvccNodes' : mvccNodes'[n] = mvccNodes[n]
        /\ mvccNodeOrder' = mvccNodeOrder \ goneNodes
        /\ DOMAIN mvccEdges' = DOMAIN mvccEdges \ goneEdges
        /\ \A e \in DOMAIN mvccEdges' : mvccEdges'[e] = mvccEdges[e]
    BY DEF GarbageCollect, Without, Restrict
  <1>3. /\ \A n \in goneNodes : mvccNodes[n].deletedAtVersion # 0
        /\ \A e \in goneEdges : mvccEdges[e].deletedAtVersion # 0
    BY DEF Reclaimable
  <1>4. UNCHANGED <<nextNodeID, nodes, labelToNodes, nodeInsertionOrder, nextEdgeID, edges,
                    labelToEdges, edgeInsertionOrder, adjacencyOut, adjacencyIn,
                    neighbourOut, neighbourIn, nodeLabels, edgeLabels, currentVersion>>
    BY DEF nodeVars, edgeVars, adjacencyVars
  <1>5. /\ \A n \in DOMAIN mvccNodes : mvccNodes[n].deletedAtVersion \in Versions
        /\ \A e \in DOMAIN mvccEdges : mvccEdges[e].deletedAtVersion \in Versions
        /\ currentVersion \in Versions
    BY <1>0 DEF TypeOK, RowVersion
  <1>6. held = {} => \A n \in DOMAIN mvccNodes : mvccNodes[n].deletedAtVersion # 0 => n \in goneNodes
    BY DEF IInv, StampsOrdered, Lifetime, Reclaimable
  <1>7. \A e \in DOMAIN mvccEdges, n \in goneNodes :
          /\ mvccEdges[e].deletedAtVersion # 0
          /\ mvccEdges[e].deletedAtVersion < mvccNodes[n].deletedAtVersion
          => e \in goneEdges
    <2>. SUFFICES ASSUME NEW e \in DOMAIN mvccEdges, NEW n \in goneNodes,
                         mvccEdges[e].deletedAtVersion # 0,
                         mvccEdges[e].deletedAtVersion < mvccNodes[n].deletedAtVersion
                  PROVE  e \in goneEdges
      OBVIOUS
    <2>1. n \in DOMAIN mvccNodes
      BY DEF Reclaimable
    <2>. HIDE DEF held
    <2>. QED  BY <2>1, <1>1, <1>5, CollectedTogether
  <1>. HIDE DEF goneNodes, goneEdges
  <1>8. FreshIds'
    BY <1>0, <1>2, <1>4 DEF FreshIds
  <1>9. StampsOrdered'
    BY <1>2, <1>4 DEF IInv, StampsOrdered, Lifetime
  <1>10. IndexesMatchLive' /\ NeighboursAreEdges'
    BY <1>4 DEF IInv, IndexesMatchLive, EndpointsLive, NeighboursAreEdges, EdgesBetween
  <1>11. HistoryMirrorsLive'
    BY <1>2, <1>3, <1>4 DEF IInv, HistoryMirrorsLive
  <1>12. EndpointHistoryRetained'
    BY <1>2, <1>3, <1>7 DEF IInv, EndpointHistoryRetained
  <1>13. NoNodeGarbage'
    BY <1>2, <1>4, <1>6 DEF NoNodeGarbage
  <1>14. LabelsListed'
    BY <1>4 DEF IInv, LabelsListed
  <1>. QED
    BY <1>14, <1>8, <1>9, <1>10, <1>11, <1>12, <1>13 DEF IInv

LEMMA ReleaseSnapshotInv ==
    ASSUME IInv, NEW v \in Versions, ReleaseSnapshot(v)
    PROVE  IInv'
  <1>1. TypeOK'
    BY ReleaseSnapshotType DEF IInv
  <1>2. GarbageCollect(mvccNodes, mvccEdges, Held', currentVersion)
    BY DEF ReleaseSnapshot, Held
  <1>. QED  BY <1>1, <1>2, CollectInv DEF ReleaseSnapshot, Held

LEMMA DeleteNodeInv ==
    ASSUME IInv, NEW id \in NodeIds, DeleteNode(id)
    PROVE  IInv'
  <1>. DEFINE gone == Incident(id)
              version == currentVersion + Cardinality(gone) + 1
              nodeHistory == Tombstone(mvccNodes, [n \in {id} |-> version])
              edgeHistory == Tombstone(mvccEdges, CascadeStamp(id))
              goneNodes == Reclaimable(nodeHistory, Held, version)
              goneEdges == Reclaimable(edgeHistory, Held, version)
  <1>0. /\ TypeOK /\ FreshIds /\ IndexesMatchLive /\ NeighboursAreEdges
        /\ HistoryMirrorsLive /\ StampsOrdered /\ EndpointHistoryRetained
        /\ id \in DOMAIN nodes
    BY DEF IInv, DeleteNode
  <1>1. TypeOK'
    BY <1>0, DeleteNodeType
  \* The cascade takes exactly the edges of the node.
  <1>2. /\ gone = {e \in DOMAIN edges : id \in {edges[e].from, edges[e].to}}
        /\ gone \in SUBSET DOMAIN edges
    BY <1>0 DEF Incident, IndexesMatchLive
  <1>3. /\ RemoveEdges(gone)
        /\ currentVersion' = version
        /\ labelToNodes' = [labelToNodes EXCEPT ![nodes[id].label] = @ \ {id}]
        /\ nodes' = Without(nodes, {id})
        /\ nodeInsertionOrder' = nodeInsertionOrder \ {id}
        /\ nextNodeID' = nextNodeID /\ activeSnapshots' = activeSnapshots
        /\ nextEdgeID' = nextEdgeID
        /\ nodeLabels' = nodeLabels /\ edgeLabels' = edgeLabels
    BY DEF DeleteNode, RemoveEdges
  <1>4. /\ adjacencyOut' = [AdjacencyWithout(adjacencyOut, From, gone) EXCEPT ![id] = {}]
        /\ adjacencyIn' = [AdjacencyWithout(adjacencyIn, To, gone) EXCEPT ![id] = {}]
        /\ neighbourOut' = [NeighboursWithout(neighbourOut, From, To, gone)
                              EXCEPT ![id] = [m \in NodeIds |-> 0]]
        /\ neighbourIn' = [NeighboursWithout(neighbourIn, To, From, gone)
                             EXCEPT ![id] = [m \in NodeIds |-> 0]]
    BY DEF DeleteNode
  <1>5. /\ DOMAIN nodes' = DOMAIN nodes \ {id}
        /\ \A n \in DOMAIN nodes' : nodes'[n] = nodes[n]
    BY <1>3 DEF Without, Restrict
  <1>6. /\ DOMAIN edges' = DOMAIN edges \ gone
        /\ \A e \in DOMAIN edges' : edges'[e] = edges[e]
        /\ edgeInsertionOrder' = DOMAIN edges'
        /\ \A l \in Labels : labelToEdges'[l] = {e \in DOMAIN edges' : edges'[e].label = l}
        /\ \A n \in NodeIds :
             /\ AdjacencyWithout(adjacencyOut, From, gone)[n] = {e \in DOMAIN edges' : edges'[e].from = n}
             /\ AdjacencyWithout(adjacencyIn, To, gone)[n] = {e \in DOMAIN edges' : edges'[e].to = n}
    <2>. HIDE DEF gone
    <2>. QED  BY <1>0, <1>2, <1>3, RemoveEdgesIndexes
  \* No edge of the node is left, so emptying its lists loses nothing.
  <1>7. \A e \in DOMAIN edges' : edges'[e].from # id /\ edges'[e].to # id
    BY <1>2, <1>6
  <1>8. /\ version \in Versions /\ currentVersion \in Nat /\ version \in Nat
        /\ currentVersion < version
        /\ \A e \in gone : CascadeStamp(id)[e] \in currentVersion + 1 .. version - 1
    <2>1. currentVersion \in Nat /\ version \in Nat /\ version \in Versions
      BY <1>1, <1>3, <1>0, BoundsAssumption DEF TypeOK, Versions
    <2>. QED  BY <2>1, <1>0, CascadeBounds
  <1>9. /\ DOMAIN nodeHistory = DOMAIN mvccNodes
        /\ id \in DOMAIN mvccNodes /\ mvccNodes[id].deletedAtVersion = 0
        /\ nodeHistory[id] = [mvccNodes[id] EXCEPT !.deletedAtVersion = version]
        /\ \A n \in DOMAIN mvccNodes \ {id} : nodeHistory[n] = mvccNodes[n]
    <2>1. id \in DOMAIN mvccNodes /\ mvccNodes[id].deletedAtVersion = 0
      BY <1>0 DEF HistoryMirrorsLive
    <2>. HIDE DEF version
    <2>. QED  BY <2>1 DEF Tombstone
  <1>10. /\ DOMAIN edgeHistory = DOMAIN mvccEdges
         /\ \A e \in gone :
              /\ e \in DOMAIN mvccEdges /\ mvccEdges[e].deletedAtVersion = 0
              /\ edgeHistory[e] = [mvccEdges[e] EXCEPT !.deletedAtVersion = CascadeStamp(id)[e]]
         /\ \A e \in DOMAIN mvccEdges \ gone : edgeHistory[e] = mvccEdges[e]
    <2>1. \A e \in gone : e \in DOMAIN mvccEdges /\ mvccEdges[e].deletedAtVersion = 0
      BY <1>0, <1>2 DEF HistoryMirrorsLive
    <2>2. DOMAIN CascadeStamp(id) = gone
      BY DEF CascadeStamp
    <2>. HIDE DEF gone
    <2>. QED  BY <2>1, <2>2 DEF Tombstone
  <1>11. /\ \A n \in DOMAIN mvccNodes : mvccNodes[n] \in RowVersion(Node)
         /\ \A e \in DOMAIN mvccEdges : mvccEdges[e] \in RowVersion(Edge)
         /\ DOMAIN mvccNodes \subseteq NodeIds /\ DOMAIN mvccEdges \subseteq EdgeIds
    BY <1>0 DEF TypeOK
  <1>12. /\ nodeHistory[id].row = mvccNodes[id].row
         /\ nodeHistory[id].createdAtVersion = mvccNodes[id].createdAtVersion
         /\ nodeHistory[id].deletedAtVersion = version
    <2>. HIDE DEF nodeHistory, version
    <2>. QED  BY <1>9, <1>11 DEF RowVersion
  <1>13. \A e \in gone :
           /\ edgeHistory[e].row = mvccEdges[e].row
           /\ edgeHistory[e].createdAtVersion = mvccEdges[e].createdAtVersion
           /\ edgeHistory[e].deletedAtVersion = CascadeStamp(id)[e]
    <2>. HIDE DEF edgeHistory, gone
    <2>. QED  BY <1>10, <1>11 DEF RowVersion
  <1>14. /\ DOMAIN mvccNodes' = DOMAIN nodeHistory \ goneNodes
         /\ \A n \in DOMAIN mvccNodes' : mvccNodes'[n] = nodeHistory[n]
         /\ mvccNodeOrder' = mvccNodeOrder \ goneNodes
         /\ DOMAIN mvccEdges' = DOMAIN edgeHistory \ goneEdges
         /\ \A e \in DOMAIN mvccEdges' : mvccEdges'[e] = edgeHistory[e]
    <2>1. GarbageCollect(nodeHistory, edgeHistory, Held, version)
      BY DEF DeleteNode
    <2>. HIDE DEF nodeHistory, edgeHistory, version
    <2>2. /\ mvccNodes' = Without(nodeHistory, goneNodes)
          /\ mvccNodeOrder' = mvccNodeOrder \ goneNodes
          /\ mvccEdges' = Without(edgeHistory, goneEdges)
      BY <2>1 DEF GarbageCollect
    <2>. HIDE DEF goneNodes, goneEdges
    <2>3. /\ DOMAIN mvccNodes' = DOMAIN nodeHistory \ goneNodes
          /\ DOMAIN mvccEdges' = DOMAIN edgeHistory \ goneEdges
      BY <2>2, WithoutMap
    <2>4. /\ \A n \in DOMAIN mvccNodes' : mvccNodes'[n] = nodeHistory[n]
          /\ \A e \in DOMAIN mvccEdges' : mvccEdges'[e] = edgeHistory[e]
      BY <2>2, <2>3 DEF Without, Restrict
    <2>. QED  BY <2>2, <2>3, <2>4
  <1>15. /\ \A n \in goneNodes : nodeHistory[n].deletedAtVersion # 0
         /\ \A e \in goneEdges : edgeHistory[e].deletedAtVersion # 0
    BY DEF Reclaimable
  <1>16. /\ \A n \in DOMAIN nodeHistory : nodeHistory[n].deletedAtVersion \in Versions
         /\ \A e \in DOMAIN edgeHistory : edgeHistory[e].deletedAtVersion \in Versions
    <2>1. \A n \in DOMAIN nodeHistory : nodeHistory[n].deletedAtVersion \in Versions
      <3>. HIDE DEF nodeHistory, version
      <3>. QED  BY <1>8, <1>9, <1>11, <1>12 DEF RowVersion
    <2>2. \A e \in gone : CascadeStamp(id)[e] \in Versions
      BY <1>8, BoundsAssumption DEF Versions
    <2>3. \A e \in DOMAIN edgeHistory : edgeHistory[e].deletedAtVersion \in Versions
      <3>. HIDE DEF edgeHistory, gone
      <3>. QED  BY <2>2, <1>10, <1>11, <1>13 DEF RowVersion
    <2>. QED  BY <2>1, <2>3
  <1>. HIDE DEF gone, version, nodeHistory, edgeHistory
  <1>17. FreshIds'
    BY <1>0, <1>3, <1>5, <1>6, <1>9, <1>10, <1>14 DEF FreshIds
  <1>18. StampsOrdered'
    <2>1. ASSUME NEW n \in DOMAIN mvccNodes'
          PROVE  Lifetime(mvccNodes[n])'
      <3>1. Lifetime(mvccNodes[n]) /\ n \in DOMAIN mvccNodes /\ mvccNodes'[n] = nodeHistory[n]
        BY <1>0, <1>9, <1>14 DEF StampsOrdered
      <3>2. version \in Nat
        BY <1>8, BoundsAssumption DEF Versions
      <3>3. CASE n = id
        BY <3>1, <3>2, <3>3, <1>3, <1>8, <1>12 DEF Lifetime
      <3>4. CASE n # id
        BY <3>1, <3>2, <3>4, <1>3, <1>8, <1>9 DEF Lifetime
      <3>. QED  BY <3>3, <3>4
    <2>2. ASSUME NEW e \in DOMAIN mvccEdges'
          PROVE  Lifetime(mvccEdges[e])'
      <3>1. Lifetime(mvccEdges[e]) /\ e \in DOMAIN mvccEdges /\ mvccEdges'[e] = edgeHistory[e]
        BY <1>0, <1>10, <1>14 DEF StampsOrdered
      <3>2. version \in Nat
        BY <1>8, BoundsAssumption DEF Versions
      <3>3. CASE e \in gone
        BY <3>1, <3>2, <3>3, <1>3, <1>8, <1>13 DEF Lifetime
      <3>4. CASE e \notin gone
        BY <3>1, <3>2, <3>4, <1>3, <1>8, <1>10 DEF Lifetime
      <3>. QED  BY <3>3, <3>4
    <2>. QED  BY <2>1, <2>2 DEF StampsOrdered
  <1>19. IndexesMatchLive'
    <2>1. EndpointsLive'
      BY <1>0, <1>5, <1>6, <1>7 DEF IndexesMatchLive, EndpointsLive
    <2>2. \A l \in Labels : labelToNodes'[l] = {n \in DOMAIN nodes' : nodes'[n].label = l}
      <3>1. nodes[id].label \in Labels
        BY <1>0 DEF TypeOK, Node
      <3>2. labelToNodes \in [Labels -> SUBSET NodeIds]
        BY <1>0 DEF TypeOK
      <3>3. ASSUME NEW l \in Labels
            PROVE  labelToNodes'[l] = labelToNodes[l] \ {id}
        <4>1. l # nodes[id].label => id \notin labelToNodes[l]
          BY <1>0 DEF IndexesMatchLive
        <4>. QED  BY <4>1, <3>1, <3>2, <1>3
      <3>4. \A l \in Labels : labelToNodes[l] = {n \in DOMAIN nodes : nodes[n].label = l}
        BY <1>0 DEF IndexesMatchLive
      <3>. QED  BY <3>3, <3>4, <1>5
    <2>3. /\ AdjacencyWithout(adjacencyOut, From, gone) \in [NodeIds -> SUBSET EdgeIds]
          /\ AdjacencyWithout(adjacencyIn, To, gone) \in [NodeIds -> SUBSET EdgeIds]
      BY <1>0, <1>3, RemoveEdgesType
    <2>4. \A n \in NodeIds :
            /\ adjacencyOut'[n] = {e \in DOMAIN edges' : edges'[e].from = n}
            /\ adjacencyIn'[n] = {e \in DOMAIN edges' : edges'[e].to = n}
      BY <2>3, <1>4, <1>6, <1>7
    <2>5. nodeInsertionOrder' = DOMAIN nodes'
      BY <1>0, <1>3, <1>5 DEF IndexesMatchLive
    <2>. QED  BY <2>1, <2>2, <2>4, <2>5, <1>6 DEF IndexesMatchLive
  <1>20. NeighboursAreEdges'
    <2>. DEFINE out == NeighboursWithout(neighbourOut, From, To, gone)
                in == NeighboursWithout(neighbourIn, To, From, gone)
    <2>1. ASSUME NEW n \in NodeIds, NEW m \in NodeIds
          PROVE  /\ neighbourOut'[n][m] = neighbourIn'[m][n]
                 /\ neighbourOut'[n][m] > 0 => EdgesBetween(n, m)' # {}
      <3>1. /\ out[n][m] = in[m][n]
            /\ out[n][m] > 0 => EdgesBetween(n, m)' # {}
        BY <1>0, <1>2, <1>3, RemoveEdgesNeighbours
      <3>2. /\ out \in [NodeIds -> [NodeIds -> Nat]]
            /\ in \in [NodeIds -> [NodeIds -> Nat]]
        BY <1>0, <1>3, RemoveEdgesType
      <3>3. id \in {n, m} => out[n][m] = 0
        <4>1. ~(out[n][m] > 0) \/ id \notin {n, m}
          BY <3>1, <1>7 DEF EdgesBetween
        <4>2. out[n][m] \in Nat
          BY <3>2
        <4>. QED  BY <4>1, <4>2
      <3>4. neighbourOut'[n][m] = IF n = id THEN 0 ELSE out[n][m]
        <4>. HIDE DEF out
        <4>. QED  BY <3>2, <1>4 DEF out
      <3>5. neighbourIn'[m][n] = IF m = id THEN 0 ELSE in[m][n]
        <4>. HIDE DEF in
        <4>. QED  BY <3>2, <1>4 DEF in
      <3>. HIDE DEF out, in
      <3>. QED  BY <3>1, <3>3, <3>4, <3>5
    <2>. QED  BY <2>1 DEF NeighboursAreEdges
  <1>21. HistoryMirrorsLive'
    <2>1. ASSUME NEW n \in DOMAIN mvccNodes'
          PROVE  mvccNodes'[n].deletedAtVersion = 0 <=> n \in DOMAIN nodes'
      <3>1. n \in DOMAIN mvccNodes /\ mvccNodes'[n] = nodeHistory[n]
        BY <1>9, <1>14
      <3>2. mvccNodes[n].deletedAtVersion = 0 <=> n \in DOMAIN nodes
        BY <3>1, <1>0 DEF HistoryMirrorsLive
      <3>3. version # 0
        BY <1>8
      <3>4. CASE n = id
        BY <3>1, <3>3, <3>4, <1>5, <1>12
      <3>5. CASE n # id
        BY <3>1, <3>2, <3>5, <1>5, <1>9
      <3>. QED  BY <3>4, <3>5
    <2>2. DOMAIN nodes' \subseteq DOMAIN mvccNodes'
      BY <1>0, <1>5, <1>9, <1>14, <1>15 DEF HistoryMirrorsLive
    <2>3. \A e \in DOMAIN mvccEdges' : mvccEdges'[e].deletedAtVersion = 0 <=> e \in DOMAIN edges'
      BY <1>0, <1>6, <1>8, <1>10, <1>13, <1>14 DEF HistoryMirrorsLive
    <2>4. DOMAIN edges' \subseteq DOMAIN mvccEdges'
      BY <1>0, <1>6, <1>10, <1>14, <1>15 DEF HistoryMirrorsLive
    <2>5. \A n \in DOMAIN nodes' : mvccNodes'[n].row = nodes'[n]
      BY <2>2, <1>0, <1>5, <1>9, <1>14 DEF HistoryMirrorsLive
    <2>6. \A e \in DOMAIN edges' : mvccEdges'[e].row = edges'[e]
      BY <2>4, <1>0, <1>6, <1>10, <1>14 DEF HistoryMirrorsLive
    <2>7. mvccNodeOrder' = DOMAIN mvccNodes'
      BY <1>0, <1>9, <1>14 DEF HistoryMirrorsLive
    <2>. QED  BY <2>1, <2>2, <2>3, <2>4, <2>5, <2>6, <2>7 DEF HistoryMirrorsLive
  <1>22. EndpointHistoryRetained'
    <2>. SUFFICES ASSUME NEW e \in DOMAIN mvccEdges',
                         NEW n \in {mvccEdges'[e].row.from, mvccEdges'[e].row.to}
                  PROVE  /\ n \in DOMAIN mvccNodes'
                         /\ mvccNodes'[n].deletedAtVersion # 0 =>
                              /\ mvccEdges'[e].deletedAtVersion # 0
                              /\ mvccEdges'[e].deletedAtVersion < mvccNodes'[n].deletedAtVersion
      BY DEF EndpointHistoryRetained
    <2>1. /\ e \in DOMAIN mvccEdges /\ e \in DOMAIN edgeHistory /\ e \notin goneEdges
          /\ mvccEdges'[e] = edgeHistory[e] /\ edgeHistory[e].row = mvccEdges[e].row
      BY <1>10, <1>13, <1>14
    <2>2. /\ n \in DOMAIN mvccNodes
          /\ mvccNodes[n].deletedAtVersion # 0 =>
               /\ mvccEdges[e].deletedAtVersion # 0
               /\ mvccEdges[e].deletedAtVersion < mvccNodes[n].deletedAtVersion
      BY <2>1, <1>0 DEF EndpointHistoryRetained
    \* Before the collection, the deletions are in order.
    <2>3. nodeHistory[n].deletedAtVersion # 0 =>
            /\ edgeHistory[e].deletedAtVersion # 0
            /\ edgeHistory[e].deletedAtVersion < nodeHistory[n].deletedAtVersion
      <3>1. CASE n = id
        <4>1. CASE e \in gone
          <5>1. CascadeStamp(id)[e] \in currentVersion + 1 .. version - 1 /\ version \in Nat
            BY <4>1, <1>8, BoundsAssumption DEF Versions
          <5>. QED  BY <5>1, <4>1, <3>1, <1>8, <1>12, <1>13
        <4>2. CASE e \notin gone
          <5>1. e \notin DOMAIN edges
            BY <4>2, <3>1, <2>1, <1>0, <1>2 DEF HistoryMirrorsLive
          <5>2. mvccEdges[e].deletedAtVersion # 0
            BY <5>1, <2>1, <1>0 DEF HistoryMirrorsLive
          <5>3. mvccEdges[e].deletedAtVersion \in mvccEdges[e].createdAtVersion + 1 .. currentVersion
            BY <5>2, <2>1, <1>0 DEF StampsOrdered, Lifetime
          <5>4. mvccEdges[e].deletedAtVersion \in Nat /\ version \in Nat
            BY <2>1, <1>8, <1>11, BoundsAssumption DEF RowVersion, Versions
          <5>. QED  BY <5>2, <5>3, <5>4, <4>2, <3>1, <2>1, <1>8, <1>10, <1>12
        <4>. QED  BY <4>1, <4>2
      <3>2. CASE n # id
        <4>1. nodeHistory[n] = mvccNodes[n]
          BY <3>2, <2>2, <1>9
        <4>2. CASE e \in gone
          BY <4>1, <4>2, <2>2, <1>10
        <4>3. CASE e \notin gone
          BY <4>1, <4>3, <2>1, <2>2, <1>10
        <4>. QED  BY <4>2, <4>3
      <3>. QED  BY <3>1, <3>2
    <2>4. n \notin goneNodes
      <3>. SUFFICES ASSUME n \in goneNodes PROVE FALSE
        OBVIOUS
      <3>1. nodeHistory[n].deletedAtVersion # 0
        BY <1>15
      <3>2. Held \in SUBSET Versions
        BY DEF Held
      <3>3. e \in goneEdges
        BY <3>1, <3>2, <2>1, <2>2, <2>3, <1>8, <1>9, <1>16, CollectedTogether
      <3>. QED  BY <3>3, <2>1
    <2>. QED  BY <2>1, <2>2, <2>3, <2>4, <1>9, <1>14
  <1>23. NoNodeGarbage'
    <2>1. Held' = Held
      BY <1>3 DEF Held
    <2>2. ASSUME Held = {}, NEW n \in DOMAIN mvccNodes
          PROVE  nodeHistory[n].deletedAtVersion # 0 => n \in goneNodes
      <3>1. CASE n = id
        <4>1. nodeHistory[n].deletedAtVersion <= version /\ n \in DOMAIN nodeHistory
          BY <3>1, <1>8, <1>9, <1>12
        <4>. QED  BY <4>1, <2>2 DEF Reclaimable
      <3>2. CASE n # id
        BY <3>2, <2>2, <1>9 DEF IInv, NoNodeGarbage
      <3>. QED  BY <3>1, <3>2
    <2>. QED  BY <2>1, <2>2, <1>9, <1>14 DEF NoNodeGarbage
  <1>24. LabelsListed'
    <2>1. UNCHANGED <<nodeLabels, edgeLabels>>
      BY <1>3
    <2>2. /\ DOMAIN nodes' \subseteq DOMAIN nodes
          /\ \A n \in DOMAIN nodes' : nodes'[n] = nodes[n]
      BY <1>5
    <2>3. /\ DOMAIN edges' \subseteq DOMAIN edges
          /\ \A e \in DOMAIN edges' : edges'[e] = edges[e]
      BY <1>6
    <2>4. LabelsListed
      BY DEF IInv
    <2>. HIDE DEF gone, version
    <2>. QED  BY <2>1, <2>2, <2>3, <2>4 DEF LabelsListed
  <1>. QED
    BY <1>24, <1>1, <1>17, <1>18, <1>19, <1>20, <1>21, <1>22, <1>23 DEF IInv

-----------------------------------------------------------------------------
\* Updates and captures

LEMMA UpdateNodePropertiesInv ==
    ASSUME IInv, NEW id \in NodeIds, NEW u \in Properties, UpdateNodeProperties(id, u)
    PROVE  IInv'
  <1>. DEFINE node == [nodes[id] EXCEPT !.properties = Merge(@, u)]
  <1>0. /\ TypeOK /\ FreshIds /\ IndexesMatchLive /\ NeighboursAreEdges
        /\ HistoryMirrorsLive /\ StampsOrdered /\ EndpointHistoryRetained
        /\ id \in DOMAIN nodes /\ id \in DOMAIN mvccNodes
    BY DEF IInv, UpdateNodeProperties, HistoryMirrorsLive
  <1>1. TypeOK'
    BY <1>0, UpdateNodePropertiesType
  <1>2. /\ nodes' = [nodes EXCEPT ![id] = node]
        /\ mvccNodes' = Put(mvccNodes, id, Born(node))
        /\ mvccNodeOrder' = mvccNodeOrder
        /\ currentVersion' = currentVersion + 1
        /\ UNCHANGED <<nextNodeID, labelToNodes, nodeInsertionOrder, nextEdgeID, edges,
                       labelToEdges, edgeInsertionOrder, adjacencyOut, adjacencyIn,
                       neighbourOut, neighbourIn, nodeLabels, edgeLabels,
                       activeSnapshots, mvccEdges>>
    BY <1>0 DEF UpdateNodeProperties, edgeVars, adjacencyVars
  <1>3. node.label = nodes[id].label
    BY <1>0 DEF TypeOK, Node
  <1>4. /\ Born(node).row = node
        /\ Born(node).createdAtVersion = currentVersion + 1
        /\ Born(node).deletedAtVersion = 0
    BY DEF Born
  <1>. HIDE DEF node
  <1>5. /\ DOMAIN nodes' = DOMAIN nodes /\ nodes'[id] = node
        /\ \A n \in DOMAIN nodes \ {id} : nodes'[n] = nodes[n]
    BY <1>0, <1>2
  <1>6. /\ DOMAIN mvccNodes' = DOMAIN mvccNodes /\ mvccNodes'[id] = Born(node)
        /\ \A n \in DOMAIN mvccNodes \ {id} : mvccNodes'[n] = mvccNodes[n]
    BY <1>0, <1>2 DEF Put
  <1>7. mvccNodes[id].deletedAtVersion = 0
    BY <1>0 DEF HistoryMirrorsLive
  <1>8. currentVersion \in Nat
    BY <1>0, BoundsAssumption DEF TypeOK, Versions
  <1>9. FreshIds'
    BY <1>0, <1>2, <1>5, <1>6 DEF FreshIds
  <1>10. StampsOrdered'
    <2>1. ASSUME NEW n \in DOMAIN mvccNodes'
          PROVE  Lifetime(mvccNodes[n])'
      <3>1. CASE n = id
        BY <3>1, <1>2, <1>4, <1>6, <1>8 DEF Lifetime
      <3>2. CASE n # id
        BY <3>2, <1>0, <1>2, <1>6, <1>8 DEF StampsOrdered, Lifetime
      <3>. QED  BY <3>1, <3>2
    <2>2. ASSUME NEW e \in DOMAIN mvccEdges'
          PROVE  Lifetime(mvccEdges[e])'
      BY <1>0, <1>2, <1>8 DEF StampsOrdered, Lifetime
    <2>. QED  BY <2>1, <2>2 DEF StampsOrdered
  <1>11. IndexesMatchLive'
    <2>1. \A n \in DOMAIN nodes : nodes'[n].label = nodes[n].label
      BY <1>3, <1>5
    <2>2. \A l \in Labels : labelToNodes'[l] = {n \in DOMAIN nodes' : nodes'[n].label = l}
      BY <2>1, <1>0, <1>2, <1>5 DEF IndexesMatchLive
    <2>3. EndpointsLive'
      BY <1>0, <1>2, <1>5 DEF IndexesMatchLive, EndpointsLive
    <2>. QED  BY <2>2, <2>3, <1>0, <1>2, <1>5 DEF IndexesMatchLive
  <1>12. NeighboursAreEdges'
    BY <1>0, <1>2 DEF NeighboursAreEdges, EdgesBetween
  <1>13. HistoryMirrorsLive'
    BY <1>0, <1>2, <1>4, <1>5, <1>6, <1>7 DEF HistoryMirrorsLive
  <1>14. EndpointHistoryRetained'
    BY <1>0, <1>2, <1>4, <1>6 DEF EndpointHistoryRetained
  <1>15. NoNodeGarbage'
    BY <1>2, <1>4, <1>6 DEF IInv, NoNodeGarbage, Held
  <1>16. LabelsListed'
    <2>1. \A n \in DOMAIN nodes : nodes'[n].label = nodes[n].label
      BY <1>3, <1>5
    <2>. QED  BY <2>1, <1>2, <1>5 DEF IInv, LabelsListed
  <1>. QED
    BY <1>16, <1>1, <1>9, <1>10, <1>11, <1>12, <1>13, <1>14, <1>15 DEF IInv

LEMMA UpdateEdgeLabelInv ==
    ASSUME IInv, NEW id \in EdgeIds, NEW l \in Labels, UpdateEdgeLabel(id, l)
    PROVE  IInv'
  <1>. DEFINE edge == [edges[id] EXCEPT !.label = l]
  <1>0. /\ TypeOK /\ FreshIds /\ IndexesMatchLive /\ NeighboursAreEdges
        /\ HistoryMirrorsLive /\ StampsOrdered /\ EndpointHistoryRetained
        /\ id \in DOMAIN edges /\ id \in DOMAIN mvccEdges
        /\ edges[id].label # l
    BY DEF IInv, UpdateEdgeLabel, HistoryMirrorsLive
  <1>1. TypeOK'
    BY <1>0, UpdateEdgeLabelType
  <1>2. /\ edges' = [edges EXCEPT ![id] = edge]
        /\ mvccEdges' = Put(mvccEdges, id, Born(edge))
        /\ labelToEdges' = [labelToEdges EXCEPT ![edges[id].label] = @ \ {id},
                                                ![l] = @ \cup {id}]
        /\ currentVersion' = currentVersion + 1
        /\ edgeLabels' = edgeLabels \cup {l} /\ nodeLabels' = nodeLabels
        /\ UNCHANGED <<nextEdgeID, edgeInsertionOrder, adjacencyOut, adjacencyIn,
                       neighbourOut, neighbourIn, nextNodeID, nodes, labelToNodes,
                       nodeInsertionOrder, activeSnapshots, mvccNodes, mvccNodeOrder>>
    BY DEF UpdateEdgeLabel, adjacencyVars, nodeVars
  <1>3. /\ edges[id].label \in Labels
        /\ edge.label = l /\ edge.from = edges[id].from /\ edge.to = edges[id].to
    BY <1>0 DEF TypeOK, Edge
  <1>4. /\ Born(edge).row = edge
        /\ Born(edge).createdAtVersion = currentVersion + 1
        /\ Born(edge).deletedAtVersion = 0
    BY DEF Born
  <1>. HIDE DEF edge
  <1>5. /\ DOMAIN edges' = DOMAIN edges /\ edges'[id] = edge
        /\ \A e \in DOMAIN edges \ {id} : edges'[e] = edges[e]
    BY <1>0, <1>2
  <1>6. /\ DOMAIN mvccEdges' = DOMAIN mvccEdges /\ mvccEdges'[id] = Born(edge)
        /\ \A e \in DOMAIN mvccEdges \ {id} : mvccEdges'[e] = mvccEdges[e]
    BY <1>0, <1>2 DEF Put
  <1>7. mvccEdges[id].deletedAtVersion = 0 /\ mvccEdges[id].row = edges[id]
    BY <1>0 DEF HistoryMirrorsLive
  <1>8. currentVersion \in Nat
    BY <1>0, BoundsAssumption DEF TypeOK, Versions
  <1>9. FreshIds'
    BY <1>0, <1>2, <1>5, <1>6 DEF FreshIds
  <1>10. StampsOrdered'
    <2>1. ASSUME NEW e \in DOMAIN mvccEdges'
          PROVE  Lifetime(mvccEdges[e])'
      <3>1. CASE e = id
        BY <3>1, <1>2, <1>4, <1>6, <1>8 DEF Lifetime
      <3>2. CASE e # id
        BY <3>2, <1>0, <1>2, <1>6, <1>8 DEF StampsOrdered, Lifetime
      <3>. QED  BY <3>1, <3>2
    <2>2. ASSUME NEW n \in DOMAIN mvccNodes'
          PROVE  Lifetime(mvccNodes[n])'
      BY <1>0, <1>2, <1>8 DEF StampsOrdered, Lifetime
    <2>. QED  BY <2>1, <2>2 DEF StampsOrdered
  <1>11. \A e \in DOMAIN edges : edges'[e].from = edges[e].from /\ edges'[e].to = edges[e].to
    BY <1>3, <1>5
  <1>12. IndexesMatchLive'
    <2>1. EndpointsLive'
      BY <1>0, <1>2, <1>5, <1>11 DEF IndexesMatchLive, EndpointsLive
    <2>2. ASSUME NEW k \in Labels
          PROVE  labelToEdges'[k] = {e \in DOMAIN edges' : edges'[e].label = k}
      <3>1. labelToEdges[k] = {e \in DOMAIN edges : edges[e].label = k}
        BY <1>0 DEF IndexesMatchLive
      <3>2. labelToEdges'[k] = IF k = l THEN labelToEdges[k] \cup {id}
                               ELSE IF k = edges[id].label THEN labelToEdges[k] \ {id}
                               ELSE labelToEdges[k]
        BY <1>0, <1>2, <1>3 DEF TypeOK
      <3>. QED  BY <3>1, <3>2, <1>0, <1>3, <1>5
    <2>3. \A n \in NodeIds :
            /\ adjacencyOut'[n] = {e \in DOMAIN edges' : edges'[e].from = n}
            /\ adjacencyIn'[n] = {e \in DOMAIN edges' : edges'[e].to = n}
      BY <1>0, <1>2, <1>5, <1>11 DEF IndexesMatchLive
    <2>. QED  BY <2>1, <2>2, <2>3, <1>0, <1>2, <1>5 DEF IndexesMatchLive
  <1>13. NeighboursAreEdges'
    <2>1. \A n, m \in NodeIds : EdgesBetween(n, m)' = EdgesBetween(n, m)
      BY <1>5, <1>11 DEF EdgesBetween
    <2>. QED  BY <2>1, <1>0, <1>2 DEF NeighboursAreEdges
  <1>14. HistoryMirrorsLive'
    BY <1>0, <1>2, <1>4, <1>5, <1>6, <1>7 DEF HistoryMirrorsLive
  <1>15. EndpointHistoryRetained'
    BY <1>0, <1>2, <1>3, <1>4, <1>6, <1>7 DEF EndpointHistoryRetained
  <1>16. NoNodeGarbage'
    BY <1>2 DEF IInv, NoNodeGarbage, Held
  <1>17. LabelsListed'
    <2>1. \A e \in DOMAIN edges' : edges'[e].label \in {edges[e].label, l}
      BY <1>3, <1>5
    <2>. QED  BY <2>1, <1>2, <1>5 DEF IInv, LabelsListed
  <1>. QED
    BY <1>17, <1>1, <1>9, <1>10, <1>12, <1>13, <1>14, <1>15, <1>16 DEF IInv

LEMMA CaptureSnapshotInv ==
    ASSUME IInv, CaptureSnapshot
    PROVE  IInv'
  <1>0. TypeOK
    BY DEF IInv
  <1>1. TypeOK'
    BY <1>0, CaptureSnapshotType
  <1>2. UNCHANGED <<nextNodeID, nodes, labelToNodes, nodeInsertionOrder, nextEdgeID, edges,
                    labelToEdges, edgeInsertionOrder, adjacencyOut, adjacencyIn,
                    neighbourOut, neighbourIn, nodeLabels, edgeLabels, currentVersion,
                    mvccNodes, mvccEdges, mvccNodeOrder>>
    BY DEF CaptureSnapshot, nodeVars, edgeVars, adjacencyVars, historyVars
  <1>3. NoNodeGarbage'
    <2>1. activeSnapshots'[currentVersion] > 0 /\ currentVersion \in Versions
      BY <1>0 DEF CaptureSnapshot, TypeOK
    <2>. QED  BY <2>1 DEF NoNodeGarbage, Held
  <1>4. FreshIds' /\ LabelsListed' /\ StampsOrdered'
    BY <1>2 DEF IInv, FreshIds, LabelsListed, StampsOrdered, Lifetime
  <1>5. IndexesMatchLive' /\ NeighboursAreEdges'
    BY <1>2 DEF IInv, IndexesMatchLive, EndpointsLive, NeighboursAreEdges, EdgesBetween
  <1>6. HistoryMirrorsLive' /\ EndpointHistoryRetained'
    BY <1>2 DEF IInv, HistoryMirrorsLive, EndpointHistoryRetained
  <1>. QED  BY <1>1, <1>3, <1>4, <1>5, <1>6 DEF IInv

-----------------------------------------------------------------------------
\* The theorems

LEMMA InitInv == Init => IInv
  <1>. SUFFICES ASSUME Init PROVE IInv
    OBVIOUS
  <1>1. TypeOK
    BY BoundsAssumption
    DEF Init, TypeOK, EmptyMap, Versions, NodeIds, EdgeIds, RowVersion
  <1>2. FreshIds /\ LabelsListed /\ StampsOrdered
    BY DEF Init, EmptyMap, FreshIds, LabelsListed, StampsOrdered
  <1>3. IndexesMatchLive /\ NeighboursAreEdges
    BY DEF Init, EmptyMap, IndexesMatchLive, EndpointsLive, NeighboursAreEdges
  <1>4. HistoryMirrorsLive /\ EndpointHistoryRetained /\ NoNodeGarbage
    BY DEF Init, EmptyMap, HistoryMirrorsLive, EndpointHistoryRetained, NoNodeGarbage
  <1>. QED  BY <1>1, <1>2, <1>3, <1>4 DEF IInv

LEMMA NextInv == IInv /\ [Next]_vars => IInv'
  <1>. SUFFICES ASSUME IInv, [Next]_vars PROVE IInv'
    OBVIOUS
  <1>1. CASE \E l \in Labels, p \in Properties : CreateNode(l, p)
    BY <1>1, CreateNodeInv
  <1>2. CASE \E a, b \in NodeIds, l \in Labels : CreateEdge(a, b, l)
    BY <1>2, CreateEdgeInv
  <1>3. CASE \E e \in EdgeIds : DeleteEdge(e)
    BY <1>3, DeleteEdgeInv
  <1>4. CASE \E n \in NodeIds : DeleteNode(n)
    BY <1>4, DeleteNodeInv
  <1>5. CASE \E n \in NodeIds, p \in Properties : UpdateNodeProperties(n, p)
    BY <1>5, UpdateNodePropertiesInv
  <1>6. CASE \E e \in EdgeIds, l \in Labels : UpdateEdgeLabel(e, l)
    BY <1>6, UpdateEdgeLabelInv
  <1>7. CASE CaptureSnapshot
    BY <1>7, CaptureSnapshotInv
  <1>8. CASE \E v \in Versions : ReleaseSnapshot(v)
    BY <1>8, ReleaseSnapshotInv
  <1>9. CASE UNCHANGED vars
    <2>1. UNCHANGED <<nextNodeID, nodes, labelToNodes, nodeInsertionOrder, nextEdgeID, edges,
                      labelToEdges, edgeInsertionOrder, adjacencyOut, adjacencyIn,
                      neighbourOut, neighbourIn, nodeLabels, edgeLabels, currentVersion, activeSnapshots,
                      mvccNodes, mvccEdges, mvccNodeOrder>>
      BY <1>9 DEF vars, nodeVars, edgeVars, adjacencyVars, historyVars
    <2>2. TypeOK' /\ FreshIds' /\ LabelsListed' /\ StampsOrdered'
      BY <2>1 DEF IInv, TypeOK, FreshIds, LabelsListed, StampsOrdered, Lifetime
    <2>3. IndexesMatchLive' /\ NeighboursAreEdges'
      BY <2>1 DEF IInv, IndexesMatchLive, EndpointsLive, NeighboursAreEdges, EdgesBetween
    <2>4. HistoryMirrorsLive' /\ EndpointHistoryRetained' /\ NoNodeGarbage'
      BY <2>1 DEF IInv, HistoryMirrorsLive, EndpointHistoryRetained, NoNodeGarbage, Held
    <2>. QED  BY <2>2, <2>3, <2>4 DEF IInv
  <1>. QED
    BY <1>1, <1>2, <1>3, <1>4, <1>5, <1>6, <1>7, <1>8, <1>9 DEF Next

\* The inductive invariant holds in every state of the graph, whatever the
\* bounds: every operation of the class Graph preserves it.
THEOREM Invariance == Spec => []IInv
  BY InitInv, NextInv, PTL DEF Spec

\* The state of the class stays within its types: among others no registration
\* count goes below zero and every version stamp is one that was handed out.
THEOREM TypeCorrect == Spec => []TypeOK
  <1>1. IInv => TypeOK
    BY DEF IInv
  <1>. QED  BY <1>1, Invariance, PTL

\* Label index, adjacency lists and insertion orders of Graph.h always name
\* exactly the live rows, and no edge dangles.
THEOREM IndexesCorrect == Spec => []IndexesMatchLive
  <1>1. IInv => IndexesMatchLive
    BY DEF IInv
  <1>. QED  BY <1>1, Invariance, PTL

\* The neighbour lists of the searchers never lead along a deleted edge.
THEOREM NeighboursCorrect == Spec => []NeighboursAreEdges
  <1>1. IInv => NeighboursAreEdges
    BY DEF IInv
  <1>. QED  BY <1>1, Invariance, PTL

\* The MVCC history without its tombstones is the live graph.
THEOREM HistoryCorrect == Spec => []HistoryMirrorsLive
  <1>1. IInv => HistoryMirrorsLive
    BY DEF IInv
  <1>. QED  BY <1>1, Invariance, PTL

\* garbageCollect never takes a node record from under an edge record.
THEOREM EndpointsCorrect == Spec => []EndpointHistoryRetained
  <1>1. IInv => EndpointHistoryRetained
    BY DEF IInv
  <1>. QED  BY <1>1, Invariance, PTL

\* Without snapshots no tombstone of a node is kept.
THEOREM NodeGarbageCollected == Spec => []NoNodeGarbage
  <1>1. IInv => NoNodeGarbage
    BY DEF IInv
  <1>. QED  BY <1>1, Invariance, PTL

-----------------------------------------------------------------------------
\* Version stamps are unique.  A mutation adds stamps above the current version
\* and its garbage collection only takes stamps away, so all there is to show is
\* that the stamps of one mutation differ: for a cascade, that its deletions are
\* numbered without repetition.

\* The stamps of one of the two histories.
Events(kind, history) ==
    {<<kind, x, "create", history[x].createdAtVersion>> : x \in DOMAIN history}
    \cup {<<kind, x, "delete", history[x].deletedAtVersion>> :
            x \in {y \in DOMAIN history : history[y].deletedAtVersion # 0}}

LEMMA EventForms ==
    ASSUME NEW kind, NEW history, NEW s \in Events(kind, history)
    PROVE  \E x \in DOMAIN history :
             \/ s = <<kind, x, "create", history[x].createdAtVersion>>
             \/ history[x].deletedAtVersion # 0 /\ s = <<kind, x, "delete", history[x].deletedAtVersion>>
  BY Zenon DEF Events

LEMMA EventMembers ==
    ASSUME NEW kind, NEW history, NEW x \in DOMAIN history
    PROVE  /\ <<kind, x, "create", history[x].createdAtVersion>> \in Events(kind, history)
           /\ history[x].deletedAtVersion # 0 =>
                <<kind, x, "delete", history[x].deletedAtVersion>> \in Events(kind, history)
  BY Zenon DEF Events

LEMMA StampsAreEvents ==
    ASSUME HistoryMirrorsLive
    PROVE  Stamps = Events("node", mvccNodes) \cup Events("edge", mvccEdges)
  <1>1. /\ DOMAIN mvccNodes \ DOMAIN nodes = {n \in DOMAIN mvccNodes : mvccNodes[n].deletedAtVersion # 0}
        /\ DOMAIN mvccEdges \ DOMAIN edges = {e \in DOMAIN mvccEdges : mvccEdges[e].deletedAtVersion # 0}
    BY DEF HistoryMirrorsLive
  <1>. QED  BY <1>1, Zenon DEF Stamps, Events

LEMMA NextStampsAreEvents ==
    ASSUME HistoryMirrorsLive'
    PROVE  Stamps' = Events("node", mvccNodes') \cup Events("edge", mvccEdges')
  <1>1. /\ DOMAIN mvccNodes' \ DOMAIN nodes' = {n \in DOMAIN mvccNodes' : mvccNodes'[n].deletedAtVersion # 0}
        /\ DOMAIN mvccEdges' \ DOMAIN edges' = {e \in DOMAIN mvccEdges' : mvccEdges'[e].deletedAtVersion # 0}
    BY DEF HistoryMirrorsLive
  <1>. QED  BY <1>1, Zenon DEF Stamps, Events

\* What the operations on a history do to its stamps.
LEMMA PutEvents ==
    ASSUME NEW kind, NEW history, NEW x, NEW record, record.deletedAtVersion = 0
    PROVE  Events(kind, Put(history, x, record))
             \subseteq Events(kind, history) \cup {<<kind, x, "create", record.createdAtVersion>>}
  <1>. DEFINE after == Put(history, x, record)
  <1>1. /\ DOMAIN after = DOMAIN history \cup {x}
        /\ after[x] = record
        /\ \A y \in DOMAIN history \ {x} : after[y] = history[y]
    BY DEF Put
  <1>. HIDE DEF after
  <1>2. ASSUME NEW s \in Events(kind, after)
        PROVE  s \in Events(kind, history) \cup {<<kind, x, "create", record.createdAtVersion>>}
    <2>1. PICK y \in DOMAIN after :
             \/ s = <<kind, y, "create", after[y].createdAtVersion>>
             \/ after[y].deletedAtVersion # 0 /\ s = <<kind, y, "delete", after[y].deletedAtVersion>>
      BY EventForms
    <2>2. CASE y = x
      BY <2>1, <2>2, <1>1
    <2>3. CASE y # x
      <3>1. y \in DOMAIN history /\ after[y] = history[y]
        BY <2>1, <2>3, <1>1
      <3>. QED  BY <2>1, <3>1, EventMembers
    <2>. QED  BY <2>2, <2>3
  <1>. QED  BY <1>2 DEF after

LEMMA TombstoneEvents ==
    ASSUME NEW kind, NEW history, NEW stamp, NEW Row,
           history \in [DOMAIN history -> RowVersion(Row)]
    PROVE  Events(kind, Tombstone(history, stamp))
             \subseteq Events(kind, history) \cup {<<kind, x, "delete", stamp[x]>> : x \in DOMAIN stamp}
  <1>. DEFINE after == Tombstone(history, stamp)
  <1>1. DOMAIN after = DOMAIN history
    BY TombstoneMap
  <1>2. ASSUME NEW x \in DOMAIN history
        PROVE  /\ after[x].createdAtVersion = history[x].createdAtVersion
               /\ \/ after[x].deletedAtVersion = history[x].deletedAtVersion
                  \/ x \in DOMAIN stamp /\ after[x].deletedAtVersion = stamp[x]
    <2>1. history[x] \in RowVersion(Row)
      OBVIOUS
    <2>2. after[x] = IF x \in DOMAIN stamp /\ history[x].deletedAtVersion = 0
                     THEN [history[x] EXCEPT !.deletedAtVersion = stamp[x]]
                     ELSE history[x]
      BY TombstoneMap
    <2>. HIDE DEF after
    <2>. QED  BY <2>1, <2>2 DEF RowVersion
  <1>. HIDE DEF after
  <1>3. ASSUME NEW s \in Events(kind, after)
        PROVE  s \in Events(kind, history) \cup {<<kind, x, "delete", stamp[x]>> : x \in DOMAIN stamp}
    <2>1. PICK y \in DOMAIN after :
             \/ s = <<kind, y, "create", after[y].createdAtVersion>>
             \/ after[y].deletedAtVersion # 0 /\ s = <<kind, y, "delete", after[y].deletedAtVersion>>
      BY EventForms
    <2>2. y \in DOMAIN history
      BY <2>1, <1>1
    <2>3. CASE s = <<kind, y, "create", after[y].createdAtVersion>>
      BY <2>2, <2>3, <1>2, EventMembers
    <2>4. CASE /\ after[y].deletedAtVersion # 0
               /\ s = <<kind, y, "delete", after[y].deletedAtVersion>>
      <3>1. CASE after[y].deletedAtVersion = history[y].deletedAtVersion
        BY <2>2, <2>4, <3>1, EventMembers
      <3>2. CASE y \in DOMAIN stamp /\ after[y].deletedAtVersion = stamp[y]
        BY <2>4, <3>2, Zenon
      <3>. QED  BY <2>2, <3>1, <3>2, <1>2
    <2>. QED  BY <2>1, <2>3, <2>4
  <1>. QED  BY <1>3 DEF after

LEMMA WithoutEvents ==
    ASSUME NEW kind, NEW history, NEW gone
    PROVE  Events(kind, Without(history, gone)) \subseteq Events(kind, history)
  <1>1. /\ DOMAIN Without(history, gone) = DOMAIN history \ gone
        /\ \A x \in DOMAIN history \ gone : Without(history, gone)[x] = history[x]
    BY WithoutMap
  <1>2. ASSUME NEW s \in Events(kind, Without(history, gone))
        PROVE  s \in Events(kind, history)
    <2>1. PICK y \in DOMAIN Without(history, gone) :
             \/ s = <<kind, y, "create", Without(history, gone)[y].createdAtVersion>>
             \/ /\ Without(history, gone)[y].deletedAtVersion # 0
                /\ s = <<kind, y, "delete", Without(history, gone)[y].deletedAtVersion>>
      BY EventForms
    <2>. QED  BY <2>1, <1>1, EventMembers
  <1>. QED  BY <1>2

\* The order of a cascade is total, so its stamps differ.
LEMMA CascadeInjective ==
    ASSUME TypeOK, NEW id \in NodeIds, NEW d \in Incident(id), NEW e \in Incident(id),
           CascadeStamp(id)[d] = CascadeStamp(id)[e]
    PROVE  d = e
  <1>. DEFINE before(x) == {c \in Incident(id) : DeletedBefore(id, c, x)}
  <1>1. Incident(id) \subseteq Nat
    BY DEF Incident, TypeOK, EdgeIds
  <1>2. currentVersion \in Nat /\ IsFiniteSet(Incident(id))
    BY BoundsAssumption, CascadeBounds DEF TypeOK, Versions
  <1>3. \A x \in Incident(id) : /\ IsFiniteSet(before(x)) /\ Cardinality(before(x)) \in Nat
                                /\ CascadeStamp(id)[x] = currentVersion + 1 + Cardinality(before(x))
    <2>. SUFFICES ASSUME NEW x \in Incident(id)
                  PROVE  /\ IsFiniteSet(before(x)) /\ Cardinality(before(x)) \in Nat
                         /\ CascadeStamp(id)[x] = currentVersion + 1 + Cardinality(before(x))
      OBVIOUS
    <2>1. before(x) \in SUBSET Incident(id)
      OBVIOUS
    <2>2. CascadeStamp(id)[x] = currentVersion + 1 + Cardinality(before(x))
      BY DEF CascadeStamp
    <2>. HIDE DEF before
    <2>. QED  BY <2>1, <2>2, <1>2, FS_Subset, FS_CardinalityType
  <1>4. ASSUME NEW x \in Incident(id), NEW y \in Incident(id), DeletedBefore(id, x, y)
        PROVE  Cardinality(before(x)) < Cardinality(before(y))
    <2>1. before(x) \in SUBSET before(y) /\ x \in before(y) /\ x \notin before(x)
      BY <1>1, <1>4 DEF DeletedBefore
    <2>. HIDE DEF before
    <2>. QED  BY <2>1, <1>3, FS_Subset
  <1>5. d = e \/ DeletedBefore(id, d, e) \/ DeletedBefore(id, e, d)
    BY <1>1 DEF DeletedBefore
  <1>. HIDE DEF before
  <1>. QED  BY <1>2, <1>3, <1>4, <1>5

\* The argument every operation shares.
LEMMA NewStamps ==
    ASSUME IInv, IInv', StampsUnique, NEW New,
           Events("node", mvccNodes') \subseteq Events("node", mvccNodes) \cup New,
           Events("edge", mvccEdges') \subseteq Events("edge", mvccEdges) \cup New,
           \A s \in New : s[4] \in Nat /\ s[4] > currentVersion,
           \A s, t \in New : s[4] = t[4] => s = t
    PROVE  StampsUnique'
  <1>0. Stamps' \subseteq Stamps \cup New
    <2>1. HistoryMirrorsLive /\ HistoryMirrorsLive'
      BY DEF IInv
    <2>2. Stamps = Events("node", mvccNodes) \cup Events("edge", mvccEdges)
      BY <2>1, StampsAreEvents
    <2>3. Stamps' = Events("node", mvccNodes') \cup Events("edge", mvccEdges')
      BY <2>1, NextStampsAreEvents
    <2>. QED  BY <2>2, <2>3
  <1>1. \A s \in Stamps : s[4] \in 1 .. currentVersion
    BY DEF StampsUnique
  <1>2. currentVersion \in Nat
    BY BoundsAssumption DEF IInv, TypeOK, Versions
  <1>3. ASSUME NEW s \in Stamps \cup New, NEW t \in Stamps \cup New, s[4] = t[4]
        PROVE  s = t
    BY <1>1, <1>2, <1>3 DEF StampsUnique
  <1>4. ASSUME NEW s \in Stamps'
        PROVE  s[4] \in 1 .. currentVersion'
    <2>1. s \in Events("node", mvccNodes') \/ s \in Events("edge", mvccEdges')
      BY <1>4, NextStampsAreEvents DEF IInv
    <2>2. /\ \A n \in DOMAIN mvccNodes' : Lifetime(mvccNodes[n])'
          /\ \A e \in DOMAIN mvccEdges' : Lifetime(mvccEdges[e])'
      BY DEF IInv, StampsOrdered
    <2>3. currentVersion' \in Nat
      BY BoundsAssumption DEF IInv, TypeOK, Versions
    <2>4. CASE s \in Events("node", mvccNodes')
      BY <2>2, <2>3, <2>4, EventForms DEF Lifetime
    <2>5. CASE s \in Events("edge", mvccEdges')
      BY <2>2, <2>3, <2>5, EventForms DEF Lifetime
    <2>. QED  BY <2>1, <2>4, <2>5
  <1>. QED  BY <1>0, <1>3, <1>4 DEF StampsUnique

-----------------------------------------------------------------------------
\* The operations

LEMMA CreateNodeStamps ==
    ASSUME IInv, IInv', StampsUnique, NEW l \in Labels, NEW p \in Properties, CreateNode(l, p)
    PROVE  StampsUnique'
  <1>. DEFINE id == nextNodeID
              record == Born([label |-> l, properties |-> p])
              New == {<<"node", id, "create", currentVersion + 1>>}
  <1>1. id \notin DOMAIN mvccNodes
    BY CreateNodeFacts DEF IInv
  <1>2. mvccNodes' = Put(mvccNodes, id, record) /\ mvccEdges' = mvccEdges
    BY <1>1, EmplaceMap DEF CreateNode
  <1>3. record.deletedAtVersion = 0 /\ record.createdAtVersion = currentVersion + 1
    BY DEF Born
  <1>. HIDE DEF record
  <1>4. Events("node", mvccNodes') \subseteq Events("node", mvccNodes) \cup New
    BY <1>2, <1>3, PutEvents
  <1>5. currentVersion \in Nat
    BY BoundsAssumption DEF IInv, TypeOK, Versions
  <1>6. /\ \A s \in New : s[4] \in Nat /\ s[4] > currentVersion
        /\ \A s, t \in New : s[4] = t[4] => s = t
    BY <1>5
  <1>. HIDE DEF New
  <1>. QED  BY <1>2, <1>4, <1>6, NewStamps

LEMMA CreateEdgeStamps ==
    ASSUME IInv, IInv', StampsUnique, NEW a \in NodeIds, NEW b \in NodeIds, NEW l \in Labels,
           CreateEdge(a, b, l)
    PROVE  StampsUnique'
  <1>. DEFINE id == nextEdgeID
              record == Born([from |-> a, to |-> b, label |-> l])
              New == {<<"edge", id, "create", currentVersion + 1>>}
  <1>1. id \notin DOMAIN mvccEdges
    BY CreateEdgeFacts DEF IInv
  <1>2. mvccEdges' = Put(mvccEdges, id, record) /\ mvccNodes' = mvccNodes
    BY <1>1, EmplaceMap DEF CreateEdge
  <1>3. record.deletedAtVersion = 0 /\ record.createdAtVersion = currentVersion + 1
    BY DEF Born
  <1>. HIDE DEF record
  <1>4. Events("edge", mvccEdges') \subseteq Events("edge", mvccEdges) \cup New
    BY <1>2, <1>3, PutEvents
  <1>5. currentVersion \in Nat
    BY BoundsAssumption DEF IInv, TypeOK, Versions
  <1>6. /\ \A s \in New : s[4] \in Nat /\ s[4] > currentVersion
        /\ \A s, t \in New : s[4] = t[4] => s = t
    BY <1>5
  <1>. HIDE DEF New
  <1>. QED  BY <1>2, <1>4, <1>6, NewStamps

LEMMA UpdateNodePropertiesStamps ==
    ASSUME IInv, IInv', StampsUnique, NEW id \in NodeIds, NEW p \in Properties,
           UpdateNodeProperties(id, p)
    PROVE  StampsUnique'
  <1>. DEFINE record == Born([nodes[id] EXCEPT !.properties = Merge(@, p)])
              New == {<<"node", id, "create", currentVersion + 1>>}
  <1>1. mvccNodes' = Put(mvccNodes, id, record) /\ mvccEdges' = mvccEdges
    BY DEF UpdateNodeProperties
  <1>2. record.deletedAtVersion = 0 /\ record.createdAtVersion = currentVersion + 1
    BY DEF Born
  <1>. HIDE DEF record
  <1>3. Events("node", mvccNodes') \subseteq Events("node", mvccNodes) \cup New
    BY <1>1, <1>2, PutEvents
  <1>4. currentVersion \in Nat
    BY BoundsAssumption DEF IInv, TypeOK, Versions
  <1>5. /\ \A s \in New : s[4] \in Nat /\ s[4] > currentVersion
        /\ \A s, t \in New : s[4] = t[4] => s = t
    BY <1>4
  <1>. HIDE DEF New
  <1>. QED  BY <1>1, <1>3, <1>5, NewStamps

LEMMA UpdateEdgeLabelStamps ==
    ASSUME IInv, IInv', StampsUnique, NEW id \in EdgeIds, NEW l \in Labels, UpdateEdgeLabel(id, l)
    PROVE  StampsUnique'
  <1>. DEFINE record == Born([edges[id] EXCEPT !.label = l])
              New == {<<"edge", id, "create", currentVersion + 1>>}
  <1>1. mvccEdges' = Put(mvccEdges, id, record) /\ mvccNodes' = mvccNodes
    BY DEF UpdateEdgeLabel
  <1>2. record.deletedAtVersion = 0 /\ record.createdAtVersion = currentVersion + 1
    BY DEF Born
  <1>. HIDE DEF record
  <1>3. Events("edge", mvccEdges') \subseteq Events("edge", mvccEdges) \cup New
    BY <1>1, <1>2, PutEvents
  <1>4. currentVersion \in Nat
    BY BoundsAssumption DEF IInv, TypeOK, Versions
  <1>5. /\ \A s \in New : s[4] \in Nat /\ s[4] > currentVersion
        /\ \A s, t \in New : s[4] = t[4] => s = t
    BY <1>4
  <1>. HIDE DEF New
  <1>. QED  BY <1>1, <1>3, <1>5, NewStamps

LEMMA DeleteEdgeStamps ==
    ASSUME IInv, IInv', StampsUnique, NEW id \in EdgeIds, DeleteEdge(id)
    PROVE  StampsUnique'
  <1>. DEFINE stamp == [e \in {id} |-> currentVersion + 1]
              New == {<<"edge", id, "delete", currentVersion + 1>>}
  <1>1. mvccEdges' = Tombstone(mvccEdges, stamp) /\ mvccNodes' = mvccNodes
    BY DEF DeleteEdge
  <1>2. mvccEdges \in [DOMAIN mvccEdges -> RowVersion(Edge)]
    BY DEF IInv, TypeOK
  <1>3. {<<"edge", e, "delete", stamp[e]>> : e \in DOMAIN stamp} = New
    OBVIOUS
  <1>. HIDE DEF stamp
  <1>4. Events("edge", mvccEdges') \subseteq Events("edge", mvccEdges) \cup New
    BY <1>1, <1>2, <1>3, TombstoneEvents
  <1>5. currentVersion \in Nat
    BY BoundsAssumption DEF IInv, TypeOK, Versions
  <1>6. /\ \A s \in New : s[4] \in Nat /\ s[4] > currentVersion
        /\ \A s, t \in New : s[4] = t[4] => s = t
    BY <1>5
  <1>. HIDE DEF New
  <1>. QED  BY <1>1, <1>4, <1>6, NewStamps

LEMMA DeleteNodeStamps ==
    ASSUME IInv, IInv', StampsUnique, NEW id \in NodeIds, DeleteNode(id)
    PROVE  StampsUnique'
  <1>. DEFINE version == currentVersion + Cardinality(Incident(id)) + 1
              nodeStamp == [n \in {id} |-> version]
              nodeHistory == Tombstone(mvccNodes, nodeStamp)
              edgeHistory == Tombstone(mvccEdges, CascadeStamp(id))
              NewNode == {<<"node", id, "delete", version>>}
              NewEdges == {<<"edge", e, "delete", CascadeStamp(id)[e]>> : e \in DOMAIN CascadeStamp(id)}
  <1>0. TypeOK /\ DOMAIN CascadeStamp(id) = Incident(id)
    BY DEF IInv, CascadeStamp
  <1>1. /\ mvccNodes' = Without(nodeHistory, Reclaimable(nodeHistory, Held, version))
        /\ mvccEdges' = Without(edgeHistory, Reclaimable(edgeHistory, Held, version))
    BY DEF DeleteNode, GarbageCollect
  <1>2. /\ mvccNodes \in [DOMAIN mvccNodes -> RowVersion(Node)]
        /\ mvccEdges \in [DOMAIN mvccEdges -> RowVersion(Edge)]
    BY <1>0 DEF TypeOK
  <1>3. {<<"node", n, "delete", nodeStamp[n]>> : n \in DOMAIN nodeStamp} = NewNode
    OBVIOUS
  <1>4. /\ currentVersion \in Nat /\ version \in Nat /\ version > currentVersion
        /\ \A e \in Incident(id) : /\ CascadeStamp(id)[e] \in Nat
                                   /\ CascadeStamp(id)[e] > currentVersion
                                   /\ CascadeStamp(id)[e] < version
    <2>1. currentVersion \in Nat
      BY <1>0, BoundsAssumption DEF TypeOK, Versions
    <2>. QED  BY <2>1, <1>0, CascadeBounds
  <1>. HIDE DEF nodeStamp, version
  <1>5. Events("node", nodeHistory) \subseteq Events("node", mvccNodes) \cup NewNode
    BY <1>2, <1>3, TombstoneEvents
  <1>6. Events("edge", edgeHistory) \subseteq Events("edge", mvccEdges) \cup NewEdges
    BY <1>2, TombstoneEvents
  <1>7. /\ Events("node", mvccNodes') \subseteq Events("node", mvccNodes) \cup (NewNode \cup NewEdges)
        /\ Events("edge", mvccEdges') \subseteq Events("edge", mvccEdges) \cup (NewNode \cup NewEdges)
    <2>1. /\ Events("node", mvccNodes') \subseteq Events("node", nodeHistory)
          /\ Events("edge", mvccEdges') \subseteq Events("edge", edgeHistory)
      BY <1>1, WithoutEvents
    <2>. HIDE DEF nodeHistory, edgeHistory, NewNode, NewEdges
    <2>. QED  BY <2>1, <1>5, <1>6
  <1>8. ASSUME NEW s \in NewNode \cup NewEdges
        PROVE  s[4] \in Nat /\ s[4] > currentVersion
    BY <1>0, <1>4
  <1>9. ASSUME NEW s \in NewNode \cup NewEdges, NEW t \in NewNode \cup NewEdges, s[4] = t[4]
        PROVE  s = t
    <2>1. CASE s \in NewNode /\ t \in NewNode
      BY <2>1
    <2>2. CASE s \in NewNode /\ t \in NewEdges
      BY <2>2, <1>0, <1>4, <1>9
    <2>3. CASE s \in NewEdges /\ t \in NewNode
      BY <2>3, <1>0, <1>4, <1>9
    <2>4. CASE s \in NewEdges /\ t \in NewEdges
      <3>1. PICK d \in Incident(id) : s = <<"edge", d, "delete", CascadeStamp(id)[d]>>
        BY <2>4, <1>0
      <3>2. PICK e \in Incident(id) : t = <<"edge", e, "delete", CascadeStamp(id)[e]>>
        BY <2>4, <1>0
      <3>3. CascadeStamp(id)[d] = CascadeStamp(id)[e]
        BY <3>1, <3>2, <1>9
      <3>. QED  BY <3>1, <3>2, <3>3, <1>0, CascadeInjective
    <2>. QED  BY <2>1, <2>2, <2>3, <2>4
  <1>. HIDE DEF NewNode, NewEdges
  <1>. QED  BY <1>7, <1>8, <1>9, NewStamps

LEMMA ReleaseSnapshotStamps ==
    ASSUME IInv, IInv', StampsUnique, NEW v \in Versions, ReleaseSnapshot(v)
    PROVE  StampsUnique'
  <1>. DEFINE New == {}
  <1>1. PICK held : GarbageCollect(mvccNodes, mvccEdges, held, currentVersion)
    BY DEF ReleaseSnapshot
  <1>2. /\ Events("node", mvccNodes') \subseteq Events("node", mvccNodes)
        /\ Events("edge", mvccEdges') \subseteq Events("edge", mvccEdges)
    BY <1>1, WithoutEvents DEF GarbageCollect
  <1>3. /\ \A s \in New : s[4] \in Nat /\ s[4] > currentVersion
        /\ \A s, t \in New : s[4] = t[4] => s = t
    OBVIOUS
  <1>. HIDE DEF New
  <1>. QED  BY <1>2, <1>3, NewStamps

-----------------------------------------------------------------------------
\* "Unique and ordered" (Graph.h:129): no two events in the history share a
\* version, however many deletions a cascade makes, and none lies in the future.
THEOREM StampsUniqueCorrect == Spec => []StampsUnique
  <1>1. Init => StampsUnique
    BY DEF Init, EmptyMap, StampsUnique, Stamps
  <1>2. IInv /\ IInv' /\ StampsUnique /\ [Next]_vars => StampsUnique'
    <2>. SUFFICES ASSUME IInv, IInv', StampsUnique, [Next]_vars PROVE StampsUnique'
      OBVIOUS
    <2>1. CASE \E l \in Labels, p \in Properties : CreateNode(l, p)
      BY <2>1, CreateNodeStamps
    <2>2. CASE \E a, b \in NodeIds, l \in Labels : CreateEdge(a, b, l)
      BY <2>2, CreateEdgeStamps
    <2>3. CASE \E e \in EdgeIds : DeleteEdge(e)
      BY <2>3, DeleteEdgeStamps
    <2>4. CASE \E n \in NodeIds : DeleteNode(n)
      BY <2>4, DeleteNodeStamps
    <2>5. CASE \E n \in NodeIds, p \in Properties : UpdateNodeProperties(n, p)
      BY <2>5, UpdateNodePropertiesStamps
    <2>6. CASE \E e \in EdgeIds, l \in Labels : UpdateEdgeLabel(e, l)
      BY <2>6, UpdateEdgeLabelStamps
    <2>7. CASE CaptureSnapshot \/ UNCHANGED vars
      <3>1. UNCHANGED <<nodes, edges, mvccNodes, mvccEdges, currentVersion>>
        BY <2>7 DEF CaptureSnapshot, vars, nodeVars, edgeVars, historyVars
      <3>. QED  BY <3>1 DEF StampsUnique, Stamps
    <2>8. CASE \E v \in Versions : ReleaseSnapshot(v)
      BY <2>8, ReleaseSnapshotStamps
    <2>. QED  BY <2>1, <2>2, <2>3, <2>4, <2>5, <2>6, <2>7, <2>8 DEF Next
  <1>. QED  BY <1>1, <1>2, InitInv, NextInv, PTL DEF Spec

-----------------------------------------------------------------------------
\* The class Graph implements SnapshotGraph: under the refinement mapping of
\* GraphStore (a view for each held version, read from the history), every
\* operation is the abstract one of the same purpose or a stutter.

\* A version is handed out before the mutations that follow it are stamped.
SnapshotsPast == \A v \in Held : v <= currentVersion

RInv == IInv /\ SnapshotsPast

-----------------------------------------------------------------------------
\* Reading the history at a version

\* Two histories read alike where they show the same rows.
LEMMA SameRows ==
    ASSUME NEW h, NEW g, NEW v,
           \A x : (x \in DOMAIN h /\ Visible(h[x], v)) <=> (x \in DOMAIN g /\ Visible(g[x], v)),
           \A x \in DOMAIN h : Visible(h[x], v) => h[x].row = g[x].row
    PROVE  RowsAt(h, v) = RowsAt(g, v)
  <1>1. {x \in DOMAIN h : Visible(h[x], v)} = {x \in DOMAIN g : Visible(g[x], v)}
    OBVIOUS
  <1>. QED  BY <1>1 DEF RowsAt

\* The ordered scan misses no visible node.
LEMMA ScanComplete ==
    ASSUME HistoryMirrorsLive, NEW v
    PROVE  NodesAtVersion(v) = RowsAt(mvccNodes, v)
  BY DEF HistoryMirrorsLive, NodesAtVersion, RowsAt, Restrict

\* Stamping a deletion after a version changes nothing at that version.
LEMMA TombstoneInvisible ==
    ASSUME NEW history, NEW stamp, NEW Row, NEW v \in Nat,
           \A x \in DOMAIN history : history[x] \in RowVersion(Row),
           \A x \in DOMAIN stamp : stamp[x] \in Nat /\ stamp[x] > v
    PROVE  RowsAt(Tombstone(history, stamp), v) = RowsAt(history, v)
  <1>. DEFINE h == Tombstone(history, stamp)
  <1>1. DOMAIN h = DOMAIN history
    BY DEF Tombstone
  <1>2. ASSUME NEW x \in DOMAIN history
        PROVE  /\ h[x].row = history[x].row
               /\ Visible(h[x], v) <=> Visible(history[x], v)
    <2>1. CASE x \in DOMAIN stamp /\ history[x].deletedAtVersion = 0
      <3>1. h[x] = [history[x] EXCEPT !.deletedAtVersion = stamp[x]]
        BY <2>1 DEF Tombstone
      <3>2. /\ h[x].row = history[x].row
            /\ h[x].createdAtVersion = history[x].createdAtVersion
            /\ h[x].deletedAtVersion = stamp[x]
        <4>. HIDE DEF h
        <4>. QED  BY <3>1 DEF RowVersion
      <3>. HIDE DEF h
      <3>. QED  BY <2>1, <3>2 DEF Visible
    <2>2. CASE ~(x \in DOMAIN stamp /\ history[x].deletedAtVersion = 0)
      <3>1. h[x] = history[x]
        BY <2>2 DEF Tombstone
      <3>. HIDE DEF h
      <3>. QED  BY <3>1
    <2>. QED  BY <2>1, <2>2
  <1>. HIDE DEF h
  <1>3. RowsAt(h, v) = RowsAt(history, v)
    BY <1>1, <1>2, SameRows
  <1>. QED  BY <1>3 DEF h

\* Garbage collection drops no record a held version sees.
LEMMA CollectInvisible ==
    ASSUME NEW history, NEW held \in SUBSET Versions, NEW version, NEW Row, NEW v \in held,
           \A x \in DOMAIN history : history[x] \in RowVersion(Row)
    PROVE  RowsAt(Without(history, Reclaimable(history, held, version)), v) = RowsAt(history, v)
  <1>. DEFINE gone == Reclaimable(history, held, version)
              h == Without(history, gone)
  <1>1. \A x \in gone : ~Visible(history[x], v)
    <2>1. \A x \in gone : /\ x \in DOMAIN history /\ history[x].deletedAtVersion # 0
                          /\ history[x].deletedAtVersion <= v
      BY DEF Reclaimable
    <2>2. v \in Nat /\ \A x \in DOMAIN history : history[x].deletedAtVersion \in Nat
      BY BoundsAssumption DEF RowVersion, Versions
    <2>. HIDE DEF gone
    <2>. QED  BY <2>1, <2>2 DEF Visible
  <1>. HIDE DEF gone
  <1>2. /\ DOMAIN h = DOMAIN history \ gone
        /\ \A x \in DOMAIN h : h[x] = history[x]
    BY DEF Without, Restrict
  <1>. HIDE DEF h
  <1>3. RowsAt(h, v) = RowsAt(history, v)
    BY <1>1, <1>2, SameRows
  <1>. QED  BY <1>3 DEF h, gone

\* A row re-stamped after a version leaves the view at that version.
LEMMA RestampedLeaves ==
    ASSUME NEW history, NEW id \in DOMAIN history, NEW record, NEW v \in Nat,
           record.createdAtVersion \in Nat, record.createdAtVersion > v
    PROVE  RowsAt(Put(history, id, record), v) = Without(RowsAt(history, v), {id})
  <1>. DEFINE h == Put(history, id, record)
              before == {x \in DOMAIN history : Visible(history[x], v)}
              after == {x \in DOMAIN h : Visible(h[x], v)}
  <1>1. DOMAIN h = DOMAIN history /\ h[id] = record
    BY DEF Put
  <1>2. \A x \in DOMAIN history \ {id} : h[x] = history[x]
    BY DEF Put
  <1>. HIDE DEF h
  <1>3. ~Visible(record, v)
    BY DEF Visible
  <1>4. after = before \ {id}
    BY <1>1, <1>2, <1>3
  <1>5. RowsAt(h, v) = [x \in before \ {id} |-> history[x].row]
    <2>1. RowsAt(h, v) = [x \in after |-> h[x].row]
      BY DEF RowsAt
    <2>. QED  BY <2>1, <1>2, <1>4
  <1>6. Without(RowsAt(history, v), {id}) = [x \in before \ {id} |-> history[x].row]
    BY DEF RowsAt, Without, Restrict
  <1>. QED  BY <1>5, <1>6 DEF h

\* A row created after a version is not in the view at that version.
LEMMA NewRowInvisible ==
    ASSUME NEW history, NEW id, id \notin DOMAIN history, NEW record, NEW v \in Nat,
           record.createdAtVersion \in Nat, record.createdAtVersion > v
    PROVE  RowsAt(Put(history, id, record), v) = RowsAt(history, v)
  <1>. DEFINE h == Put(history, id, record)
  <1>1. DOMAIN h = DOMAIN history \cup {id} /\ h[id] = record
    BY DEF Put
  <1>2. \A x \in DOMAIN history : h[x] = history[x]
    BY DEF Put
  <1>. HIDE DEF h
  <1>3. ~Visible(record, v)
    BY DEF Visible
  <1>4. RowsAt(h, v) = RowsAt(history, v)
    BY <1>1, <1>2, <1>3, SameRows
  <1>. QED  BY <1>4 DEF h

\* The view at the current version is the live graph.
LEMMA CurrentView ==
    ASSUME IInv
    PROVE  /\ NodesAtVersion(currentVersion) = nodes
           /\ EdgesAtVersion(currentVersion) = edges
  <1>1. /\ TypeOK /\ HistoryMirrorsLive /\ StampsOrdered
        /\ currentVersion \in Nat
    BY BoundsAssumption DEF IInv, TypeOK, Versions
  <1>2. \A n \in DOMAIN mvccNodes : Visible(mvccNodes[n], currentVersion) <=> n \in DOMAIN nodes
    BY <1>1 DEF StampsOrdered, Lifetime, HistoryMirrorsLive, Visible
  <1>3. \A e \in DOMAIN mvccEdges : Visible(mvccEdges[e], currentVersion) <=> e \in DOMAIN edges
    BY <1>1 DEF StampsOrdered, Lifetime, HistoryMirrorsLive, Visible
  <1>4. RowsAt(mvccNodes, currentVersion) = nodes
    <2>1. {n \in DOMAIN mvccNodes : Visible(mvccNodes[n], currentVersion)} = DOMAIN nodes
      BY <1>1, <1>2 DEF HistoryMirrorsLive
    <2>2. nodes = [n \in DOMAIN nodes |-> nodes[n]]
      BY <1>1 DEF TypeOK
    <2>. QED  BY <2>1, <2>2, <1>1 DEF RowsAt, HistoryMirrorsLive
  <1>5. RowsAt(mvccEdges, currentVersion) = edges
    <2>1. {e \in DOMAIN mvccEdges : Visible(mvccEdges[e], currentVersion)} = DOMAIN edges
      BY <1>1, <1>3 DEF HistoryMirrorsLive
    <2>2. edges = [e \in DOMAIN edges |-> edges[e]]
      BY <1>1 DEF TypeOK
    <2>. QED  BY <2>1, <2>2, <1>1 DEF RowsAt, HistoryMirrorsLive
  <1>. QED  BY <1>1, <1>4, <1>5, ScanComplete DEF EdgesAtVersion

-----------------------------------------------------------------------------
\* Held versions lie in the past

LEMMA SnapshotsPastInit == Init => SnapshotsPast
  BY DEF Init, SnapshotsPast, Held

\* A release registers nothing.
LEMMA ReleaseHeld ==
    ASSUME TypeOK, NEW w \in Versions, ReleaseSnapshot(w)
    PROVE  /\ activeSnapshots' = [activeSnapshots EXCEPT ![w] = IF @ > 0 THEN @ - 1 ELSE 0]
           /\ Held' = {v \in Versions : Unregister(w)[v] > 0}
           /\ Held' \subseteq Held
           /\ Held \ {w} \subseteq Held'
  <1>1. activeSnapshots' = [activeSnapshots EXCEPT ![w] = IF @ > 0 THEN @ - 1 ELSE 0]
    BY DEF ReleaseSnapshot, Unregister
  <1>2. activeSnapshots \in [Versions -> Nat]
    BY DEF TypeOK
  <1>3. \A v \in Versions : activeSnapshots'[v] > 0 => activeSnapshots[v] > 0
    BY <1>1, <1>2
  <1>4. \A v \in Versions \ {w} : activeSnapshots'[v] = activeSnapshots[v]
    BY <1>1, <1>2
  <1>. QED  BY <1>1, <1>3, <1>4 DEF Held, ReleaseSnapshot

LEMMA SnapshotsPastNext == RInv /\ [Next]_vars => SnapshotsPast'
  <1>. SUFFICES ASSUME RInv, [Next]_vars PROVE SnapshotsPast'
    OBVIOUS
  <1>0. /\ TypeOK /\ SnapshotsPast
        /\ currentVersion \in Nat /\ \A v \in Versions : v \in Nat
    BY BoundsAssumption DEF RInv, IInv, TypeOK, Versions
  <1>1. ASSUME activeSnapshots' = activeSnapshots, currentVersion' \in Nat,
               currentVersion' >= currentVersion
        PROVE  SnapshotsPast'
    BY <1>0, <1>1 DEF SnapshotsPast, Held
  <1>2. CASE \E l \in Labels, p \in Properties : CreateNode(l, p)
    BY <1>0, <1>1, <1>2 DEF CreateNode
  <1>3. CASE \E a, b \in NodeIds, l \in Labels : CreateEdge(a, b, l)
    BY <1>0, <1>1, <1>3 DEF CreateEdge
  <1>4. CASE \E e \in EdgeIds : DeleteEdge(e)
    BY <1>0, <1>1, <1>4 DEF DeleteEdge
  <1>5. CASE \E n \in NodeIds : DeleteNode(n)
    BY <1>0, <1>1, <1>5, CascadeBounds DEF DeleteNode
  <1>6. CASE \E n \in NodeIds, p \in Properties : UpdateNodeProperties(n, p)
    BY <1>0, <1>1, <1>6 DEF UpdateNodeProperties
  <1>7. CASE \E e \in EdgeIds, l \in Labels : UpdateEdgeLabel(e, l)
    BY <1>0, <1>1, <1>7 DEF UpdateEdgeLabel
  <1>8. CASE CaptureSnapshot
    <2>1. /\ currentVersion' = currentVersion
          /\ activeSnapshots' = [activeSnapshots EXCEPT ![currentVersion] = @ + 1]
      BY <1>8 DEF CaptureSnapshot
    <2>2. \A v \in Versions \ {currentVersion} : activeSnapshots'[v] = activeSnapshots[v]
      BY <2>1, <1>0 DEF TypeOK
    <2>. QED  BY <2>1, <2>2, <1>0 DEF SnapshotsPast, Held
  <1>9. CASE \E v \in Versions : ReleaseSnapshot(v)
    BY <1>0, <1>9, ReleaseHeld DEF SnapshotsPast, ReleaseSnapshot
  <1>10. CASE UNCHANGED vars
    BY <1>0, <1>1, <1>10 DEF vars
  <1>. QED
    BY <1>2, <1>3, <1>4, <1>5, <1>6, <1>7, <1>8, <1>9, <1>10 DEF Next

-----------------------------------------------------------------------------
\* The views before and after a step

LEMMA ViewRows ==
    ASSUME HistoryMirrorsLive
    PROVE  Views = [v \in Held |-> [nodes |-> RowsAt(mvccNodes, v),
                                    edges |-> RowsAt(mvccEdges, v)]]
  BY DEF HistoryMirrorsLive, Views, NodesAtVersion, EdgesAtVersion, RowsAt, Restrict

LEMMA ViewRowsNext ==
    ASSUME HistoryMirrorsLive'
    PROVE  Views' = [v \in Held' |-> [nodes |-> RowsAt(mvccNodes', v),
                                      edges |-> RowsAt(mvccEdges', v)]]
  BY DEF HistoryMirrorsLive, Views, NodesAtVersion, EdgesAtVersion, RowsAt, Restrict

\* The views stay when the same versions are held and each reads the same rows.
LEMMA ViewsKept ==
    ASSUME IInv, IInv', Held' = Held,
           \A v \in Held : /\ RowsAt(mvccNodes', v) = RowsAt(mvccNodes, v)
                           /\ RowsAt(mvccEdges', v) = RowsAt(mvccEdges, v)
    PROVE  Views' = Views
  <1>1. HistoryMirrorsLive /\ HistoryMirrorsLive'
    BY DEF IInv
  <1>. QED  BY <1>1, ViewRows, ViewRowsNext

\* The next bump comes after every held version.
LEMMA NextStamp ==
    ASSUME RInv
    PROVE  /\ currentVersion \in Nat
           /\ \A v \in Held : v \in Nat /\ v < currentVersion + 1
  BY BoundsAssumption DEF RInv, IInv, TypeOK, SnapshotsPast, Held, Versions

-----------------------------------------------------------------------------
\* Each operation is the abstract one

LEMMA CreateNodeAdds ==
    ASSUME RInv, IInv', NEW l \in Labels, NEW p \in Properties, CreateNode(l, p)
    PROVE  Abstract!AddNode
  <1>. DEFINE node == [label |-> l, properties |-> p]
              id == nextNodeID
  <1>1. /\ id \in NodeIds /\ id \notin 1 .. id - 1
        /\ id \notin DOMAIN nodes /\ id \notin DOMAIN mvccNodes
        /\ 1 .. id' - 1 = (1 .. id - 1) \cup {id}
    <2>1. /\ id \in 1 .. MaxNodes + 1 /\ id <= MaxNodes /\ id' = id + 1
      BY DEF RInv, IInv, TypeOK, CreateNode
    <2>2. id \notin DOMAIN nodes /\ id \notin DOMAIN mvccNodes
      BY <2>1, BoundsAssumption DEF RInv, IInv, FreshIds
    <2>. HIDE DEF id
    <2>. QED  BY <2>1, <2>2, BoundsAssumption DEF NodeIds
  <1>2. /\ nodes' = Put(nodes, id, node)
        /\ mvccNodes' = Put(mvccNodes, id, Born(node))
    BY <1>1, EmplaceMap DEF CreateNode
  <1>3. UNCHANGED <<edges, mvccEdges, activeSnapshots, nextEdgeID>>
    BY DEF CreateNode, edgeVars
  <1>4. Born(node).createdAtVersion = currentVersion + 1
    BY DEF Born
  <1>5. Views' = Views
    <2>1. \A v \in Held : RowsAt(mvccNodes', v) = RowsAt(mvccNodes, v)
      <3>. HIDE DEF node
      <3>. QED  BY <1>1, <1>2, <1>4, NextStamp, NewRowInvisible
    <2>. QED  BY <2>1, <1>3, ViewsKept DEF RInv, Held
  <1>. QED  BY <1>1, <1>2, <1>3, <1>5 DEF Abstract!AddNode, Abstract!Put, Put

LEMMA CreateEdgeAdds ==
    ASSUME RInv, IInv', NEW a \in NodeIds, NEW b \in NodeIds, NEW l \in Labels,
           CreateEdge(a, b, l)
    PROVE  Abstract!AddEdge
  <1>. DEFINE edge == [from |-> a, to |-> b, label |-> l]
              id == nextEdgeID
  <1>1. /\ id \in EdgeIds /\ id \notin 1 .. id - 1
        /\ id \notin DOMAIN edges /\ id \notin DOMAIN mvccEdges
        /\ 1 .. id' - 1 = (1 .. id - 1) \cup {id}
        /\ a \in DOMAIN nodes /\ b \in DOMAIN nodes
    <2>1. /\ id \in 1 .. MaxEdges + 1 /\ id <= MaxEdges /\ id' = id + 1
          /\ a \in DOMAIN nodes /\ b \in DOMAIN nodes
      BY DEF RInv, IInv, TypeOK, CreateEdge
    <2>2. id \notin DOMAIN edges /\ id \notin DOMAIN mvccEdges
      BY <2>1, BoundsAssumption DEF RInv, IInv, FreshIds
    <2>. HIDE DEF id
    <2>. QED  BY <2>1, <2>2, BoundsAssumption DEF EdgeIds
  <1>2. /\ edges' = Put(edges, id, edge)
        /\ mvccEdges' = Put(mvccEdges, id, Born(edge))
    BY <1>1, EmplaceMap DEF CreateEdge
  <1>3. UNCHANGED <<nodes, mvccNodes, activeSnapshots, nextNodeID>>
    BY DEF CreateEdge, nodeVars
  <1>4. Born(edge).createdAtVersion = currentVersion + 1
    BY DEF Born
  <1>5. Views' = Views
    <2>1. \A v \in Held : RowsAt(mvccEdges', v) = RowsAt(mvccEdges, v)
      <3>. HIDE DEF edge
      <3>. QED  BY <1>1, <1>2, <1>4, NextStamp, NewRowInvisible
    <2>. QED  BY <2>1, <1>3, ViewsKept DEF RInv, Held
  <1>. QED  BY <1>1, <1>2, <1>3, <1>5 DEF Abstract!AddEdge, Abstract!Put, Put

LEMMA DeleteEdgeRemoves ==
    ASSUME RInv, IInv', NEW e \in EdgeIds, DeleteEdge(e)
    PROVE  Abstract!RemoveEdge
  <1>. DEFINE stamp == [x \in {e} |-> currentVersion + 1]
  <1>1. /\ e \in DOMAIN edges
        /\ edges' = Without(edges, {e})
        /\ mvccEdges' = Tombstone(mvccEdges, stamp)
        /\ UNCHANGED <<nodes, mvccNodes, activeSnapshots, nextNodeID, nextEdgeID>>
    BY DEF DeleteEdge, RemoveEdges, nodeVars
  <1>2. \A x \in DOMAIN mvccEdges : mvccEdges[x] \in RowVersion(Edge)
    BY DEF RInv, IInv, TypeOK
  <1>3. \A v \in Held : RowsAt(mvccEdges', v) = RowsAt(mvccEdges, v)
    <2>1. ASSUME NEW v \in Held
          PROVE  RowsAt(Tombstone(mvccEdges, stamp), v) = RowsAt(mvccEdges, v)
      <3>1. v \in Nat /\ \A x \in DOMAIN stamp : stamp[x] \in Nat /\ stamp[x] > v
        BY NextStamp
      <3>. HIDE DEF stamp
      <3>. QED  BY <3>1, <1>2, TombstoneInvisible
    <2>. QED  BY <2>1, <1>1
  <1>4. Views' = Views
    BY <1>1, <1>3, ViewsKept DEF RInv, Held
  <1>. QED
    BY <1>1, <1>4 DEF Abstract!RemoveEdge, Abstract!Without, Without, Abstract!Restrict, Restrict

\* Two functions in a row, each of them invisible: a deletion and a collection.
LEMMA DeleteCollectInvisible ==
    ASSUME NEW history, NEW stamp, NEW held \in SUBSET Versions, NEW version, NEW Row,
           NEW v \in held, \A x \in DOMAIN history : history[x] \in RowVersion(Row),
           \A x \in DOMAIN stamp : stamp[x] \in Versions /\ stamp[x] > v
    PROVE  LET h == Tombstone(history, stamp)
           IN  RowsAt(Without(h, Reclaimable(h, held, version)), v) = RowsAt(history, v)
  <1>. DEFINE h == Tombstone(history, stamp)
  <1>1. v \in Nat /\ \A x \in DOMAIN stamp : stamp[x] \in Nat
    BY BoundsAssumption DEF Versions
  <1>2. RowsAt(h, v) = RowsAt(history, v)
    BY <1>1, TombstoneInvisible
  <1>3. \A x \in DOMAIN h : h[x] \in RowVersion(Row)
    BY DEF Tombstone, RowVersion
  <1>. HIDE DEF h
  <1>4. RowsAt(Without(h, Reclaimable(h, held, version)), v) = RowsAt(h, v)
    BY <1>3, CollectInvisible
  <1>. QED  BY <1>2, <1>4 DEF h

LEMMA DeleteNodeRemoves ==
    ASSUME RInv, IInv', NEW n \in NodeIds, DeleteNode(n)
    PROVE  Abstract!RemoveNode
  <1>. DEFINE gone == Incident(n)
              version == currentVersion + Cardinality(gone) + 1
              stamp == [x \in {n} |-> version]
  <1>1. /\ n \in DOMAIN nodes
        /\ nodes' = Without(nodes, {n}) /\ edges' = Without(edges, gone)
        /\ UNCHANGED <<activeSnapshots, nextNodeID, nextEdgeID>>
        /\ GarbageCollect(Tombstone(mvccNodes, stamp),
                          Tombstone(mvccEdges, CascadeStamp(n)), Held, version)
    BY DEF DeleteNode, RemoveEdges
  <1>2. gone = {e \in DOMAIN edges : n \in {edges[e].from, edges[e].to}}
    BY DEF RInv, IInv, IndexesMatchLive, Incident
  <1>3. TypeOK /\ Held \in SUBSET Versions
    BY DEF RInv, IInv, Held
  <1>4. \A v \in Held : /\ RowsAt(mvccNodes', v) = RowsAt(mvccNodes, v)
                        /\ RowsAt(mvccEdges', v) = RowsAt(mvccEdges, v)
    <2>. SUFFICES ASSUME NEW v \in Held
                  PROVE  /\ RowsAt(mvccNodes', v) = RowsAt(mvccNodes, v)
                         /\ RowsAt(mvccEdges', v) = RowsAt(mvccEdges, v)
      OBVIOUS
    <2>1. v \in Nat /\ v < currentVersion + 1 /\ currentVersion \in Nat
      BY NextStamp
    <2>2. /\ Cardinality(gone) \in Nat
          /\ \A x \in gone : CascadeStamp(n)[x] \in currentVersion + 1 .. version - 1
      BY <1>3, <2>1, CascadeBounds
    <2>3. version \in Versions
      BY <2>1, <2>2, BoundsAssumption DEF DeleteNode, VersionRoom, Versions
    <2>4. \A x \in DOMAIN stamp : stamp[x] \in Versions /\ stamp[x] > v
      BY <2>1, <2>2, <2>3
    <2>5. \A x \in DOMAIN CascadeStamp(n) : CascadeStamp(n)[x] \in Versions /\ CascadeStamp(n)[x] > v
      <3>1. DOMAIN CascadeStamp(n) = gone
        BY DEF CascadeStamp
      <3>. HIDE DEF gone
      <3>. QED  BY <3>1, <2>1, <2>2, <2>3, BoundsAssumption DEF Versions
    <2>6. \A x \in DOMAIN mvccNodes : mvccNodes[x] \in RowVersion(Node)
      BY <1>3 DEF TypeOK
    <2>7. \A x \in DOMAIN mvccEdges : mvccEdges[x] \in RowVersion(Edge)
      BY <1>3 DEF TypeOK
    <2>. HIDE DEF stamp, version
    <2>8. RowsAt(mvccNodes', v) = RowsAt(mvccNodes, v)
      BY <1>1, <1>3, <2>4, <2>6, DeleteCollectInvisible DEF GarbageCollect
    <2>9. RowsAt(mvccEdges', v) = RowsAt(mvccEdges, v)
      BY <1>1, <1>3, <2>5, <2>7, DeleteCollectInvisible DEF GarbageCollect
    <2>. QED  BY <2>8, <2>9
  <1>5. Views' = Views
    BY <1>1, <1>4, ViewsKept DEF RInv, Held
  <1>. HIDE DEF gone, stamp, version
  <1>. QED
    BY <1>1, <1>2, <1>5
    DEF Abstract!RemoveNode, Abstract!Without, Without, Abstract!Restrict, Restrict

LEMMA UpdateNodeSets ==
    ASSUME RInv, IInv', NEW n \in NodeIds, NEW u \in Properties, UpdateNodeProperties(n, u)
    PROVE  Abstract!SetProperties
  <1>. DEFINE p == Merge(nodes[n].properties, u)
              node == [nodes[n] EXCEPT !.properties = p]
  <1>1. /\ n \in DOMAIN nodes /\ n \in DOMAIN mvccNodes
        /\ nodes' = [nodes EXCEPT ![n] = node]
        /\ mvccNodes' = Put(mvccNodes, n, Born(node))
        /\ UNCHANGED <<edges, mvccEdges, activeSnapshots, nextNodeID, nextEdgeID>>
    BY DEF UpdateNodeProperties, edgeVars, RInv, IInv, HistoryMirrorsLive
  <1>2. p \in Properties
    <2>1. nodes[n] \in Node
      BY <1>1 DEF RInv, IInv, TypeOK
    <2>. QED  BY <2>1, MergeType DEF Node
  <1>3. Born(node).createdAtVersion = currentVersion + 1
    BY DEF Born
  <1>4. \A v \in Held : RowsAt(mvccNodes', v) = Without(RowsAt(mvccNodes, v), {n})
    <2>. HIDE DEF node
    <2>. QED  BY <1>1, <1>3, NextStamp, RestampedLeaves
  <1>5. Held' = Held /\ HistoryMirrorsLive /\ HistoryMirrorsLive'
    BY <1>1 DEF Held, RInv, IInv
  <1>6. Views' = [v \in DOMAIN Views |->
                    [Views[v] EXCEPT !.nodes = Without(Views[v].nodes, {n})]]
    <2>1. /\ DOMAIN Views = Held
          /\ \A v \in Held : Views[v] = [nodes |-> RowsAt(mvccNodes, v),
                                         edges |-> RowsAt(mvccEdges, v)]
      BY <1>5, ViewRows
    <2>2. Views' = [v \in Held |-> [nodes |-> Without(RowsAt(mvccNodes, v), {n}),
                                    edges |-> RowsAt(mvccEdges, v)]]
      BY <1>1, <1>4, <1>5, ViewRowsNext
    <2>. QED  BY <2>1, <2>2
  <1>7. nodes' = [nodes EXCEPT ![n].properties = p]
    BY <1>1
  <1>. HIDE DEF p
  <1>. QED
    BY <1>1, <1>2, <1>6, <1>7
    DEF Abstract!SetProperties, Abstract!Without, Without, Abstract!Restrict, Restrict

LEMMA UpdateEdgeSets ==
    ASSUME RInv, IInv', NEW e \in EdgeIds, NEW l \in Labels, UpdateEdgeLabel(e, l)
    PROVE  Abstract!SetLabel
  <1>. DEFINE edge == [edges[e] EXCEPT !.label = l]
  <1>1. /\ e \in DOMAIN edges /\ e \in DOMAIN mvccEdges
        /\ edges' = [edges EXCEPT ![e] = edge]
        /\ mvccEdges' = Put(mvccEdges, e, Born(edge))
        /\ UNCHANGED <<nodes, mvccNodes, activeSnapshots, nextNodeID, nextEdgeID>>
    BY DEF UpdateEdgeLabel, nodeVars, RInv, IInv, HistoryMirrorsLive
  <1>3. Born(edge).createdAtVersion = currentVersion + 1
    BY DEF Born
  <1>4. \A v \in Held : RowsAt(mvccEdges', v) = Without(RowsAt(mvccEdges, v), {e})
    <2>. HIDE DEF edge
    <2>. QED  BY <1>1, <1>3, NextStamp, RestampedLeaves
  <1>5. Held' = Held /\ HistoryMirrorsLive /\ HistoryMirrorsLive'
    BY <1>1 DEF Held, RInv, IInv
  <1>6. Views' = [v \in DOMAIN Views |->
                    [Views[v] EXCEPT !.edges = Without(Views[v].edges, {e})]]
    <2>1. /\ DOMAIN Views = Held
          /\ \A v \in Held : Views[v] = [nodes |-> RowsAt(mvccNodes, v),
                                         edges |-> RowsAt(mvccEdges, v)]
      BY <1>5, ViewRows
    <2>2. Views' = [v \in Held |-> [nodes |-> RowsAt(mvccNodes, v),
                                    edges |-> Without(RowsAt(mvccEdges, v), {e})]]
      BY <1>1, <1>4, <1>5, ViewRowsNext
    <2>. QED  BY <2>1, <2>2
  <1>. QED
    BY <1>1, <1>6
    DEF Abstract!SetLabel, Abstract!Without, Without, Abstract!Restrict, Restrict

\* The current version may be held already: then it has this view already.
LEMMA CaptureCaptures ==
    ASSUME RInv, IInv', CaptureSnapshot
    PROVE  Abstract!Capture
  <1>. DEFINE now == [nodes |-> nodes, edges |-> edges]
              w == currentVersion
  <1>1. /\ TypeOK /\ HistoryMirrorsLive /\ HistoryMirrorsLive' /\ w \in Versions
    BY DEF RInv, IInv, TypeOK
  <1>2. /\ UNCHANGED <<nodes, edges, mvccNodes, mvccEdges, nextNodeID, nextEdgeID>>
        /\ activeSnapshots' = [activeSnapshots EXCEPT ![w] = @ + 1]
    BY DEF CaptureSnapshot, nodeVars, edgeVars, historyVars
  <1>3. Held' = Held \cup {w}
    BY <1>1, <1>2 DEF Held, TypeOK
  <1>4. [nodes |-> RowsAt(mvccNodes, w), edges |-> RowsAt(mvccEdges, w)] = now
    BY <1>1, CurrentView, ScanComplete DEF EdgesAtVersion, RInv
  <1>5. Views = [v \in Held |-> [nodes |-> RowsAt(mvccNodes, v), edges |-> RowsAt(mvccEdges, v)]]
    BY <1>1, ViewRows
  <1>6. Views' = [v \in Held \cup {w} |->
                    [nodes |-> RowsAt(mvccNodes, v), edges |-> RowsAt(mvccEdges, v)]]
    BY <1>1, <1>2, <1>3, ViewRowsNext
  <1>7. w \in DOMAIN Views => Views[w] = now
    BY <1>4, <1>5
  <1>8. Views' = Put(Views, w, now)
    BY <1>4, <1>5, <1>6 DEF Put
  <1>. HIDE DEF w
  <1>. QED  BY <1>1, <1>2, <1>7, <1>8 DEF Abstract!Capture, Abstract!Put, Put

\* Only the last release of a version lets its view go.
LEMMA ReleaseReleases ==
    ASSUME RInv, IInv', NEW w \in Versions, ReleaseSnapshot(w)
    PROVE  Abstract!Release \/ UNCHANGED Abstract!vars
  <1>1. /\ TypeOK /\ HistoryMirrorsLive /\ HistoryMirrorsLive'
    BY DEF RInv, IInv
  <1>2. /\ UNCHANGED <<nodes, edges, nextNodeID, nextEdgeID>>
        /\ Held' \subseteq Held /\ Held \ {w} \subseteq Held'
        /\ GarbageCollect(mvccNodes, mvccEdges, Held', currentVersion)
    BY <1>1, ReleaseHeld DEF ReleaseSnapshot, nodeVars, edgeVars
  <1>3. \A v \in Held' : /\ RowsAt(mvccNodes', v) = RowsAt(mvccNodes, v)
                         /\ RowsAt(mvccEdges', v) = RowsAt(mvccEdges, v)
    <2>1. Held' \in SUBSET Versions
      BY DEF Held
    <2>2. /\ \A x \in DOMAIN mvccNodes : mvccNodes[x] \in RowVersion(Node)
          /\ \A x \in DOMAIN mvccEdges : mvccEdges[x] \in RowVersion(Edge)
      BY <1>1 DEF TypeOK
    <2>. QED  BY <1>2, <2>1, <2>2, CollectInvisible DEF GarbageCollect
  <1>4. Views = [v \in Held |-> [nodes |-> RowsAt(mvccNodes, v), edges |-> RowsAt(mvccEdges, v)]]
    BY <1>1, ViewRows
  <1>5. Views' = [v \in Held' |-> [nodes |-> RowsAt(mvccNodes, v), edges |-> RowsAt(mvccEdges, v)]]
    BY <1>1, <1>3, ViewRowsNext
  <1>6. CASE Held' = Held
    BY <1>2, <1>4, <1>5, <1>6 DEF Abstract!vars
  <1>7. CASE Held' # Held
    <2>1. w \in Held /\ Held' = Held \ {w}
      BY <1>2, <1>7
    <2>2. Views' = Without(Views, {w}) /\ w \in DOMAIN Views
      BY <2>1, <1>4, <1>5 DEF Without, Restrict
    <2>. QED
      BY <2>2, <1>2
      DEF Abstract!Release, Abstract!Without, Without, Abstract!Restrict, Restrict
  <1>. QED  BY <1>6, <1>7

-----------------------------------------------------------------------------
LEMMA AbstractInit == Init => Abstract!Init
  <1>. SUFFICES ASSUME Init PROVE Abstract!Init
    OBVIOUS
  <1>1. Held = {}
    BY DEF Init, Held
  <1>2. Views = Abstract!EmptyMap
    BY <1>1 DEF Views, Abstract!EmptyMap
  <1>3. 1 .. nextNodeID - 1 = {} /\ 1 .. nextEdgeID - 1 = {}
    BY DEF Init
  <1>. QED  BY <1>2, <1>3 DEF Init, Abstract!Init, EmptyMap, Abstract!EmptyMap

LEMMA AbstractNext == RInv /\ IInv' /\ [Next]_vars => [Abstract!Next]_Abstract!vars
  <1>. SUFFICES ASSUME RInv, IInv', [Next]_vars
                PROVE  Abstract!Next \/ UNCHANGED Abstract!vars
    BY DEF Abstract!vars
  <1>1. CASE \E l \in Labels, p \in Properties : CreateNode(l, p)
    BY <1>1, CreateNodeAdds DEF Abstract!Next
  <1>2. CASE \E a, b \in NodeIds, l \in Labels : CreateEdge(a, b, l)
    BY <1>2, CreateEdgeAdds DEF Abstract!Next
  <1>3. CASE \E e \in EdgeIds : DeleteEdge(e)
    BY <1>3, DeleteEdgeRemoves DEF Abstract!Next
  <1>4. CASE \E n \in NodeIds : DeleteNode(n)
    BY <1>4, DeleteNodeRemoves DEF Abstract!Next
  <1>5. CASE \E n \in NodeIds, p \in Properties : UpdateNodeProperties(n, p)
    BY <1>5, UpdateNodeSets DEF Abstract!Next
  <1>6. CASE \E e \in EdgeIds, l \in Labels : UpdateEdgeLabel(e, l)
    BY <1>6, UpdateEdgeSets DEF Abstract!Next
  <1>7. CASE CaptureSnapshot
    BY <1>7, CaptureCaptures DEF Abstract!Next
  <1>8. CASE \E v \in Versions : ReleaseSnapshot(v)
    BY <1>8, ReleaseReleases DEF Abstract!Next
  <1>9. CASE UNCHANGED vars
    BY <1>9 DEF vars, nodeVars, edgeVars, historyVars, Abstract!vars,
                Views, NodesAtVersion, EdgesAtVersion, Held, RowsAt
  <1>. QED
    BY <1>1, <1>2, <1>3, <1>4, <1>5, <1>6, <1>7, <1>8, <1>9 DEF Next

\* The class Graph keeps the promise of SnapshotGraph for every number of nodes,
\* edges, versions and snapshots: point-in-time reads stay as captured through
\* creations, deletions, cascades, releases and collections.
THEOREM Refinement == Spec => ImplementsSnapshotGraph
  <1>1. Spec => []IInv
    BY Invariance
  <1>2. Spec /\ []IInv => []SnapshotsPast
    BY SnapshotsPastInit, SnapshotsPastNext, PTL DEF Spec, RInv
  <1>3. Spec /\ []IInv /\ []SnapshotsPast => Abstract!Spec
    BY AbstractInit, AbstractNext, PTL DEF Spec, RInv, Abstract!Spec
  <1>. QED  BY <1>1, <1>2, <1>3, PTL DEF ImplementsSnapshotGraph
=============================================================================
