----------------------------- MODULE GraphStore -----------------------------
(***************************************************************************)
(* The class Graph of src/Graph and Searchers: live rows, the indexes kept *)
(* beside them, and the MVCC history that serves point-in-time reads.      *)
(* Every operation runs to completion before the next (GraphHandler's lock *)
(* sees to that), so each is one action.                                   *)
(*                                                                         *)
(* Vectors of ids are sets: an id is pushed when it is fresh or has just   *)
(* been erased from its old bucket, so no vector holds it twice, and all   *)
(* orders that matter are the order of the ids themselves.  The neighbour  *)
(* lists do hold repeated ids (parallel edges): they are counts.  A map    *)
(* entry with an empty vector and no entry are one, except in the label    *)
(* maps: FindNodes and FindEdgesByLabel warn of a label without an entry   *)
(* only, and no entry ever goes, so nodeLabels and edgeLabels keep the     *)
(* labels that have had one.                                               *)
(***************************************************************************)
EXTENDS Integers, FiniteSets, PartialMaps

CONSTANTS
    Labels,          \* node and edge labels
    PropertyKeys, PropertyValues,
    MaxNodes,        \* bound: ids handed out to nodes
    MaxEdges,        \* bound: ids handed out to edges
    MaxVersion,      \* bound: mutations
    MaxSnapshots     \* bound: snapshots held at once

ASSUME BoundsAssumption ==
    MaxNodes \in Nat /\ MaxEdges \in Nat /\ MaxVersion \in Nat /\ MaxSnapshots \in Nat

NodeIds == 1 .. MaxNodes
EdgeIds == 1 .. MaxEdges
Versions == 0 .. MaxVersion

\* propertiesMap: values of some of the keys
Properties == UNION {[K -> PropertyValues] : K \in SUBSET PropertyKeys}
Node == [label : Labels, properties : Properties]
Edge == [from : NodeIds, to : NodeIds, label : Labels]

\* NodeVersion and EdgeVersion; deletedAtVersion = 0 while the row is live
RowVersion(Row) ==
    [row : Row, createdAtVersion : Versions, deletedAtVersion : Versions]

VARIABLES
    nextNodeID, nextEdgeID,
    nodes, edges,
    labelToNodes, labelToEdges,
    nodeLabels, edgeLabels,          \* keys of labelToNodes and labelToEdges
    adjacencyOut, adjacencyIn,       \* node -> ids of its edges
    neighbourOut, neighbourIn,       \* node -> node -> times it is listed
    nodeInsertionOrder, edgeInsertionOrder,
    currentVersion,
    activeSnapshots,                 \* version -> times it is held
    mvccNodes, mvccEdges, mvccNodeOrder

nodeVars == <<nextNodeID, nodes, labelToNodes, nodeLabels, nodeInsertionOrder>>
adjacencyVars == <<adjacencyOut, adjacencyIn, neighbourOut, neighbourIn>>
edgeVars == <<nextEdgeID, edges, labelToEdges, edgeLabels, edgeInsertionOrder, adjacencyVars>>
historyVars == <<mvccNodes, mvccEdges, mvccNodeOrder>>
vars == <<nodeVars, edgeVars, currentVersion, activeSnapshots, historyVars>>

-----------------------------------------------------------------------------
\* Reads

Held == {v \in Versions : activeSnapshots[v] > 0}

\* A record is in view at v: created by v, and live or deleted after v.
Visible(record, v) ==
    /\ record.createdAtVersion <= v
    /\ record.deletedAtVersion = 0 \/ record.deletedAtVersion > v

RowsAt(history, v) ==
    LET ids == {x \in DOMAIN history : Visible(history[x], v)}
    IN  [x \in ids |-> history[x].row]

\* The ordered scan walks mvccNodeOrder_ and skips ids without a record.
NodesAtVersion(v) == Restrict(RowsAt(mvccNodes, v),
                              mvccNodeOrder \cap DOMAIN RowsAt(mvccNodes, v))
EdgesAtVersion(v) == RowsAt(mvccEdges, v)

-----------------------------------------------------------------------------
\* Helpers of the mutations

VersionRoom(bumps) == currentVersion + bumps <= MaxVersion

Born(row) == [row |-> row, createdAtVersion |-> currentVersion + 1, deletedAtVersion |-> 0]

\* Stamp a deletion on the records of stamp's domain that have none.
Tombstone(history, stamp) ==
    [x \in DOMAIN history |->
       IF x \in DOMAIN stamp /\ history[x].deletedAtVersion = 0
       THEN [history[x] EXCEPT !.deletedAtVersion = stamp[x]]
       ELSE history[x]]

\* Slips a change of garbageCollect could make: a strict comparison with the
\* current version, the newest snapshot for the oldest, live records too.
ReclaimableStrict(history, held, version) ==
    {x \in DOMAIN history :
       /\ history[x].deletedAtVersion # 0
       /\ IF held = {} THEN history[x].deletedAtVersion < version
          ELSE \A v \in held : history[x].deletedAtVersion <= v}
ReclaimableNewest(history, held, version) ==
    {x \in DOMAIN history :
       /\ history[x].deletedAtVersion # 0
       /\ IF held = {} THEN history[x].deletedAtVersion <= version
          ELSE \E v \in held : history[x].deletedAtVersion <= v}
ReclaimableLive(history, held, version) ==
    {x \in DOMAIN history :
       IF held = {} THEN history[x].deletedAtVersion <= version
       ELSE \A v \in held : history[x].deletedAtVersion <= v}

\* garbageCollect: the records it drops, given who is active at which version.
\* d <= cutoff, the cutoff being the oldest held version, or else the current.
Reclaimable(history, held, version) ==
    {x \in DOMAIN history :
       /\ history[x].deletedAtVersion # 0
       /\ IF held = {} THEN history[x].deletedAtVersion <= version
          ELSE \A v \in held : history[x].deletedAtVersion <= v}

\* A garbageCollect that spares only edges for the open snapshots.
GarbageCollectNodesUnheld(nodeHistory, edgeHistory, held, version) ==
    LET gone == Reclaimable(nodeHistory, {}, version)
    IN  /\ mvccNodes' = Without(nodeHistory, gone)
        /\ mvccNodeOrder' = mvccNodeOrder \ gone
        /\ mvccEdges' = Without(edgeHistory, Reclaimable(edgeHistory, held, version))

\* A garbageCollect that forgets its edge half.
GarbageCollectNodes(nodeHistory, edgeHistory, held, version) ==
    LET gone == Reclaimable(nodeHistory, held, version)
    IN  /\ mvccNodes' = Without(nodeHistory, gone)
        /\ mvccNodeOrder' = mvccNodeOrder \ gone
        /\ mvccEdges' = edgeHistory

GarbageCollect(nodeHistory, edgeHistory, held, version) ==
    LET gone == Reclaimable(nodeHistory, held, version)
    IN  /\ mvccNodes' = Without(nodeHistory, gone)
        /\ mvccNodeOrder' = mvccNodeOrder \ gone
        /\ mvccEdges' = Without(edgeHistory, Reclaimable(edgeHistory, held, version))

From == [e \in DOMAIN edges |-> edges[e].from]
To == [e \in DOMAIN edges |-> edges[e].to]

\* RemoveAdjacency of every edge of a set.  Erasing a neighbour erases all of
\* its occurrences, whichever edge put them there.
AdjacencyWithout(adjacency, end, gone) ==
    [n \in NodeIds |-> adjacency[n] \ {e \in gone : end[e] = n}]
NeighboursKept(neighbour, end, other, gone) == neighbour  \* a forgotten erase
NeighboursWithout(neighbour, end, other, gone) ==
    [n \in NodeIds |-> [m \in NodeIds |->
       IF \E e \in gone : end[e] = n /\ other[e] = m THEN 0 ELSE neighbour[n][m]]]

\* The index part of DeleteEdge, for a set of edges.
RemoveEdges(gone) ==
    /\ edges' = Without(edges, gone)
    /\ labelToEdges' = [l \in Labels |-> labelToEdges[l] \ {e \in gone : edges[e].label = l}]
    /\ edgeInsertionOrder' = edgeInsertionOrder \ gone
    /\ UNCHANGED <<nextEdgeID, edgeLabels>>

-----------------------------------------------------------------------------
\* Mutations.  A call that fails its checks only reports it: no step.

CreateNode(label, properties) ==
    LET id == nextNodeID
        node == [label |-> label, properties |-> properties]
    IN  /\ id <= MaxNodes /\ VersionRoom(1)
        /\ nextNodeID' = id + 1
        /\ labelToNodes' = [labelToNodes EXCEPT ![label] = @ \cup {id}]
        /\ nodeLabels' = nodeLabels \cup {label}
        /\ currentVersion' = currentVersion + 1
        /\ mvccNodes' = Emplace(mvccNodes, id, Born(node))
        /\ mvccNodeOrder' = mvccNodeOrder \cup {id}
        /\ nodes' = Emplace(nodes, id, node)
        /\ nodeInsertionOrder' = nodeInsertionOrder \cup {id}
        /\ UNCHANGED <<edgeVars, activeSnapshots, mvccEdges>>

CreateEdge(from, to, label) ==
    LET id == nextEdgeID
        edge == [from |-> from, to |-> to, label |-> label]
    IN  /\ id <= MaxEdges /\ VersionRoom(1)
        /\ from \in DOMAIN nodes /\ to \in DOMAIN nodes
        /\ nextEdgeID' = id + 1
        /\ labelToEdges' = [labelToEdges EXCEPT ![label] = @ \cup {id}]
        /\ edgeLabels' = edgeLabels \cup {label}
        /\ currentVersion' = currentVersion + 1
        /\ mvccEdges' = Emplace(mvccEdges, id, Born(edge))
        /\ edges' = Emplace(edges, id, edge)
        /\ edgeInsertionOrder' = edgeInsertionOrder \cup {id}
        /\ adjacencyOut' = [adjacencyOut EXCEPT ![from] = @ \cup {id}]
        /\ adjacencyIn' = [adjacencyIn EXCEPT ![to] = @ \cup {id}]
        /\ neighbourOut' = [neighbourOut EXCEPT ![from][to] = @ + 1]
        /\ neighbourIn' = [neighbourIn EXCEPT ![to][from] = @ + 1]
        /\ UNCHANGED <<nodeVars, activeSnapshots, mvccNodes, mvccNodeOrder>>

\* DeleteEdge leaves the garbage collector alone.
DeleteEdge(id) ==
    /\ id \in DOMAIN edges /\ VersionRoom(1)
    /\ currentVersion' = currentVersion + 1
    /\ mvccEdges' = Tombstone(mvccEdges, [e \in {id} |-> currentVersion + 1])
    /\ RemoveEdges({id})
    /\ adjacencyOut' = AdjacencyWithout(adjacencyOut, From, {id})
    /\ adjacencyIn' = AdjacencyWithout(adjacencyIn, To, {id})
    /\ neighbourOut' = NeighboursWithout(neighbourOut, From, To, {id})
    /\ neighbourIn' = NeighboursWithout(neighbourIn, To, From, {id})
    /\ UNCHANGED <<nodeVars, activeSnapshots, mvccNodes, mvccNodeOrder>>

\* The edges DeleteNode deletes: those its adjacency lists name and that are
\* still there (an id listed twice, as a self-loop is, is gone the second time).
IncidentOutgoing(id) == adjacencyOut[id] \cap DOMAIN edges  \* a forgotten second pass
Incident(id) == (adjacencyOut[id] \cup adjacencyIn[id]) \cap DOMAIN edges

\* Outgoing edges first, each list in the order of creation.
DeletedBefore(id, d, e) ==
    \/ d \in adjacencyOut[id] /\ e \notin adjacencyOut[id]
    \/ (d \in adjacencyOut[id] <=> e \in adjacencyOut[id]) /\ d < e

\* One bump for the whole cascade.
CascadeStampShared(id) == [e \in Incident(id) |-> currentVersion + 1]

\* Each deletion bumps the version: the stamps are consecutive.
CascadeStamp(id) ==
    [e \in Incident(id) |->
       currentVersion + 1 + Cardinality({d \in Incident(id) : DeletedBefore(id, d, e)})]

DeleteNode(id) ==
    LET gone == Incident(id)
        version == currentVersion + Cardinality(gone) + 1
    IN  /\ id \in DOMAIN nodes /\ VersionRoom(Cardinality(gone) + 1)
        /\ RemoveEdges(gone)
        /\ currentVersion' = version
        /\ labelToNodes' = [labelToNodes EXCEPT ![nodes[id].label] = @ \ {id}]
        /\ adjacencyOut' = [AdjacencyWithout(adjacencyOut, From, gone) EXCEPT ![id] = {}]
        /\ adjacencyIn' = [AdjacencyWithout(adjacencyIn, To, gone) EXCEPT ![id] = {}]
        /\ neighbourOut' = [NeighboursWithout(neighbourOut, From, To, gone)
                              EXCEPT ![id] = [m \in NodeIds |-> 0]]
        /\ neighbourIn' = [NeighboursWithout(neighbourIn, To, From, gone)
                             EXCEPT ![id] = [m \in NodeIds |-> 0]]
        /\ nodes' = Without(nodes, {id})
        /\ nodeInsertionOrder' = nodeInsertionOrder \ {id}
        /\ GarbageCollect(Tombstone(mvccNodes, [n \in {id} |-> version]),
                          Tombstone(mvccEdges, CascadeStamp(id)), Held, version)
        /\ UNCHANGED <<nextNodeID, nodeLabels, activeSnapshots>>

\* Keys of the update are set, the others keep their value.
Merge(properties, updates) ==
    [k \in DOMAIN properties \cup DOMAIN updates |->
       IF k \in DOMAIN updates THEN updates[k] ELSE properties[k]]

\* The one record of the node is refreshed and re-stamped in place.
UpdateNodeProperties(id, updates) ==
    LET node == [nodes[id] EXCEPT !.properties = Merge(@, updates)]
    IN  /\ id \in DOMAIN nodes /\ VersionRoom(1)
        /\ nodes' = [nodes EXCEPT ![id] = node]
        /\ currentVersion' = currentVersion + 1
        /\ mvccNodes' = Put(mvccNodes, id, Born(node))
        /\ mvccNodeOrder' = IF id \in DOMAIN mvccNodes
                            THEN mvccNodeOrder ELSE mvccNodeOrder \cup {id}
        /\ UNCHANGED <<nextNodeID, labelToNodes, nodeLabels, nodeInsertionOrder, edgeVars,
                       activeSnapshots, mvccEdges>>

\* Setting the label an edge already has changes nothing.
UpdateEdgeLabel(id, newLabel) ==
    LET edge == [edges[id] EXCEPT !.label = newLabel]
    IN  /\ id \in DOMAIN edges /\ VersionRoom(1)
        /\ edges[id].label # newLabel
        /\ labelToEdges' = [labelToEdges EXCEPT ![edges[id].label] = @ \ {id},
                                                ![newLabel] = @ \cup {id}]
        /\ edgeLabels' = edgeLabels \cup {newLabel}
        /\ edges' = [edges EXCEPT ![id] = edge]
        /\ currentVersion' = currentVersion + 1
        /\ mvccEdges' = Put(mvccEdges, id, Born(edge))
        /\ UNCHANGED <<nextEdgeID, edgeInsertionOrder, adjacencyVars, nodeVars,
                       activeSnapshots, mvccNodes, mvccNodeOrder>>

-----------------------------------------------------------------------------
\* Snapshots

CaptureSnapshot ==
    /\ SumFunction(activeSnapshots) < MaxSnapshots
    /\ activeSnapshots' = [activeSnapshots EXCEPT ![currentVersion] = @ + 1]
    /\ UNCHANGED <<nodeVars, edgeVars, currentVersion, historyVars>>

UnregisterUnchecked(version) == [activeSnapshots EXCEPT ![version] = @ - 1]

\* erase(find(version)), if there is one to find
Unregister(version) ==
    [activeSnapshots EXCEPT ![version] = IF @ > 0 THEN @ - 1 ELSE 0]

\* One registration of the version goes, if there is one; history no remaining
\* snapshot needs goes with it.
ReleaseSnapshot(version) ==
    LET active == Unregister(version)
    IN  /\ activeSnapshots' = active
        /\ GarbageCollect(mvccNodes, mvccEdges,
                          {v \in Versions : active[v] > 0}, currentVersion)
        /\ UNCHANGED <<nodeVars, edgeVars, currentVersion>>

-----------------------------------------------------------------------------
Init ==
    /\ nextNodeID = 1 /\ nextEdgeID = 1
    /\ nodes = EmptyMap /\ edges = EmptyMap
    /\ labelToNodes = [l \in Labels |-> {}]
    /\ labelToEdges = [l \in Labels |-> {}]
    /\ nodeLabels = {} /\ edgeLabels = {}
    /\ adjacencyOut = [n \in NodeIds |-> {}]
    /\ adjacencyIn = [n \in NodeIds |-> {}]
    /\ neighbourOut = [n \in NodeIds |-> [m \in NodeIds |-> 0]]
    /\ neighbourIn = [n \in NodeIds |-> [m \in NodeIds |-> 0]]
    /\ nodeInsertionOrder = {} /\ edgeInsertionOrder = {}
    /\ currentVersion = 0
    /\ activeSnapshots = [v \in Versions |-> 0]
    /\ mvccNodes = EmptyMap /\ mvccEdges = EmptyMap /\ mvccNodeOrder = {}

Next ==
    \/ \E l \in Labels, p \in Properties : CreateNode(l, p)
    \/ \E a, b \in NodeIds, l \in Labels : CreateEdge(a, b, l)
    \/ \E e \in EdgeIds : DeleteEdge(e)
    \/ \E n \in NodeIds : DeleteNode(n)
    \/ \E n \in NodeIds, p \in Properties : UpdateNodeProperties(n, p)
    \/ \E e \in EdgeIds, l \in Labels : UpdateEdgeLabel(e, l)
    \/ CaptureSnapshot
    \/ \E v \in Versions : ReleaseSnapshot(v)

Spec == Init /\ [][Next]_vars

-----------------------------------------------------------------------------
\* Properties

TypeOK ==
    /\ nextNodeID \in 1 .. MaxNodes + 1
    /\ nextEdgeID \in 1 .. MaxEdges + 1
    /\ DOMAIN nodes \subseteq NodeIds /\ nodes \in [DOMAIN nodes -> Node]
    /\ DOMAIN edges \subseteq EdgeIds /\ edges \in [DOMAIN edges -> Edge]
    /\ labelToNodes \in [Labels -> SUBSET NodeIds]
    /\ labelToEdges \in [Labels -> SUBSET EdgeIds]
    /\ nodeLabels \subseteq Labels /\ edgeLabels \subseteq Labels
    /\ adjacencyOut \in [NodeIds -> SUBSET EdgeIds]
    /\ adjacencyIn \in [NodeIds -> SUBSET EdgeIds]
    /\ neighbourOut \in [NodeIds -> [NodeIds -> Nat]]
    /\ neighbourIn \in [NodeIds -> [NodeIds -> Nat]]
    /\ nodeInsertionOrder \subseteq NodeIds
    /\ edgeInsertionOrder \subseteq EdgeIds
    /\ currentVersion \in Versions
    /\ activeSnapshots \in [Versions -> Nat]
    /\ DOMAIN mvccNodes \subseteq NodeIds
    /\ mvccNodes \in [DOMAIN mvccNodes -> RowVersion(Node)]
    /\ DOMAIN mvccEdges \subseteq EdgeIds
    /\ mvccEdges \in [DOMAIN mvccEdges -> RowVersion(Edge)]
    /\ mvccNodeOrder \subseteq NodeIds

EndpointsLive ==
    \A e \in DOMAIN edges : {edges[e].from, edges[e].to} \subseteq DOMAIN nodes

\* Every index names exactly the live rows it should.  FindEdgesByLabel,
\* GetOutgoingEdges and the others look an indexed id up with edges.at(), which
\* throws for an id that is no longer there; a row missing from an index is lost
\* to every query that starts from it, and to DeleteNode's cascade.
IndexesMatchLive ==
    /\ EndpointsLive
    /\ \A l \in Labels :
         /\ labelToNodes[l] = {n \in DOMAIN nodes : nodes[n].label = l}
         /\ labelToEdges[l] = {e \in DOMAIN edges : edges[e].label = l}
    /\ \A n \in NodeIds :
         /\ adjacencyOut[n] = {e \in DOMAIN edges : edges[e].from = n}
         /\ adjacencyIn[n] = {e \in DOMAIN edges : edges[e].to = n}
    /\ nodeInsertionOrder = DOMAIN nodes
    /\ edgeInsertionOrder = DOMAIN edges

EdgesBetween(n, m) == {e \in DOMAIN edges : edges[e].from = n /\ edges[e].to = m}

\* The neighbour lists BFS and the CSR are built from never lead along an edge
\* that is gone, and the two directions agree, parallel edges and self-loops
\* included.
NeighboursAreEdges ==
    \A n, m \in NodeIds :
        /\ neighbourOut[n][m] = neighbourIn[m][n]
        /\ neighbourOut[n][m] > 0 => EdgesBetween(n, m) # {}

\* The history "mirrors every create": its records without a deletion stamp are
\* the live rows, payload included, so GC's rule "a live record is never
\* reclaimed" is the live graph's, and no node is lost to the ordered scan.
HistoryMirrorsLive ==
    /\ DOMAIN nodes = {n \in DOMAIN mvccNodes : mvccNodes[n].deletedAtVersion = 0}
    /\ DOMAIN edges = {e \in DOMAIN mvccEdges : mvccEdges[e].deletedAtVersion = 0}
    /\ \A n \in DOMAIN nodes : mvccNodes[n].row = nodes[n]
    /\ \A e \in DOMAIN edges : mvccEdges[e].row = edges[e]
    /\ mvccNodeOrder = DOMAIN mvccNodes

\* All stamps in the history, each with the row and the event it marks.
Stamps ==
    {<<"node", n, "create", mvccNodes[n].createdAtVersion>> : n \in DOMAIN mvccNodes}
    \cup {<<"edge", e, "create", mvccEdges[e].createdAtVersion>> : e \in DOMAIN mvccEdges}
    \cup {<<"node", n, "delete", mvccNodes[n].deletedAtVersion>> : n \in DOMAIN mvccNodes \ DOMAIN nodes}
    \cup {<<"edge", e, "delete", mvccEdges[e].deletedAtVersion>> : e \in DOMAIN mvccEdges \ DOMAIN edges}

\* "Bumped before each mutation so that the resulting create/delete stamp is
\* unique and ordered" (Graph.h:129): no two events share a version, also not
\* within a cascade, and no stamp lies in the future.
StampsUnique ==
    /\ \A s, t \in Stamps : s[4] = t[4] => s = t
    /\ \A s \in Stamps : s[4] \in 1 .. currentVersion

\* Garbage collection never takes an endpoint from under an edge it keeps: the
\* record of each endpoint outlives the record of the edge, and was deleted, if
\* at all, by a later bump of the same or a later DeleteNode.  A snapshot that
\* sees an edge may miss an endpoint only because an update re-stamped it.
EndpointHistoryRetained ==
    \A e \in DOMAIN mvccEdges :
        \A n \in {mvccEdges[e].row.from, mvccEdges[e].row.to} :
            /\ n \in DOMAIN mvccNodes
            /\ mvccNodes[n].deletedAtVersion # 0 =>
                 /\ mvccEdges[e].deletedAtVersion # 0
                 /\ mvccEdges[e].deletedAtVersion < mvccNodes[n].deletedAtVersion

\* Once the last snapshot is released no deleted node is retained: churning
\* nodes cannot grow the history.
NoNodeGarbage ==
    Held = {} => \A n \in DOMAIN mvccNodes : mvccNodes[n].deletedAtVersion = 0

\* The strengthening that makes the invariants above inductive: ids not handed
\* out yet are in use nowhere, the labels in use are listed, and a record's
\* stamps are in order.
FreshIds ==
    /\ \A n \in DOMAIN nodes \cup DOMAIN mvccNodes : n < nextNodeID
    /\ \A e \in DOMAIN edges \cup DOMAIN mvccEdges : e < nextEdgeID

\* A label some row has is one that has had a row, or SELECT would report that
\* there is none.
LabelsListed ==
    /\ {nodes[n].label : n \in DOMAIN nodes} \subseteq nodeLabels
    /\ {edges[e].label : e \in DOMAIN edges} \subseteq edgeLabels

Lifetime(record) ==
    /\ record.createdAtVersion \in 1 .. currentVersion
    /\ record.deletedAtVersion # 0 =>
         record.deletedAtVersion \in record.createdAtVersion + 1 .. currentVersion

StampsOrdered ==
    /\ \A n \in DOMAIN mvccNodes : Lifetime(mvccNodes[n])
    /\ \A e \in DOMAIN mvccEdges : Lifetime(mvccEdges[e])

IInv ==
    /\ TypeOK /\ FreshIds /\ LabelsListed /\ StampsOrdered
    /\ IndexesMatchLive /\ NeighboursAreEdges
    /\ HistoryMirrorsLive /\ EndpointHistoryRetained /\ NoNodeGarbage

\* What a reader at a held version gets, as SnapshotGraph's views.
Views == [v \in Held |-> [nodes |-> NodesAtVersion(v), edges |-> EdgesAtVersion(v)]]

Abstract == INSTANCE SnapshotGraph WITH
    usedNodes <- 1 .. nextNodeID - 1,
    usedEdges <- 1 .. nextEdgeID - 1,
    views <- Views

\* The class keeps the promise of SnapshotGraph: every held version goes on
\* reading the graph as it was captured whatever is created, deleted, released
\* or collected meanwhile (updated rows excepted), a capture reads the live
\* graph, and deletions take all of their incident edges and nothing else.
ImplementsSnapshotGraph == Abstract!Spec

-----------------------------------------------------------------------------
\* Statements of the source's comments that the code does not keep

\* README.md:7 "a directed, labelled multigraph", and Graph.h:287 "used
\* internally when deleting edges to keep graph indices consistent": an edge
\* that is there can be walked by the searchers.
TraversalSeesEveryEdge ==
    \A e \in DOMAIN edges : neighbourOut[edges[e].from][edges[e].to] > 0

=============================================================================
