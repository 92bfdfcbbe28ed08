---------------------------- MODULE GraphHandler ----------------------------
(***************************************************************************)
(* The class GraphHandler: the graph with the snapshots clients hold by id *)
(* and the two files a session saves to and restores from.  Every command  *)
(* runs under the handler's lock from its first read to its last write, so *)
(* clients interleave command by command and each command is one action    *)
(* (an UPDATE of many rows, or an IMPORT CSV, is a run of single-row       *)
(* actions here: more interleavings than the lock allows, never fewer).  A *)
(* command that fails its checks only reports it.                          *)
(***************************************************************************)
EXTENDS Queries

CONSTANTS
    NoFile,           \* what a path holds before anything is written to it
    MaxSnapshotIds,   \* bound: snapshot ids handed out
    LoadAnytime,      \* LOAD also with rows or snapshots present, not only (as
                      \* QUERY_REFERENCE.md:730 asks) in a fresh server
    LoadSnapshots     \* sessions with the interactive menu's "load snapshot"

ASSUME HandlerAssumption ==
    MaxSnapshotIds \in Nat /\ LoadAnytime \in BOOLEAN /\ LoadSnapshots \in BOOLEAN

VARIABLES
    snapshots,        \* snapshots_: id -> CSR_Representation
    nextSnapshotId,
    graphFile,        \* what the last FLUSH wrote
    snapshotFile      \* what the last persistSnapshot wrote

handlerVars == <<snapshots, nextSnapshotId, graphFile, snapshotFile>>
graphVars == vars
allVars == <<vars, handlerVars>>

SnapshotIds == 1 .. MaxSnapshotIds

-----------------------------------------------------------------------------
\* Snapshots

\* The constructor registers the current version, Load_CSR fills the mappings.
createSnapshot ==
    /\ nextSnapshotId <= MaxSnapshotIds
    /\ CaptureSnapshot
    /\ snapshots' = Put(snapshots, nextSnapshotId,
                        Snapshot(currentVersion, nodeInsertionOrder, nodeInsertionOrder))
    /\ nextSnapshotId' = nextSnapshotId + 1
    /\ UNCHANGED <<graphFile, snapshotFile>>

\* The release the comment at GraphHandler.cpp:140 warns of: by the map's key.
ReleaseByKey(id) == ReleaseSnapshot(id)

\* The destructor of the CSR_Representation releases the version it holds now.
ReleaseVersion(id) == ReleaseSnapshot(snapshots[id].version)

releaseSnapshot(id) ==
    /\ id \in DOMAIN snapshots
    /\ ReleaseVersion(id)
    /\ snapshots' = Without(snapshots, {id})
    /\ UNCHANGED <<nextSnapshotId, graphFile, snapshotFile>>

persistSnapshot(id) ==
    /\ id \in DOMAIN snapshots
    /\ snapshotFile' = [version |-> snapshots[id].version, members |-> snapshots[id].members]
    /\ UNCHANGED <<graphVars, snapshots, nextSnapshotId, graphFile>>

\* The constructor registers the current version; the setters then replace the
\* version and csrToNode, but neither the registration nor nodeToCSR.
loadSnapshot ==
    /\ LoadSnapshots
    /\ nextSnapshotId <= MaxSnapshotIds /\ snapshotFile # NoFile
    /\ CaptureSnapshot
    /\ snapshots' = Put(snapshots, nextSnapshotId,
                        Snapshot(snapshotFile.version, snapshotFile.members, {}))
    /\ nextSnapshotId' = nextSnapshotId + 1
    /\ UNCHANGED <<graphFile, snapshotFile>>

\* The file cannot be read: the new CSR_Representation is destroyed unchanged,
\* and with its registration goes what no other snapshot needs.
loadSnapshotFails ==
    /\ LoadSnapshots
    /\ GarbageCollect(mvccNodes, mvccEdges, Held, currentVersion)
    /\ UNCHANGED <<nodeVars, edgeVars, currentVersion, activeSnapshots, handlerVars>>

-----------------------------------------------------------------------------
\* The binary file: rows in insertion order, endpoints as indexes into it.

InOrder(rows, ids) ==
    [i \in 1 .. Cardinality(ids) |-> rows[CHOOSE x \in ids : Position(ids, x) = i]]

\* The endpoints written as the ids they are in memory.
SavedWithIds(nodeRows, edgeRows) ==
    [nodes |-> InOrder(nodeRows, DOMAIN nodeRows), edges |-> InOrder(edgeRows, DOMAIN edgeRows)]

Saved(nodeRows, edgeRows) ==
    LET index(n) == Position(DOMAIN nodeRows, n)
        written == [e \in DOMAIN edgeRows |->
                      [edgeRows[e] EXCEPT !.from = index(@), !.to = index(@)]]
    IN  [nodes |-> InOrder(nodeRows, DOMAIN nodeRows),
         edges |-> InOrder(written, DOMAIN edgeRows)]

flush ==
    /\ graphFile' = Saved(nodes, edges)
    /\ UNCHANGED <<graphVars, snapshots, nextSnapshotId, snapshotFile>>

\* ReadEdges turns a file down whose edges name nodes it does not have.
EndpointsInFile(file) ==
    \A j \in 1 .. Len(file.edges) :
        {file.edges[j].from, file.edges[j].to} \subseteq 1 .. Len(file.nodes)

RebuiltRows(file, n, m) ==
    /\ nextNodeID' = n + 1 /\ nextEdgeID' = m + 1
    /\ nodes' = file.nodes /\ edges' = file.edges
    /\ nodeInsertionOrder' = 1 .. n /\ edgeInsertionOrder' = 1 .. m

RebuiltIndexes(file, n, m) ==
    LET between(a, b) == Cardinality({j \in 1 .. m : file.edges[j].from = a /\ file.edges[j].to = b})
    IN  /\ labelToNodes' = [l \in Labels |-> {i \in 1 .. n : file.nodes[i].label = l}]
        /\ labelToEdges' = [l \in Labels |-> {j \in 1 .. m : file.edges[j].label = l}]
        /\ nodeLabels' = {file.nodes[i].label : i \in 1 .. n}
        /\ edgeLabels' = {file.edges[j].label : j \in 1 .. m}
        /\ adjacencyOut' = [a \in NodeIds |-> {j \in 1 .. m : file.edges[j].from = a}]
        /\ adjacencyIn' = [a \in NodeIds |-> {j \in 1 .. m : file.edges[j].to = a}]
        /\ neighbourOut' = [a \in NodeIds |-> [b \in NodeIds |-> between(a, b)]]
        /\ neighbourIn' = [b \in NodeIds |-> [a \in NodeIds |-> between(a, b)]]

\* A swap that forgets the history and the registry.
HistoryKept(file, n, m) == UNCHANGED <<currentVersion, activeSnapshots, historyVars>>

RebuiltHistory(file, n, m) ==
    LET born(row, version) == [row |-> row, createdAtVersion |-> version, deletedAtVersion |-> 0]
    IN  /\ currentVersion' = n + m
        /\ mvccNodes' = [i \in 1 .. n |-> born(file.nodes[i], i)]
        /\ mvccNodeOrder' = 1 .. n
        /\ mvccEdges' = [j \in 1 .. m |-> born(file.edges[j], n + j)]
        /\ activeSnapshots' = [v \in Versions |-> 0]

\* A graph built anew, CreateNode by CreateNode and CreateEdge by CreateEdge,
\* replaces the one in memory, registrations included.
Rebuilt(file) ==
    LET n == Len(file.nodes)
        m == Len(file.edges)
    IN  /\ n + m <= MaxVersion
        /\ RebuiltRows(file, n, m) /\ RebuiltIndexes(file, n, m) /\ RebuiltHistory(file, n, m)

loadLive ==
    /\ graphFile # NoFile /\ EndpointsInFile(graphFile)
    /\ LoadAnytime \/ (nodes = EmptyMap /\ snapshots = EmptyMap)
    /\ Rebuilt(graphFile)
    /\ UNCHANGED handlerVars

-----------------------------------------------------------------------------
\* The process ends, in an orderly way or not, and is started again: memory is
\* gone, files stay.
Restart ==
    /\ Rebuilt([nodes |-> << >>, edges |-> << >>])
    /\ snapshots' = EmptyMap /\ nextSnapshotId' = 1
    /\ UNCHANGED <<graphFile, snapshotFile>>

Mutation ==
    \/ \E l \in Labels, p \in Properties : CreateNode(l, p)
    \/ \E a, b \in NodeIds, l \in Labels : CreateEdge(a, b, l)
    \/ \E e \in EdgeIds : DeleteEdge(e)
    \/ \E n \in NodeIds : DeleteNode(n)
    \/ \E n \in NodeIds, p \in Properties : UpdateNodeProperties(n, p)
    \/ \E e \in EdgeIds, l \in Labels : UpdateEdgeLabel(e, l)

HandlerInit ==
    /\ Init
    /\ snapshots = EmptyMap /\ nextSnapshotId = 1
    /\ graphFile = NoFile /\ snapshotFile = NoFile

HandlerNext ==
    \/ Mutation /\ UNCHANGED handlerVars
    \/ createSnapshot
    \/ \E id \in SnapshotIds : releaseSnapshot(id) \/ persistSnapshot(id)
    \/ loadSnapshot \/ loadSnapshotFails
    \/ flush \/ loadLive
    \/ Restart

HandlerSpec == HandlerInit /\ [][HandlerNext]_allVars

-----------------------------------------------------------------------------
\* What a client that names a snapshot reads

ScanNodes(id) == Restrict(RowsAt(mvccNodes, snapshots[id].version),
                   snapshots[id].members \cap DOMAIN RowsAt(mvccNodes, snapshots[id].version))
ScanEdges(id) == EdgesAtVersion(snapshots[id].version)

-----------------------------------------------------------------------------
\* Properties

\* A step leaves what was read at a version alone: no row appears, and a row
\* goes only because an update re-stamped it with a later version.
ViewKept(history, read, historyNext, readNext, version) ==
    /\ DOMAIN readNext \subseteq DOMAIN read
    /\ \A x \in DOMAIN read :
         \/ x \in DOMAIN readNext /\ readNext[x] = read[x]
         \/ x \in DOMAIN historyNext /\ historyNext[x].createdAtVersion > version

SnapshotKept(id) ==
    LET v == snapshots[id].version
    IN  /\ ViewKept(mvccNodes, ScanNodes(id), mvccNodes', ScanNodes(id)', v)
        /\ ViewKept(mvccEdges, ScanEdges(id), mvccEdges', ScanEdges(id)', v)

\* QUERY_REFERENCE.md:532 a snapshot shows "the state as it was at the moment the
\* snapshot was captured, unaffected by any insert or delete applied afterwards",
\* nor by other clients' snapshots coming and going, by FLUSH or by the collector
\* (UPDATE is the documented exception).
SnapshotsFrozen ==
    [][\A id \in DOMAIN snapshots \cap DOMAIN snapshots' : SnapshotKept(id)]_allVars

\* The fast paths of a snapshot stay true to its scan while the graph moves on:
\* the label index and the id map, both built at capture, lead to every row the
\* scan still shows and to no other.
SnapshotIndexesAsScan ==
    \A id \in DOMAIN snapshots :
        LET s == snapshots[id]
            scan == executeSelectNodesSnapshot(s, << >>, MaxNodes).rows
            found(property, value) == executeSelectNodesSnapshot(s,
                <<[property |-> property, op |-> "=", value |-> value, logicOp |-> ""]>>, MaxNodes).rows
        IN  /\ \A l \in Labels : found("LABEL", l) = {n \in scan : mvccNodes[n].row.label = l}
            /\ \A n \in NodeIds : found("ID", n) = {n} \cap scan

\* SELECT * FROM GRAPH SNAPSHOT hides an edge only if an update has re-stamped one
\* of its endpoints since: neither a cascade nor the collector ever takes a node
\* away from an edge the snapshot still shows.
GraphReadWhole ==
    \A id \in DOMAIN snapshots :
        LET s == snapshots[id]
            read == executeSelectGraphSnapshot(s, MaxNodes + MaxEdges)
        IN  \A e \in DOMAIN ScanEdges(id) \ read.edges :
              \E n \in {ScanEdges(id)[e].from, ScanEdges(id)[e].to} \cap DOMAIN mvccNodes :
                  mvccNodes[n].createdAtVersion > s.version

\* The registry of the graph and the map of the handler agree: each version is
\* registered once per open snapshot of it.  One registration too few and the
\* collector takes rows from under a client; one too many and it stops for good.
Registrations ==
    \A v \in Versions :
        activeSnapshots[v] = Cardinality({id \in DOMAIN snapshots : snapshots[id].version = v})

\* Equal up to a renaming of the ids that keeps their order.
SameGraph(nodesA, edgesA, nodesB, edgesB) ==
    \E f \in [DOMAIN nodesA -> DOMAIN nodesB], g \in [DOMAIN edgesA -> DOMAIN edgesB] :
        /\ \A m, n \in DOMAIN nodesA : m < n <=> f[m] < f[n]
        /\ \A d, e \in DOMAIN edgesA : d < e <=> g[d] < g[e]
        /\ {f[n] : n \in DOMAIN nodesA} = DOMAIN nodesB
        /\ {g[e] : e \in DOMAIN edgesA} = DOMAIN edgesB
        /\ \A n \in DOMAIN nodesA : nodesB[f[n]] = nodesA[n]
        /\ \A e \in DOMAIN edgesA :
             edgesB[g[e]] = [from |-> f[edgesA[e].from], to |-> f[edgesA[e].to],
                             label |-> edgesA[e].label]

\* FLUSH and LOAD between them bring back the graph that was there, gaps left in
\* the ids by deletions, parallel edges and self-loops included.
RoundTrip ==
    [][/\ flush => SameGraph(nodes, edges, graphFile'.nodes, graphFile'.edges)
       /\ loadLive => SameGraph(graphFile.nodes, graphFile.edges, nodes', edges')]_allVars

-----------------------------------------------------------------------------
\* Statements of the documentation and of comments that the code does not keep

\* CSR_Representation.cpp:3 a snapshot's registration "guarantees the graph
\* retains history visible at that version until this object is destroyed": no
\* insert or delete changes what it shows, also not after a LOAD.
MutationsSpareSnapshots == [][Mutation => \A id \in DOMAIN snapshots : SnapshotKept(id)]_allVars

=============================================================================
