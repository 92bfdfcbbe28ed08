---------------------------- MODULE SnapshotGraph ----------------------------
(***************************************************************************)
(* What the Graph class promises its callers, with none of the indexes or  *)
(* version stamps that implement it: a directed, labelled multigraph, and  *)
(* the views of it that CaptureSnapshot() holds until ReleaseSnapshot().   *)
(*                                                                         *)
(* A view is the graph as it was when its version was captured, except     *)
(* that a row UPDATEd later leaves every view captured before the update   *)
(* (the history keeps one record per id and re-stamps it in place).        *)
(***************************************************************************)
EXTENDS PartialMaps

CONSTANTS NodeIds, EdgeIds, Labels, Properties, Versions

VARIABLES
    nodes,      \* live rows: a function from some of NodeIds
    edges,      \* live rows: a function from some of EdgeIds
    usedNodes,  \* ids ever handed out
    usedEdges,
    views       \* version -> the rows a reader at that version gets

vars == <<nodes, edges, usedNodes, usedEdges, views>>

Init ==
    /\ nodes = EmptyMap /\ edges = EmptyMap
    /\ usedNodes = {} /\ usedEdges = {}
    /\ views = EmptyMap

AddNode ==
    \E n \in NodeIds \ usedNodes, l \in Labels, p \in Properties :
        /\ nodes' = Put(nodes, n, [label |-> l, properties |-> p])
        /\ usedNodes' = usedNodes \cup {n}
        /\ UNCHANGED <<edges, usedEdges, views>>

AddEdge ==
    \E e \in EdgeIds \ usedEdges, l \in Labels, a, b \in DOMAIN nodes :
        /\ edges' = Put(edges, e, [from |-> a, to |-> b, label |-> l])
        /\ usedEdges' = usedEdges \cup {e}
        /\ UNCHANGED <<nodes, usedNodes, views>>

RemoveEdge ==
    \E e \in DOMAIN edges :
        /\ edges' = Without(edges, {e})
        /\ UNCHANGED <<nodes, usedNodes, usedEdges, views>>

\* A node takes every edge it is an endpoint of with it, and no other edge.
RemoveNode ==
    \E n \in DOMAIN nodes :
        /\ nodes' = Without(nodes, {n})
        /\ edges' = Without(edges, {e \in DOMAIN edges : n \in {edges[e].from, edges[e].to}})
        /\ UNCHANGED <<usedNodes, usedEdges, views>>

SetProperties ==
    \E n \in DOMAIN nodes, p \in Properties :
        /\ nodes' = [nodes EXCEPT ![n].properties = p]
        /\ views' = [v \in DOMAIN views |->
                       [views[v] EXCEPT !.nodes = Without(views[v].nodes, {n})]]
        /\ UNCHANGED <<edges, usedNodes, usedEdges>>

SetLabel ==
    \E e \in DOMAIN edges, l \in Labels :
        /\ edges' = [edges EXCEPT ![e].label = l]
        /\ views' = [v \in DOMAIN views |->
                       [views[v] EXCEPT !.edges = Without(views[v].edges, {e})]]
        /\ UNCHANGED <<nodes, usedNodes, usedEdges>>

\* A version handed out twice names the same graph both times.
Capture ==
    \E v \in Versions :
        LET now == [nodes |-> nodes, edges |-> edges]
        IN  /\ v \in DOMAIN views => views[v] = now
            /\ views' = Put(views, v, now)
            /\ UNCHANGED <<nodes, edges, usedNodes, usedEdges>>

\* The last holder of a version lets its view go.
Release ==
    \E v \in DOMAIN views :
        /\ views' = Without(views, {v})
        /\ UNCHANGED <<nodes, edges, usedNodes, usedEdges>>

Next ==
    \/ AddNode \/ AddEdge
    \/ RemoveEdge \/ RemoveNode
    \/ SetProperties \/ SetLabel
    \/ Capture \/ Release

Spec == Init /\ [][Next]_vars
=============================================================================
