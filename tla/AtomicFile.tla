----------------------------- MODULE AtomicFile -----------------------------
(***************************************************************************)
(* What FLUSH promises (QUERY_REFERENCE.md:744 "the write is atomic"): the *)
(* content of a file is replaced in one step by the graph in memory, and   *)
(* nothing else, a crash in particular, ever touches it.  On a platform    *)
(* where the calls it is made of cannot be atomic the file may also be     *)
(* lost or torn.                                                           *)
(***************************************************************************)
CONSTANTS Paths, Graphs, NoFile, Torn, EmptyGraph

VARIABLES file, graph, atomic

vars == <<file, graph, atomic>>

Init ==
    /\ file = [p \in Paths |-> NoFile]
    /\ graph = EmptyGraph
    /\ atomic \in BOOLEAN

Replace(p) == file' = [file EXCEPT ![p] = graph] /\ UNCHANGED <<graph, atomic>>

Damage(p) ==
    /\ ~atomic
    /\ file' \in {[file EXCEPT ![p] = content] : content \in {NoFile, Torn}}
    /\ UNCHANGED <<graph, atomic>>

\* Queries change the graph in memory, LOAD replaces it, a restart loses it.
Change == graph' \in Graphs /\ UNCHANGED <<file, atomic>>

Next == Change \/ \E p \in Paths : Replace(p) \/ Damage(p)

Spec == Init /\ [][Next]_vars
=============================================================================
