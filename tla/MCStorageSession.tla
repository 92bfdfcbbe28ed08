-------------------------- MODULE MCStorageSession --------------------------
(***************************************************************************)
(* Small instances of StorageSession for TLC.                              *)
(***************************************************************************)
EXTENDS StorageSession, TLC

\* A file whose edge block starts with text and goes on with an edge to a node
\* that is not in it, and one with a line too many between the blocks.
Broken == {<<NodeLine("plain"), Blank, Blank, EdgeLine(0, 0), EdgeLine(0, 1)>>,
           <<NodeLine("plain"), Blank, NodeLine("plain")>>}

Symmetry == Permutations(Paths) \cup Permutations(Clients)
=============================================================================
