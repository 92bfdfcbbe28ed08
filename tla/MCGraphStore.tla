---------------------------- MODULE MCGraphStore ----------------------------
(***************************************************************************)
(* Small instances of the graph and its queries.                           *)
(***************************************************************************)
EXTENDS Queries, TLC

Symmetry == Permutations(Labels)
=============================================================================
