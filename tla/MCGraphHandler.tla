--------------------------- MODULE MCGraphHandler ---------------------------
(***************************************************************************)
(* Small instances of GraphHandler for TLC.                                *)
(***************************************************************************)
EXTENDS GraphHandler
=============================================================================
