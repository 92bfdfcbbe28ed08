---------------------------- MODULE MCTraversals ----------------------------
(***************************************************************************)
(* Small instances of Traversals for TLC.                                  *)
(***************************************************************************)
EXTENDS Traversals

\* A ring of five whose edges run either way, and a self-loop.
RingLinks == {<<1, 2>>, <<2, 5>>, <<1, 3>>, <<4, 3>>, <<5, 4>>, <<2, 2>>}
=============================================================================
