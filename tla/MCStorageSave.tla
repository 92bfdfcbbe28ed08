--------------------------- MODULE MCStorageSave ---------------------------
(***************************************************************************)
(* Small instances of StorageSave for TLC.                                 *)
(***************************************************************************)
EXTENDS StorageSave, TLC

Symmetry == Permutations(Paths)

POSIX(faults) == [replacing |-> TRUE, faults |-> faults]
Windows(faults) == [replacing |-> FALSE, faults |-> faults]

\* With and without a close() and a rename() that can be relied on.
AllPlatforms ==
    {POSIX({"open", "write", "remove"}), POSIX({"close"}), POSIX({"rename", "remove"}),
     Windows({"open", "write", "remove"}), Windows(FaultyCalls)}
=============================================================================
