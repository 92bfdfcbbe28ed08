------------------------- MODULE StorageSaveProofs --------------------------
(***************************************************************************)
(* What the properties of StorageSave rest on, for any paths, graphs and   *)
(* platforms.                                                              *)
(***************************************************************************)
EXTENDS StorageSave, TLAPS

-----------------------------------------------------------------------------
\* Type correctness

LEMMA TypeStep == TypeOK /\ [Next]_vars => TypeOK'
<1> SUFFICES ASSUME TypeOK, [Next]_vars PROVE TypeOK'
  OBVIOUS
<1> USE StorageAssumption DEF TypeOK, Contents, Calls
<1>1. ASSUME NEW p \in Paths, Save(p) PROVE TypeOK'
  BY <1>1 DEF Save, disk
<1>2. ASSUME NEW p \in Paths, Load(p) PROVE TypeOK'
  BY <1>2 DEF Load, Loaded, disk, callVars
<1>3. CASE OpenOutputFile
  BY <1>3 DEF OpenOutputFile, Goto, Return, callVars
<1>4. CASE Write
  BY <1>4 DEF Write, Goto, disk
<1>5. CASE CloseOutputFile
  BY <1>5 DEF CloseOutputFile, AfterClose, Goto, callVars
<1>6. CASE Rename
  BY <1>6 DEF Rename, Renames, RenameFails, Goto, Return, disk, callVars
<1>7. CASE RemoveTarget
  BY <1>7 DEF RemoveTarget, Goto, callVars
<1>8. CASE RenameAgain
  BY <1>8 DEF RenameAgain, Renames, RenameFails, Goto, Return, disk, callVars
<1>9. CASE RemoveTemp
  BY <1>9 DEF RemoveTemp, Return, callVars
<1>10. CASE Mutate
  BY <1>10 DEF Mutate, disk, callVars
<1>11. CASE Crash
  BY <1>11 DEF Crash, disk, callVars
<1>12. CASE UNCHANGED vars
  BY <1>12 DEF vars, disk, callVars
<1> QED
  BY <1>1, <1>2, <1>3, <1>4, <1>5, <1>6, <1>7, <1>8, <1>9, <1>10, <1>11, <1>12 DEF Next

\* The disk, the engine and the call in progress keep to their types: in
\* particular no LOAD makes a torn or missing file the live graph.
THEOREM TypeCorrect == Spec => []TypeOK
<1>1. Init => TypeOK
  BY StorageAssumption DEF Init, TypeOK, Contents
<1> QED
  BY <1>1, TypeStep, PTL DEF Spec

-----------------------------------------------------------------------------
\* Save renames only what it has written completely.

Renaming == pc \in {"rename", "removeTarget", "renameAgain"}

\* Save gets as far as its renames only with its flag up.
Flagged == Renaming => ok

LEMMA FlaggedStep == TypeOK /\ Flagged /\ [Next]_vars => Flagged'
<1> SUFFICES ASSUME TypeOK, Flagged, [Next]_vars PROVE Flagged'
  OBVIOUS
<1> USE DEF Flagged, Renaming
<1>1. ASSUME NEW p \in Paths, Save(p) \/ Load(p) PROVE Flagged'
  BY <1>1 DEF Save, Load, callVars
<1>2. CASE OpenOutputFile \/ Write \/ CloseOutputFile
  BY <1>2 DEF OpenOutputFile, Write, CloseOutputFile, AfterClose, Goto, Return, callVars
<1>3. CASE Rename \/ RemoveTarget \/ RenameAgain \/ RemoveTemp
  BY <1>3 DEF Rename, RemoveTarget, RenameAgain, RemoveTemp, Goto, Return, callVars
<1>4. CASE Mutate \/ Crash \/ UNCHANGED vars
  BY <1>4 DEF Mutate, Crash, vars, callVars
<1> QED
  BY <1>1, <1>2, <1>3, <1>4 DEF Next

\* With a close() that writes out what is buffered, the temp file is complete
\* by the time it is renamed.
TempComplete == CloseReliable /\ Renaming => temp[graphFilePath] = graph
OneOutcome == pc # "idle" => outcome = "none"

\* What is inductive besides the types.
SavedInv == Flagged /\ OneOutcome /\ TempComplete /\ SavedIsOnDisk

LEMMA SavedStep ==
    ASSUME TypeOK, SavedInv, [Next]_vars
    PROVE  SavedInv'
<1> USE DEF CloseReliable, Faults, TypeOK, SavedInv, OneOutcome, TempComplete, SavedIsOnDisk, Renaming
<1>1. Flagged'
  BY FlaggedStep
<1> USE DEF Flagged
<1>2. ASSUME NEW p \in Paths, Save(p) \/ Load(p) PROVE SavedInv'
  BY <1>1, <1>2 DEF Save, Load, disk, callVars
<1>3. CASE OpenOutputFile
  BY <1>1, <1>3 DEF OpenOutputFile, Goto, Return, callVars
<1>4. CASE Write
  BY <1>1, <1>4 DEF Write, Goto, disk
<1>5. CASE CloseOutputFile
  BY <1>1, <1>5 DEF CloseOutputFile, AfterClose, Goto, callVars
<1>6. CASE Rename \/ RenameAgain
  BY <1>1, <1>6 DEF Rename, RenameAgain, Renames, RenameFails, Goto, Return, disk, callVars
<1>7. CASE RemoveTarget
  BY <1>1, <1>7 DEF RemoveTarget, Goto, callVars
<1>8. CASE RemoveTemp
  BY <1>1, <1>8 DEF RemoveTemp, Return, callVars
<1>9. CASE Mutate \/ Crash
  BY <1>1, <1>9 DEF Mutate, Crash, disk, callVars
<1>10. CASE UNCHANGED vars
  BY <1>1, <1>10 DEF vars, disk, callVars
<1> QED
  BY <1>2, <1>3, <1>4, <1>5, <1>6, <1>7, <1>8, <1>9, <1>10 DEF Next

LEMMA SavedInit == Init => TypeOK /\ SavedInv
BY StorageAssumption
   DEF Init, TypeOK, Contents, SavedInv, Flagged, Renaming, OneOutcome, TempComplete, SavedIsOnDisk

\* A success that Save reports is true on every platform, as long as close()
\* does not lose what was buffered.
THEOREM SavedCorrect == Spec => []SavedIsOnDisk
<1>1. TypeOK /\ SavedInv /\ [Next]_vars => (TypeOK /\ SavedInv)'
  BY TypeStep, SavedStep
<1>2. SavedInv => SavedIsOnDisk
  BY DEF SavedInv
<1> QED
  BY <1>1, <1>2, SavedInit, PTL DEF Spec

-----------------------------------------------------------------------------
\* Whatever fails, a file changes only by a Save that wrote everything.

LEMMA UntouchedStep ==
    TypeOK /\ SavedInv /\ [Next]_vars
      => [\A p \in Paths : file'[p] # file[p] =>
            p = graphFilePath /\ pc # "idle" /\ ok /\ (CloseReliable => temp[p] = graph)]_vars
<1> SUFFICES ASSUME TypeOK, SavedInv, Next, NEW q \in Paths, file'[q] # file[q]
             PROVE  q = graphFilePath /\ Renaming
  BY DEF SavedInv, Flagged, TempComplete, Renaming
<1> USE DEF TypeOK, Renaming
<1>1. ASSUME NEW p \in Paths, Save(p) \/ Load(p) PROVE FALSE
  BY <1>1 DEF Save, Load, disk
<1>2. CASE OpenOutputFile \/ Write \/ CloseOutputFile \/ RemoveTemp
  BY <1>2 DEF OpenOutputFile, Write, CloseOutputFile, RemoveTemp, disk
<1>3. CASE Mutate \/ Crash
  BY <1>3 DEF Mutate, Crash, disk
<1>4. CASE Rename \/ RenameAgain
  BY <1>4 DEF Rename, RenameAgain, Renames, RenameFails, disk
<1>5. CASE RemoveTarget
  BY <1>5 DEF RemoveTarget
<1> QED
  BY <1>1, <1>2, <1>3, <1>4, <1>5 DEF Next

\* A file changes only while it is being saved, and only once its new content stands
\* complete in the file beside it, whichever calls fail and wherever the process ends,
\* as long as close() does not lose what was buffered.
THEOREM Untouched == Spec => UntouchedUntilWritten
<1>1. TypeOK /\ SavedInv /\ [Next]_vars => (TypeOK /\ SavedInv)'
  BY TypeStep, SavedStep
<1> QED
  BY <1>1, UntouchedStep, SavedInit, PTL DEF Spec, UntouchedUntilWritten

-----------------------------------------------------------------------------
\* With a rename that fails only because the destination exists, besides, the
\* old content is never lost.

\* Where the old content is, call by call.
OldContent ==
  CloseReliable /\ RenameReliable =>
    /\ pc \in {"open", "write", "close", "rename", "removeTarget", "removeTemp"}
         => file[graphFilePath] = before
    /\ pc = "renameAgain" => file[graphFilePath] \in {before, NoFile}

KeptInv == SavedInv /\ OldContent /\ FailureKeepsTarget

LEMMA KeptStep ==
    ASSUME TypeOK, KeptInv, [Next]_vars
    PROVE  KeptInv'
<1> USE DEF KeptInv, OldContent, FailureKeepsTarget, CloseReliable, RenameReliable, Faults, TypeOK
<1>1. SavedInv'
  BY SavedStep
<1> USE DEF SavedInv, OneOutcome
<1> HIDE DEF SavedInv
<1>2. OneOutcome
  BY DEF SavedInv
<1>3. ASSUME NEW p \in Paths, Save(p) \/ Load(p) PROVE KeptInv'
  BY <1>1, <1>3 DEF Save, Load, disk, callVars
<1>4. CASE OpenOutputFile
  BY <1>1, <1>2, <1>4 DEF OpenOutputFile, Goto, Return, callVars
<1>5. CASE Write
  BY <1>1, <1>2, <1>5 DEF Write, Goto, disk
<1>6. CASE CloseOutputFile
  BY <1>1, <1>2, <1>6 DEF CloseOutputFile, AfterClose, Goto, callVars
<1>7. CASE Rename
  BY <1>1, <1>2, <1>7 DEF Rename, Renames, RenameFails, Goto, Return, disk, callVars
<1>8. CASE RemoveTarget
  BY <1>1, <1>2, <1>8 DEF RemoveTarget, Goto, callVars
<1>9. CASE RenameAgain
  BY <1>1, <1>2, <1>9 DEF RenameAgain, Renames, RenameFails, Goto, Return, disk, callVars
<1>10. CASE RemoveTemp
  BY <1>1, <1>2, <1>10 DEF RemoveTemp, Return, callVars
<1>11. CASE Mutate \/ Crash
  BY <1>1, <1>2, <1>11 DEF Mutate, Crash, disk, callVars
<1>12. CASE UNCHANGED vars
  BY <1>1, <1>2, <1>12 DEF vars, disk, callVars
<1> QED
  BY <1>3, <1>4, <1>5, <1>6, <1>7, <1>8, <1>9, <1>10, <1>11, <1>12 DEF Next

LEMMA KeptInit == Init => TypeOK /\ KeptInv
BY SavedInit DEF Init, KeptInv, OldContent, FailureKeepsTarget

LEMMA KeptHolds == TypeOK /\ KeptInv => CopyKept
BY DEF TypeOK, Calls, KeptInv, SavedInv, OneOutcome, OldContent, FailureKeepsTarget,
       SavedIsOnDisk, TempComplete, Renaming, CopyKept

\* A failed Save leaves the old graph in place, on every platform.
THEOREM FailureCorrect == Spec => []FailureKeepsTarget
<1>1. TypeOK /\ KeptInv /\ [Next]_vars => (TypeOK /\ KeptInv)'
  BY TypeStep, KeptStep
<1>2. KeptInv => FailureKeepsTarget
  BY DEF KeptInv
<1> QED
  BY <1>1, <1>2, KeptInit, PTL DEF Spec

\* At no instant is there neither the old nor the new graph on disk, under the name
\* of the file or that of its temp file.
THEOREM CopyCorrect == Spec => []CopyKept
<1>1. TypeOK /\ KeptInv /\ [Next]_vars => (TypeOK /\ KeptInv)'
  BY TypeStep, KeptStep
<1> QED
  BY <1>1, KeptHolds, KeptInit, PTL DEF Spec

-----------------------------------------------------------------------------
\* With a rename that replaces and fails for no other reason, Save never gets to
\* the fallback.

NoFallback == ReplacingRename /\ RenameReliable => pc \notin {"removeTarget", "renameAgain"}

LEMMA NoFallbackStep ==
    ASSUME TypeOK, NoFallback, [Next]_vars
    PROVE  NoFallback'
<1> USE DEF RenameReliable, ReplacingRename, Faults, NoFallback
<1>1. ASSUME NEW p \in Paths, Save(p) \/ Load(p) PROVE NoFallback'
  BY <1>1 DEF Save, Load
<1>2. CASE OpenOutputFile \/ Write \/ CloseOutputFile
  BY <1>2 DEF OpenOutputFile, Write, CloseOutputFile, AfterClose, Goto, Return
<1>3. CASE Rename
  BY <1>3 DEF Rename, Renames, RenameFails, Goto, Return
<1>4. CASE RemoveTarget \/ RenameAgain
  BY <1>4 DEF RemoveTarget, RenameAgain, Goto, Return
<1>5. CASE RemoveTemp \/ Mutate \/ Crash \/ UNCHANGED vars
  BY <1>5 DEF RemoveTemp, Mutate, Crash, Return, vars
<1> QED
  BY <1>1, <1>2, <1>3, <1>4, <1>5 DEF Next

\* Until close() the temp file is torn; what is renamed is the graph or torn.
TempContent ==
    /\ pc \in {"write", "close"} => temp[graphFilePath] = Torn
    /\ Renaming => temp[graphFilePath] \in {graph, Torn}

LEMMA TempContentStep ==
    ASSUME TypeOK, TempContent, [Next]_vars
    PROVE  TempContent'
<1> USE DEF TypeOK, TempContent, Renaming
<1>1. ASSUME NEW p \in Paths, Save(p) \/ Load(p) PROVE TempContent'
  BY <1>1 DEF Save, Load
<1>2. CASE OpenOutputFile
  BY <1>2 DEF OpenOutputFile, Goto, Return
<1>3. CASE Write
  BY <1>3 DEF Write, Goto, disk
<1>4. CASE CloseOutputFile
  BY <1>4 DEF CloseOutputFile, AfterClose, Goto
<1>5. CASE Rename \/ RenameAgain
  BY <1>5 DEF Rename, RenameAgain, Renames, RenameFails, Goto, Return, disk
<1>6. CASE RemoveTarget \/ RemoveTemp
  BY <1>6 DEF RemoveTarget, RemoveTemp, Goto, Return
<1>7. CASE Mutate \/ Crash \/ UNCHANGED vars
  BY <1>7 DEF Mutate, Crash, vars, disk
<1> QED
  BY <1>1, <1>2, <1>3, <1>4, <1>5, <1>6, <1>7 DEF Next

LEMMA StepImplements ==
    ASSUME TypeOK, NoFallback, TempComplete, TempContent, Next
    PROVE  Abstract!Next \/ UNCHANGED <<file, graph, Atomically>>
<1> DEFINE at == graphFilePath
<1>1. UNCHANGED Atomically
  <2>1. UNCHANGED platform
    BY DEF Next, Save, Load, OpenOutputFile, Write, CloseOutputFile, Rename, RemoveTarget,
           RenameAgain, RemoveTemp, Mutate, Crash
  <2> QED
    BY <2>1 DEF Atomically, ReplacingRename, CloseReliable, RenameReliable, Faults
<1>2. at \in Paths
  BY DEF TypeOK
<1>3. ASSUME Renames, Renaming, UNCHANGED graph PROVE Abstract!Replace(at) \/ Abstract!Damage(at)
  BY <1>1, <1>3 DEF Renames, TempComplete, TempContent, Atomically, Abstract!Replace, Abstract!Damage
<1>4. ASSUME NEW p \in Paths, Save(p) PROVE UNCHANGED <<file, graph>>
  BY <1>4 DEF Save, disk
<1>5. ASSUME NEW p \in Paths, Load(p) PROVE Abstract!Change
  BY <1>1, <1>5 DEF Load, Loaded, disk, TypeOK, Abstract!Change
<1>6. CASE OpenOutputFile \/ Write \/ CloseOutputFile \/ RemoveTemp
  BY <1>1, <1>6 DEF OpenOutputFile, Write, CloseOutputFile, RemoveTemp, disk
<1>7. CASE Rename \/ RenameAgain
  BY <1>1, <1>2, <1>3, <1>7
     DEF Rename, RenameAgain, RenameFails, Renaming, disk, Abstract!Next
<1>8. CASE RemoveTarget
  <2>1. ~Atomically
    BY <1>8 DEF RemoveTarget, NoFallback, Atomically
  <2>2. Abstract!Damage(at) \/ UNCHANGED <<file, graph>>
    BY <1>1, <1>8, <2>1 DEF RemoveTarget, Abstract!Damage
  <2> QED
    BY <1>1, <1>2, <2>2 DEF Abstract!Next
<1>9. CASE Mutate \/ Crash
  BY <1>1, <1>9, StorageAssumption DEF Mutate, Crash, disk, Abstract!Next, Abstract!Change
<1> QED
  BY <1>1, <1>4, <1>5, <1>6, <1>7, <1>8, <1>9 DEF Next, Abstract!Next

\* "The write is atomic": where rename replaces, and close() and rename() can be
\* relied on, Save implements AtomicFile without damage; elsewhere with it.
THEOREM Atomic == Spec => ImplementsAtomicFile
<1> DEFINE Inv == TypeOK /\ SavedInv /\ NoFallback /\ TempContent
<1>1. Init => Inv
  BY SavedInit DEF Init, NoFallback, TempContent, Renaming
<1>2. Inv /\ [Next]_vars => Inv'
  BY TypeStep, SavedStep, NoFallbackStep, TempContentStep
<1>3. Init => Abstract!Init
  BY DEF Init, Abstract!Init, Atomically, ReplacingRename, CloseReliable, RenameReliable
<1>4. Inv /\ [Next]_vars => [Abstract!Next]_Abstract!vars
  BY StepImplements
     DEF SavedInv, vars, disk, Abstract!vars, Atomically, ReplacingRename, CloseReliable,
         RenameReliable, Faults
<1> QED
  BY <1>1, <1>2, <1>3, <1>4, PTL DEF Spec, ImplementsAtomicFile, Abstract!Spec
=============================================================================
