---------------------------- MODULE StorageSave -----------------------------
(***************************************************************************)
(* The steps of StorageEngine::Save on the file system, any of which may   *)
(* fail or be the last before the process ends: the temp file beside the   *)
(* target, the rename over it, and the fallback for platforms where rename *)
(* does not replace.  The handler's exclusive lock keeps other commands    *)
(* out until Save returns.  Payloads are the graphs themselves; a file is  *)
(* complete (a graph), torn (LOAD's checks turn it down), or not there.    *)
(***************************************************************************)
CONSTANTS
    Paths,             \* target files; each has its temp file beside it
    Graphs, EmptyGraph,
    NoFile, Torn,      \* contents that are no graph
    Platforms          \* what the process may run on

\* A platform: whether std::rename replaces an existing file (POSIX does, Windows
\* does not), and the calls that may fail on it.
FaultyCalls == {"open", "write", "close", "rename", "remove"}
Platform == [replacing : BOOLEAN, faults : SUBSET FaultyCalls]

ASSUME StorageAssumption ==
    /\ EmptyGraph \in Graphs
    /\ NoFile \notin Graphs /\ Torn \notin Graphs /\ NoFile # Torn
    /\ Platforms \subseteq Platform

VARIABLES
    platform,
    file, temp,        \* the disk: path -> content, of the file and of its .tmp
    graph,             \* the live graph
    graphFilePath,     \* the engine's path
    pc,                \* the next call of Save; "idle" outside
    ok,                \* Save's flag: all writes succeeded
    before,            \* what the target held when Save was called
    outcome            \* what Save returned last; "none" once something has
                       \* happened since

disk == <<file, temp>>
callVars == <<ok, before>>
vars == <<platform, disk, graph, graphFilePath, pc, callVars, outcome>>

Contents == Graphs \cup {NoFile, Torn}
Calls == {"open", "write", "close", "rename", "removeTarget", "renameAgain", "removeTemp"}

ReplacingRename == platform.replacing
Faults == platform.faults

Goto(next) == pc' = next /\ UNCHANGED outcome
Return(result) == pc' = "idle" /\ outcome' = result

-----------------------------------------------------------------------------
\* Save.  An early return leaves whatever is on disk.

SaveClearing(path) ==     \* a Save that makes room before it has anything to put there
    /\ pc = "idle"
    /\ graphFilePath' = path
    /\ before' = file[path]
    /\ file' = [file EXCEPT ![path] = NoFile]
    /\ pc' = "open" /\ outcome' = "none"
    /\ UNCHANGED <<platform, temp, graph, ok>>

Save(path) ==
    /\ pc = "idle"
    /\ graphFilePath' = path
    /\ before' = file[path]
    /\ pc' = "open" /\ outcome' = "none"
    /\ UNCHANGED <<platform, disk, graph, ok>>

OpenOutputFile ==
    /\ pc = "open"
    /\ \/ temp' = [temp EXCEPT ![graphFilePath] = Torn] /\ Goto("write")
       \/ "open" \in Faults /\ UNCHANGED temp /\ Return("failed")
    /\ UNCHANGED <<platform, file, graph, graphFilePath, callVars>>

\* WriteHeader, WriteNodes, WriteEdges and the CRC, into the stream's buffer.
Write ==
    /\ pc = "write"
    /\ ok' = TRUE \/ ("write" \in Faults /\ ok' = FALSE)
    /\ Goto("close")
    /\ UNCHANGED <<platform, disk, graph, graphFilePath, before>>

AfterCloseUnchecked == "rename"   \* a Save that forgets to look at its flag
AfterClose == IF ok THEN "rename" ELSE "removeTemp"

\* close() writes out what is buffered; nobody looks at whether it could.
CloseOutputFile ==
    /\ pc = "close"
    /\ \/ temp' = [temp EXCEPT ![graphFilePath] = IF ok THEN graph ELSE Torn]
       \/ "close" \in Faults /\ UNCHANGED temp
    /\ Goto(AfterClose)
    /\ UNCHANGED <<platform, file, graph, graphFilePath, callVars>>

\* The call: it needs a free destination where it does not replace.
Renames ==
    /\ ReplacingRename \/ file[graphFilePath] = NoFile
    /\ file' = [file EXCEPT ![graphFilePath] = temp[graphFilePath]]
    /\ temp' = [temp EXCEPT ![graphFilePath] = NoFile]
RenameFails ==
    /\ "rename" \in Faults \/ (~ReplacingRename /\ file[graphFilePath] # NoFile)
    /\ UNCHANGED disk

Rename ==
    /\ pc = "rename"
    /\ \/ Renames /\ Return("saved")
       \/ RenameFails /\ Goto("removeTarget")
    /\ UNCHANGED <<platform, graph, graphFilePath, callVars>>

RemoveTarget ==
    /\ pc = "removeTarget"
    /\ \/ file' = [file EXCEPT ![graphFilePath] = NoFile]
       \/ "remove" \in Faults /\ UNCHANGED file
    /\ Goto("renameAgain")
    /\ UNCHANGED <<platform, temp, graph, graphFilePath, callVars>>

RenameAgain ==
    /\ pc = "renameAgain"
    /\ \/ Renames /\ Return("saved")
       \/ RenameFails /\ Goto("removeTemp")
    /\ UNCHANGED <<platform, graph, graphFilePath, callVars>>

RemoveTemp ==
    /\ pc = "removeTemp"
    /\ \/ temp' = [temp EXCEPT ![graphFilePath] = NoFile]
       \/ "remove" \in Faults /\ UNCHANGED temp
    /\ Return("failed")
    /\ UNCHANGED <<platform, file, graph, graphFilePath, callVars>>

-----------------------------------------------------------------------------
\* What happens besides

\* Only a file that passes every check replaces the graph.
LoadedUnchecked(path) == file[path]
Loaded(path) == IF file[path] \in Graphs THEN file[path] ELSE graph

\* The engine keeps the path, also of a file it could not load.
Load(path) ==
    /\ pc = "idle"
    /\ graphFilePath' = path
    /\ graph' = Loaded(path)
    /\ outcome' = "none"
    /\ UNCHANGED <<platform, disk, pc, callVars>>

Mutate ==
    /\ pc = "idle"
    /\ graph' \in Graphs
    /\ outcome' = "none"
    /\ UNCHANGED <<platform, disk, graphFilePath, pc, callVars>>

\* The process ends at any point and is started again.
Crash ==
    /\ pc' = "idle" /\ outcome' = "none"
    /\ graph' = EmptyGraph
    /\ UNCHANGED <<platform, disk, graphFilePath, callVars>>

Init ==
    /\ platform \in Platforms
    /\ file = [p \in Paths |-> NoFile] /\ temp = [p \in Paths |-> NoFile]
    /\ graph = EmptyGraph
    /\ graphFilePath \in Paths
    /\ pc = "idle" /\ ok = TRUE /\ before = NoFile /\ outcome = "none"

Next ==
    \/ \E p \in Paths : Save(p) \/ Load(p)
    \/ OpenOutputFile \/ Write \/ CloseOutputFile
    \/ Rename \/ RemoveTarget \/ RenameAgain \/ RemoveTemp
    \/ Mutate \/ Crash

Spec == Init /\ [][Next]_vars

-----------------------------------------------------------------------------
\* Properties

TypeOK ==
    /\ platform \in Platforms
    /\ file \in [Paths -> Contents] /\ temp \in [Paths -> Contents]
    /\ graph \in Graphs
    /\ graphFilePath \in Paths
    /\ pc \in Calls \cup {"idle"}
    /\ ok \in BOOLEAN /\ before \in Contents
    /\ outcome \in {"none", "saved", "failed"}

\* What the finer properties depend on: close() writes out what is buffered, and
\* rename() fails only because its destination exists.
CloseReliable == "close" \notin Faults
RenameReliable == "rename" \notin Faults

\* StorageEngine.cpp:103 "if anything fails before the rename, the target is left
\* UNTOUCHED": whichever calls fail and wherever the process ends, only the file being
\* saved ever changes, and not before the whole graph stands in the file beside it.
\* "Anything" is too much for close(): nobody looks whether it failed, and where it may,
\* all that holds is that the writes before it have succeeded; a torn file replaces the
\* target.
UntouchedUntilWritten ==
    [][\A p \in Paths : file'[p] # file[p] =>
         p = graphFilePath /\ pc # "idle" /\ ok /\ (CloseReliable => temp[p] = graph)]_vars

\* When Save reports success the file holds the live graph.
SavedIsOnDisk ==
    CloseReliable => (outcome = "saved" => file[graphFilePath] = graph)

\* From the call of Save on, also if it fails, the graph the file held, or the
\* new one, is on disk under one of the two names: what a user can fall back on
\* after a crash.
CopyKept ==
    CloseReliable /\ RenameReliable =>
        ((pc # "idle" \/ outcome # "none") /\ before \in Graphs
           => \/ file[graphFilePath] = before
              \/ graph \in {file[graphFilePath], temp[graphFilePath]})

\* After a Save that failed the file is what it was, fallback and all.
FailureKeepsTarget ==
    CloseReliable /\ RenameReliable => (outcome = "failed" => file[graphFilePath] = before)

\* Where Save is to be atomic.
Atomically == ReplacingRename /\ CloseReliable /\ RenameReliable

Abstract == INSTANCE AtomicFile WITH atomic <- Atomically

\* Seen from the file, the calls of a Save are one replacement or nothing, in
\* whatever way they fail and wherever the process ends; only where rename does
\* not replace, or close() or rename() fail, the file may be missing or torn.
ImplementsAtomicFile == Abstract!Spec
=============================================================================
