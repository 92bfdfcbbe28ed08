# Suede graph database in TLA+

A verification development for the Suede graph database (C++): TLA+ modules
translated from the source, TLC configurations that check them on small
instances, and TLAPS proofs of the properties that matter most, for every size
of the graph and any number of threads. Paths below are relative to `src/`; the
quoted documents are `QUERY_REFERENCE.md`, `README.md` and the comments of the
code.

## 1. The system

| Component | State | Operations | Interacts with | Module |
|---|---|---|---|---|
| **Graph** (`Graph and Searchers/Graph.h/.cpp`) | rows (`nodes`, `edges`), two label indexes, incident-edge and neighbour lists in both directions, insertion orders, id counters | create, delete (nodes cascade to their edges), update properties, relabel an edge, reads | called by the queries and the storage engine under the handler's lock | GraphStore |
| **Graph: MVCC** (same files) | `currentVersion_`, a history record per row ever created and not yet collected, the multiset of held versions | stamp, tombstone, `CaptureSnapshot`, `ReleaseSnapshot`, `garbageCollect`, point-in-time reads | every mutation writes it; snapshots read it | GraphStore, SnapshotGraph |
| **CSR_Representation** | its version, the ids it covers in both directions, row offsets and columns, a label index | built in the constructor, released in the destructor | registers with the graph; read by queries and traversals | GraphHandler, Queries, Traversals |
| **Traversals** (`BFS_Searcher`, `CSR_Searcher`) | queue, visited flags, parents, frontiers | shortest path, reachability, k-hop | live neighbour lists, or a CSR | Traversals |
| **Query** (`Query.cpp`) | a parsed query | SELECT, MATCH, INSERT, DELETE, UPDATE, live or on a snapshot | the graph, or a snapshot | Queries |
| **GraphHandler** | the graph, `snapshots_` by id, the storage engine, one reader/writer lock | routes command text: queries, snapshot commands, FLUSH, LOAD, IMPORT, EXPORT, session files | everything above | GraphHandler, StorageSession |
| **StorageEngine** | the current path, the file streams, the running CRC | save and load the graph, save and load a snapshot, CSV import and export | the file system | StorageSave, StorageSession |
| **Auth** | the revocation counter and its file | mint and verify tokens, revoke all, persist | the file system, the server | RevocationCounter |
| **HTTP server** (`http_simple.h`, `UseServer.cpp`) | listener, detached connection threads, the shutdown flag | accept, authenticate, route to the handler, shut down | Auth, GraphHandler | Server |
| **Interactive application** | menus, dialogs | the handler's operations from a console | GraphHandler | - |

Vendored code (`nlohmann_json.hpp`), the tests, the stress and integration
scripts and the HTML visualiser are clients or libraries and are left out; they
were read for what they expect.

What is hard in this code, and what makes each part correct:

* **Graph.** One deletion changes up to eight containers, and a node's deletion
  loops over copies of two lists while the edge deletions it calls shrink the
  originals; self-loops are in both lists and parallel edges repeat neighbours.
  Correct means: every index names exactly the live rows.
* **MVCC.** Nothing copies the graph: a snapshot is a version number, and what
  it shows depends on every later mutation stamping correctly and on the
  collector taking neither too much nor (for good) too little. Correct means:
  a held version goes on reading the graph as it was captured.
* **Query.** A WHERE is evaluated as groups of ANDs, but most statements never
  get there: an equality on ID, LABEL or FROM selects an index, and the code of
  each index path looks at the remaining conditions in its own way, once for
  the live graph and once for snapshots. Correct means: the index never changes
  the answer.
* **Traversals.** Two engines of different structure answer the same MATCH.
  Correct means: both compute reachability, distance and shortest paths, agree,
  and end on every cycle.
* **GraphHandler.** Clients interleave command by command. Snapshots belong to
  clients, the registry to the graph, and LOAD replaces the graph. Correct means:
  registry and open snapshots agree; another client's commands leave a
  snapshot as it is; FLUSH, a restart and LOAD bring back the graph.
* **StorageEngine.** Save is a sequence of file system calls, each of which may
  fail or be the last one before a crash; the fallback for platforms without a
  replacing rename has a window. All CSV commands share one stream, in whatever
  state the last one left it. Correct means: the file is the old or the new
  graph, an import does what its file says, and the reported outcome is true.
* **Auth, server.** A counter that must never go back, across crashes, failing
  writes and restarts; a listener that two signal handlers and the accept loop
  may close; threads that outlive what they refer to. Correct means: a revoked
  token stays revoked; the listener is closed once; shutdown ends, and no client
  can keep a thread by saying nothing.

## 2. The modules

```
PartialMaps <- SnapshotGraph                 what Graph promises
PartialMaps <- GraphStore <- Queries <- GraphHandler <- MCGraphHandler
                             Queries <- MCGraphStore
               GraphStore <- GraphStoreProofs
               GraphHandler, GraphStoreProofs <- GraphHandlerProofs
               Queries, GraphStoreProofs, NumberLemmas <- QueriesProofs
AtomicFile                                   what FLUSH promises
StorageSave <- MCStorageSave, StorageSaveProofs
PartialMaps <- StorageSession <- MCStorageSession
               StorageSession, NumberLemmas <- StorageSessionProofs
PartialMaps <- Traversals <- MCTraversals
               Traversals, NumberLemmas <- TraversalsProofs
RevocationCounter <- Server <- MCServer, ServerProofs
```

### GraphStore - `Graph.h`, `Graph.cpp`

One variable per data member of the class, one action per public operation that
changes state; the names are the source's. Because every caller holds the
handler's exclusive lock for a whole command, an operation is one atomic action,
including the collection at the end of `DeleteNode` and `ReleaseSnapshot`. A
call that fails its checks only reports it and is no step.

* Vectors of ids are sets: an id is pushed when it is new, or was just erased
  from another bucket, so no vector holds it twice, and every order the code
  relies on is the order of the ids. The neighbour lists do repeat ids (parallel
  edges) and are counts, `neighbourOut[n][m]`; erasing a neighbour sets the
  count to zero, as `EraseValue`'s erase-remove does.
* An id's entry with an empty vector and no entry are the same, except in the label
  maps: `FindNodes` and `FindEdgesByLabel` report a label that has no entry, and no
  entry is ever removed. `nodeLabels` and `edgeLabels` are the labels that have one.
* `mvccNodes` and `mvccEdges` hold one record per id (`row`, `createdAtVersion`,
  `deletedAtVersion`), as `std::unordered_map` does: an update re-stamps it in
  place, and the row leaves the snapshots captured before.
* `DeleteNode` is the whole cascade: each edge of `Incident` is deleted with a
  version bump of its own, in the order of the two loops (`CascadeStamp`), then
  the node, then garbage collection.
* Rows carry a label and properties from small sets; versions are plain numbers
  up to `MaxVersion` (the code's are 64 bits wide and do not wrap in practice).

### SnapshotGraph - the promise of Graph

Live rows and, for each held version, the rows read there. `Capture` stores the
live graph; mutations leave the views alone except that an update takes its row
out; `RemoveNode` takes exactly the incident edges. No index, stamp or collector.
`GraphStore` is shown to implement it with `views` mapped to what
`NodesAtVersion` and `EdgesAtVersion` read at each held version.

### Queries - `Query.cpp` after parsing, `CSR_Representation`'s indexes

The statements as operators on the state of GraphStore, so that what they answer
is an invariant of every graph the operations can build.

* A WHERE is a sequence of conditions, each with the connector to the next.
  `evaluateConditions` is the loop with its two flags; `executeSelectNodes`,
  `executeSelectEdges`, `executeUpdateNodes`, `executeUpdateEdges`, the
  `...Snapshot` variants and `executeSelectGraph` are the functions of that name
  with their choice of path: a full scan, one id, the label's bucket, the edges
  at a node.
* `Snapshot` is a CSR_Representation as the queries see it: version, members,
  id map, and the label index `BuildLabelIndex` makes at capture.
* `NodeForms` and `EdgeForms` are the statements the properties are about: the forms
  `QUERY_REFERENCE.md:283`, `:328` and `:365` document, with two operators, one
  property filter, and two or three conditions.
* A result has the rows (by id), the success flag, the number a COUNT reports
  and whether the cap `ScanCap` cut it. The walk over `std::unordered_map` has
  no order and may keep any rows under the cap; the model keeps the first.
* Property values are numbers in the order of the strings, "" being 0.
* Projection, TOP's cut of rows an index has found, and messages are left out.

### Traversals - `BFS_Searcher`, `CSR_Searcher`, `Query::executeMatch`

One MATCH statement, answered by `Run_BFS` over the neighbour lists and then by
the layered search over the CSR of the same graph. A step visits one neighbour,
takes one node from the queue or opens one layer; the graph, the order the
neighbour lists happen to have and the statement are picked at the start.
`row_offsets`, `columns`, `nodeToCSR` and `csrToNode` are what `Load_CSR` builds,
and the three loops of `CSR_Searcher` share their actions, because they differ
only in when they stop and in what they keep. Nodes are numbered in the order of
their ids, which is one of the orders `Load_CSR` may meet.

### GraphHandler - `GraphHandler.cpp`, with what it calls

Extends the graph by the snapshots clients hold, the file FLUSH writes, the file
`persistSnapshot` writes, and restarts of the process.

* `createSnapshot`, `releaseSnapshot`, `persistSnapshot`, `loadSnapshot` and
  `loadSnapshotFails` are the handler's operations with the constructor,
  destructor and setters of `CSR_Representation` they run: `loadSnapshot`
  registers the current version and then overwrites the version it will release.
* A saved graph has positions in insertion order for ids (`Saved`). `loadLive`
  rebuilds a graph from it through `CreateNode` and `CreateEdge` and moves it over
  the live one, *including* the version counter, the history and the empty
  registry of the new graph (`Rebuilt`).
* Every command takes the lock before its first access, so each is one action.
  An UPDATE or DELETE of many rows, and IMPORT CSV, is a run of single-row
  actions: more interleavings than the lock allows, never fewer.
* `LoadAnytime` and `LoadSnapshots` choose the sessions: LOAD only into a fresh
  server, as `QUERY_REFERENCE.md:730` asks, or at any time; with or without the
  interactive menu's "load snapshot".
* Files are read and written whole here; how a Save can fail is StorageSave's.

### StorageSave, AtomicFile - `StorageEngine::Save`

Save call by call: the temp file, writes into the stream's buffer (`ok`),
`close()`, `rename`, and the fallback (remove the target, rename again, remove
the temp file). Any call may fail, as far as the platform's `faults` allow, and
`Crash` may follow any call. `platform.replacing` says whether `std::rename`
replaces an existing file. A file's content is a graph (complete), `Torn` (Load's
length checks and CRC turn it down; the byte format is abstracted to that) or
`NoFile`. `AtomicFile` is the promise: the file changes by one replacement with
the live graph; damage is possible only where `atomic` is false.
A crash here is the end of the process. A power failure, which can lose data
that `close()` handed to the system, is not modelled: the code has no `fsync`.

### StorageSession - the engine of a session, CSV

The StorageEngine a handler creates on demand, the one path it remembers, and the
one CSV stream.

* IMPORT goes line by line, EXPORT block by block, as one call under the lock;
  writes may fail at any line. A call that fails returns without closing, so the
  stream is found open by the next one (`Reopened`: `open()` fails, `is_open()`
  says yes).
* The two bare commands, FLUSH and LOAD without a path, look at `storage_`
  *before* they take the lock: `TestStorage` is a step of its own, and anything
  may happen before `flush` or `loadLive` follows.
* A row is what becomes of its text in a file without quoting: plain, with a
  comma (which cuts it), or empty (which ends the node block). Labels of edges
  are left out.
* The stream buffers what EXPORT writes. How much of it is on disk shows when the
  writing ends, by a failed write, by a crash or by `CloseCSV`, which does not ask
  whether the rest got out: each may leave a shorter beginning of the file
  (`LosesEndOf`), and `ExportEnd` reports success all the same. A file that is cut is
  cut between two lines. What a stream that a failed call left open still holds, and
  might write later, is left out.
* FLUSH and LOAD replace whole files here, or fail.

### RevocationCounter, Server - `Auth.h`, `http_simple.h`, `UseServer.cpp`

RevocationCounter is `AuthState`: the counter in memory, `server_counter.txt`, its
temp file, and `persistServerCounter` call by call, with the mutex that is held
meanwhile. A token is the generation it was minted under, or `Bad` if any other
check would turn it down; seal, expiry and address are that one case.
`runMint` is another process that reads the file at any moment.

Server is the process around it: the main thread of `runSuedeServer` and
`runServer` (start, listen, publish, the loop with its blocking `accept()`, the
second close, the flush, the return that destroys its locals, the exit), up to
`Signals` deliveries of SIGINT or SIGTERM running `requestServerShutdown` step by
step at any point, a detached thread per connection, and a `Crash` anywhere, after
which the process may be started again. What the engine does with a command is
the other modules' business, so `Execute` only takes its time. `platform.wakes`
says whether closing the listener wakes a blocked `accept()`; the code relies on
that, POSIX does not promise it.

`revokeAll` is called by nothing in `src/` yet (`UseServer.cpp:203`); the model lets
any thread of the running server call it, as its comment foresees.

### MC modules

`MCGraphStore`, `MCGraphHandler`, `MCStorageSave`, `MCStorageSession`,
`MCTraversals` and `MCServer` add symmetry sets (labels; paths; clients), the
platforms, the broken CSV files and the ring; the instances themselves are in
the `.cfg` files. Labels, paths and clients are only compared, and no run with
symmetry has a liveness property, so the reduction is sound.

### Operators that exist only as mutants

A few definitions state a slip the code could have contained
(`IncidentOutgoing`, `evaluateLeftToRight`, `revokeAllMemoryFirst`, ...). Each
stands next to the operator it distorts, is used by nothing, and serves to show
that a property notices when that operator is replaced by it; `PROJECT.json`
pairs them.

## 3. The runs

| Run | Instance | Shows |
|---|---|---|
| GraphHistory | 2 labels, 2 nodes, 2 edges, 6 versions, 1 snapshot | `TypeOK`; `IndexesMatchLive`: every index names exactly the live rows; `NeighboursAreEdges`: neighbour lists lead along existing edges and agree in both directions; `EndpointHistoryRetained`: no endpoint is collected from under an edge; `NoNodeGarbage`: with nothing held, no deleted node is retained; `StampsUnique`: no two events share a version; `ImplementsSnapshotGraph`: refinement of SnapshotGraph |
| QueryAnswers | 2 labels, 1 property key, 2 nodes, 2 edges, 4 versions, cap 2 | in every graph that can be built, for all values: `SelectAsEvaluated`: a SELECT of `NodeForms` or `EdgeForms` finds and counts the rows its WHERE is true of, whichever index serves it; it is turned down for a label no row has (though not always, section 4) and, on the live graph, for a property filter alone, and returns the self-loops of BOTH twice; `UpdateAsScan`: the same of UPDATE, without exceptions, for one to three conditions with AND and OR; `SnapshotAsLive`: a snapshot captured now answers each of these SELECTs, with the rows and the number of the live graph wherever that answers, but for the same self-loops, which it has once; `HistoryMirrorsLive`: the history's live records are the live rows |
| HandlerSession | 1 label, 2 nodes, 1 edge, 4 versions, 2 snapshot ids, LOAD when fresh | `Registrations`: each version is registered once per open snapshot; `SnapshotsFrozen`: no command of anybody changes what an open snapshot shows, updates excepted; `SnapshotIndexesAsScan`: the label index and id map built at capture stay true; `GraphReadWhole`: a graph read loses an edge only to an update of its endpoint; `RoundTrip`: FLUSH and LOAD keep the graph up to a renaming of ids that keeps their order |
| HandlerAnytime | 2 nodes, 1 edge, 3 versions, 2 snapshot ids, LOAD at any time, restored snapshots | `IInv` survives everything a handler does |
| SavePlatforms | 2 paths, 3 graphs, 5 platforms | see below |
| StorageSession | 1 client, 1 path, 3 nodes, 1 edge, 2 broken files | `ImportAsWritten`: an import that finds the stream closed creates exactly the rows of its file, up to the first bad line, and reports success if there is none; `ExportReadsBack`: an export that reports success reads back as the graph, unless closing the file lost its end; `EngineStays`: the engine seen without the lock is there when the lock is taken; `TypeOK` |
| TraversalEngines | every subgraph of a ring of five with a self-loop, both list orders, every statement | `LiveCorrect`, `SnapshotCorrect`: each engine against reachability, distance and path; `EnginesAgree`; `Answered` (liveness); `TypeOK` |
| ServerSession | 2 generations, 1 connection, 2 signals, 3 platforms | `RevokedStayRevoked`, `CounterKept`, `ListenerClosedOnce`, `TypeOK`; `ShutdownEnds` and `ConnectionsAnswered` (liveness) |
| the four others | the smallest instance that shows it | one statement each that the code does not keep (section 4) |

SavePlatforms checks, over POSIX and Windows renames with reliable and unreliable
calls: `TypeOK` (so no torn file becomes the live graph) and
`UntouchedUntilWritten` (only the file being saved changes: where `close()` is
reliable, not before the complete new graph stands in the temp file; elsewhere only
after all writes have succeeded, which is less than the code's comment says, section 4)
on every platform; `SavedIsOnDisk` where `close()` is
reliable; `CopyKept` (the old graph is on disk under its name, or the new one under
one of the two) and `FailureKeepsTarget` where `rename()` is, too; and
`ImplementsAtomicFile`. Deadlock is checked in every run. `IInv`, the inductive
invariant of the graph's proofs, is checked where most can happen to it (HandlerAnytime).

**Why the bounds are enough to be interesting.** Two nodes and two edges give
self-loops, parallel and opposite edges, cascades that meet an edge in both
lists, and gaps in the ids. Six versions are enough to build two rows of each
kind and delete half of them, or to build a node with two self-loops and delete
it. Two snapshots (HandlerSession) give equal and different versions, released in
either order, which is what the collector's cutoff tells apart. A WHERE of three
conditions is the shortest on which the precedence of AND and OR shows. A cap of
two is the number of rows there can be, so scans are exact, while a statement's
own walk is still cut; the ring of five has two ways round of different length,
an edge against the walk, a self-loop, and with nodes left out of it gaps between
ids and indexes. Three nodes make an import into a graph with rows of its own, where
places and ids differ. One generation to revoke, with `minted` and `refused`
across restarts, is the whole cycle of mint, revoke, crash, read, present;
two signals and the loop are three candidates for one close. Each property is
violated within the same bounds by a plausible slip in the code it is about. The
proofs do away with the bounds for the graph, for the statements and the WHERE, for
both searches, for the snapshots and files of a handler (whose runs have one label
and two nodes only), for Save, for the counter and for the listener.

**Fairness.** Two specifications state it.

* Traversals: `WF_vars(Step)`. A search runs to its end on one thread under the
  handler's lock.
* Server: weak fairness of the main thread, of the file calls of
  `persistServerCounter`, of each running signal handler, of a thread's time-out
  in `recv()` (`SO_RCVTIMEO`, 10 s) and of the engine's answer; strong fairness of
  a thread that waits for the mutex (`authenticate`, `Flush`), because others may
  take it in between and `std::mutex` starves nobody for ever in practice. Nobody
  has to connect, to send, to signal, to revoke or to restart the process, no call
  has to fail, `accept()` may block for good, and `Respond` has no fairness:
  `send()` has no timeout (`http_simple.h:408`) and a client need not read.

The other modules assume none: their commands run to completion inside one call
and promise nothing about when a client will act.

## 4. Where code and documentation disagree

Each is a run that TLC ends with a violation; the quotations are in
`PROJECT.json`.

1. **GraphParallelEdges.** `RemoveAdjacency` erases *all* occurrences of a
   neighbour, so deleting one of two parallel edges hides the other from BFS and
   from every snapshot built later.
2. **HandlerLoadUnderSnapshot.** LOAD moves a new graph over the old, registry
   included. Snapshots open at that time are no longer registered, and a
   later delete changes what they show.
3. **SessionImportTruth.** A CSV command that fails leaves its stream open. The
   next IMPORT cannot open it again, finds it open nevertheless, reads nothing and
   reports success.
4. **ServerShutdown.** `runServer` returns without waiting for the detached
   connection threads, and `runSuedeServer` then destroys the handler and the
   authentication state they refer to.

Met on the way, and modelled as the code has them (unless noted), without a run of
their own:

*Graph and snapshots.* An UPDATE takes its row out of open snapshots
(`Graph.cpp:253` says so, while `Graph.h:352` promises that history "is guaranteed
to remain readable"). `DeleteEdge` does not collect, so edges deleted with nothing
held stay in the history until a node is deleted or a snapshot released
(`QUERY_REFERENCE.md:619` says "opportunistically after each delete"). LOAD into a
non-empty server succeeds and replaces the rows, where `QUERY_REFERENCE.md:730`
says the load will fail. A snapshot restored from a file registers one version and
releases another (`StorageEngine.cpp:382`), so one registration stays for good; it
has `csrToNode` but no `nodeToCSR` (`CSR_Representation.h:173`), so that a read by ID
finds nothing, while scans and its label index, which `GraphHandler.cpp:183` rebuilds,
find its rows. `persistSnapshot` dereferences `storage_`
without a test (`GraphHandler.cpp:166`; not modelled).

*Queries.* A COUNT is capped like any scan (`QUERY_REFERENCE.md:241` and
`Query.cpp:760` say otherwise; `CountIsExact` states it). A WHERE on properties
only is turned down on the live graph (`Query.cpp:957`), where `QUERY_REFERENCE.md:334`
and `:203` have a full scan. A live lookup by ID ignores every other condition of an AND. `TO` matches either
endpoint of an edge (`:372`). A self-loop is returned and counted twice for DIRECTION
BOTH on the live graph, once on a snapshot. SELECT by LABEL is capped on a snapshot and not
on the live graph. A TOP that cuts a snapshot's rows does not count as truncation.
A condition on FROM inside an OR is never true. A label nobody has is to be a failure
(`QUERY_REFERENCE.md:356`, `:401`); on the live graph it is one only if nobody has ever
had it (`Graph.cpp:68`, `:88`: an emptied bucket keeps its entry) and otherwise a success
with no rows, and on a snapshot it is always such a success. So neither "Results and
messages are identical to the live equivalents" (`:594`) nor "the query succeeds" (`:580`)
holds of these labels, of property filters and of self-loops; `SelectAsEvaluated` and
`SnapshotAsLive` name them as their exceptions.
MATCH REACHABLE lists its nodes in different orders on the two engines.

*Storage.* `close()` may fail to write out the buffer after the last check, so a
torn temp file replaces the good target and Save returns true
(`StorageEngine.cpp:130`; `:102` "never a half-written mixture", and `:103` "If anything
fails before the rename, the target is left UNTOUCHED": hence the condition on `close()` in
`UntouchedUntilWritten`). EXPORT does not ask either whether closing wrote out the rest
(`StorageEngine.cpp:208`, `StorageEngine.h:146`), so it may report success over a file that
is cut short and does not read back. A second rename
that fails loses the old graph and the new (`:148`, `:104` "can never destroy
existing good data"). On Windows the target is missing between `remove` and the
second `rename` (`:101` "at every instant"). An engine created by IMPORT or EXPORT
CSV keeps the CSV file as its path, so a bare FLUSH overwrites it
(`GraphHandler.cpp:245`), and a LOAD that fails retargets the engine. CSV has no
quoting, so a comma in a value, or a node without label and properties, does not
survive EXPORT and IMPORT (`QUERY_REFERENCE.md:808`).

*Server.* A counter file that is there but cannot be opened reads as 0
(`Auth.h:135`; the comment above it calls that an error). A crash, or a failure,
between `remove` and the second `rename` loses the counter file, which reads as a
first run. Both bring revoked tokens back; `CounterKept` confines them to platforms
where rename or reading cannot be relied on. A token authenticated before a
revocation may execute after it. A second server whose port is taken has read the
counter before it fails to bind and writes it back afterwards
(`UseServer.cpp:258`), which can undo a revocation of the first (not modelled).

## 5. What is proved

For all values of the constants, from the named assumptions only:
`BoundsAssumption`, `HandlerAssumption` (bounds are natural numbers),
`QueriesAssumption` (property values are numbers), `TraversalsAssumption` (ids are
numbers, and there are finitely many), `StorageAssumption` and `CounterAssumption`
(what is not a graph, or not a counter, is distinct from one; platforms are
platforms), `SessionAssumption` (no engine is not a path) and `FilesAssumption` (the
CSV files a user brings have their edges behind the blank line; whatever else is
wrong with them).

**GraphStoreProofs.** `Invariance`: `Spec => []IInv`, and from it `TypeCorrect`,
`IndexesCorrect`, `NeighboursCorrect`, `HistoryCorrect`, `EndpointsCorrect`,
`NodeGarbageCollected`. None of these is inductive alone. What `IInv` adds is
`FreshIds` (an id not handed out is in no map, so `emplace` really inserts),
`LabelsListed` (a label some row has has an entry, so that SELECT never takes it for
unknown) and `StampsOrdered` (every record is created, then deleted, no later than the current
version). They lean on each other: `DeleteNode` finds its edges through
`adjacencyOut` and `adjacencyIn`, so that endpoints stay live needs
`IndexesMatchLive`; that no deleted node survives an unheld collection needs
stamps no later than the current version; that an endpoint is never collected
before its edge needs that the edge's deletion stamp is smaller
(`CollectedTogether`), which for a cascade is a bound on `CascadeStamp`
(`CascadeBounds`, by cardinalities). There is one lemma per action, first for the
types, then for the rest.

In the same module, `StampsUniqueCorrect`: no two events share a version. An
operation's stamps are above the current version and collecting only removes stamps
(`NewStamps`), so what is left is that the stamps of one operation differ; for a
cascade, `CascadeInjective`: `DeletedBefore` is a strict order of all its edges, so
the sets an edge is numbered by are nested and differ in size.

And `Refinement`: `Spec => ImplementsSnapshotGraph`. Besides
`IInv` it needs that held versions are not in the future (`SnapshotsPast`). The
core is three facts about a held version `v`: a row born now has a stamp above `v`
(`NewRowInvisible`), a tombstone set now does too and so hides nothing
(`TombstoneInvisible`), and what the collector takes was deleted at or before
every held version, so it was not visible at any (`CollectInvisible`). A capture
at the current version reads exactly the live rows (`CurrentView`).

**GraphHandlerProofs.** `HandlerInvariance`: `IInv` holds under everything a handler
does, with LOAD at any time, restored snapshots and restarts (`HandlerSpec`, whatever
`LoadAnytime` and `LoadSnapshots` are). Two facts carry it besides the lemmas of
GraphStoreProofs: the rows of a file make a graph in order (`RebuiltInv`), and what
FLUSH writes is such a file (`SavedRows`), because the places of finitely many ids
are 1 to their number, each taken once (`Places`: an injection between sets of the
same size). `RoundTripCorrect` is the same fact read as a renaming (`PlacesRename`).

The other four assume the sessions of HandlerSession (`~LoadAnytime`,
`~LoadSnapshots`; HandlerLoadUnderSnapshot is why). `RegistrationsCorrect`: `RegInv`
adds that ids of snapshots are never handed out twice, so a capture adds one snapshot
to those of its version and a release takes one away. `SnapshotsFrozenCorrect`: the
version of an open snapshot is then held before and after every command
(`OpenHeld`), where the refinement says what happens to its view; an update, which
takes a row out of the view, has put a later stamp on it (`StepKept`).
`SnapshotIndexesCorrect` and `GraphReadWholeCorrect`: what an open snapshot shows is
among its members, mapped, and indexed under its label (`CapturedWhole`), which
holds at capture and, as views only shrink, ever after; the rest evaluates the
statements (`NodesRead`, `NodesByLabelRead`, ...).

**StorageSaveProofs.** `TypeCorrect` and `Untouched` on every platform;
`SavedCorrect`, `CopyCorrect` and `FailureCorrect` with their conditions on the
platform; `Atomic`: Save implements AtomicFile. The invariants behind them say
call by call where the old and the new content are: the flag is up whenever a
rename is next (`Flagged`), the temp file is then the live graph (`TempComplete`, which
`Untouched` rests on where `close()` is reliable)
or at worst torn (`TempContent`), the target holds its old content until it is
removed (`OldContent`), and a replacing rename never gets to the fallback
(`NoFallback`).

**NumberLemmas.** What the others need of numbers: the least element of a set of
them, induction as closure of a set under successors (`SetInduction`), that a
recursive function over `0 .. n` exists and satisfies its equations
(`RecursionDefined`), and that ranks in a finite set of ids are 1 to their number,
each taken once and in order (`RanksTaken`, `RankGrows`). With the last two the
proofs reason about the loops over a WHERE, a row or a queue, and about "insertion
order".

**QueriesProofs.** `EvaluatesSums`: the one pass of `evaluateConditions` with two
flags means "some group of ANDs holds whole", for a WHERE of any length.
`UpdateCorrect` and `SelectCorrect`: an index never changes the answer, the three
departures named in the property apart. The candidates
an index offers contain every row the WHERE is true of (`CandidatesSuffice`), because
the indexes are those of `IInv` and an equality that is joined by ANDs only is true of
all rows asked for; and each path evaluates the remaining conditions as the scan would
(`IdFormRead`, `LabelFormRead`, `FromFormRead`). `SnapshotAnswersCorrect`: a snapshot
captured now has the live rows (`CaptureComplete`), so both answers are the same set
unless the cap cut one of them or the live graph gives none.

**StorageSessionProofs.** `EngineStaysCorrect`: once there is an engine, commands
only ever replace its path by another (`EngineInv`); a restart takes it away, and
with it the clients that had seen it. `SessionTypeCorrect` needs the whole of
`SessionInv` (`SessionInvariance`), because a CSV call returns in any state of the
stream and the next one goes on from it: a stream that is good has a file of its kind
beneath it (`StreamOK`), what is left of the file being read fits the ids that are
left (`RoomForNodes`, `RoomForEdges`), every file is missing, a CSV file whose edges
are behind its first blank line, or a graph in order (`FilesOK`), and so an import,
however it ends, leaves a graph in order (`LiveOK`).
`ImportCorrect` and `ExportCorrect` (of exports whose closing loses nothing) need to know how far a call has come
(`ReadInvariance`). Of an import that opened its file, `ImportOK` relates graph and
text: the nodes beyond those the call found are the first lines of the node block, one
id after the other (`NodesRead`), and the edges beyond those it found are the lines
behind the block that are not blank, up to the next one, between the nodes their
indexes mean (`EdgesRead`). When it ends, those are all lines of the file, or all
before the first bad one (`GoodLines`). Of an export, `CallOK` has the lines written so
far; what is written in full has the blocks the reader sees (`BlocksWritten`), since no
line of a plain row is blank, and each edge line names the places of its endpoints
(`WrittenReadsBack`). Both are about sets of ids with gaps: `Position` and `InOrder`
turn them into places and back (`InOrderTakes`, `TakenInOrder`, `Gapless`).

**TraversalsProofs.** For every finite graph, every order of the neighbour lists and
every statement. Distances first: the balls `Within` grow until they are closed under
neighbours (`ReachClosed`), so that every node in reach has a least number of steps,
its neighbours differ by one at most, and one of them is nearer (`Metric`,
`NodeMetric`). `SearchInvariance` then has the inductive invariant of both searches,
`SearchInv`: the parents of what was seen lead to the source, each a step nearer
(`Tree`), so the chain of parents is as long as the node is deep and a shortest path
(`PathFound`). In the live search the queue holds at most two depths, in order, and
all nodes no deeper than the one being visited have been seen (`ByDepth`), whose
neighbours have been, but for those still to visit (`Expanded`). In the search of the
snapshot what has been seen is, between layers, everything up to a depth
(`BetweenLayers`) and, inside one, that and a part of the next (`InLayer`); for KHOP
that depth is the number of layers counted, and once a target is found nothing is
claimed but that it has a parent chain. That search runs on indexes: `Row(i)`, cut out
of the one array of columns by offsets, has exactly the indexes of the neighbours of
node `i` (`RowElements`), so the graph in indexes has the same depths (`IndexMetric`)
and its paths are paths (`IndexWayFound`). `LiveAnswersCorrect`, `SnapshotAnswersRight`
and `EnginesAgreeCorrect` follow from the one notion of a `Right` answer both establish
(`RightIsCorrect`, `RightAgree`).

**ServerProofs.** For any number of signals, connections, revocations and lives of
the process: `TypeCorrect`; `ListenerClosedOnceCorrect`, from who is to close an
open listener: whoever finds it published, or the main thread before it publishes,
or exactly one signal handler (`Closer`); `CounterKeptCorrect` and
`RevokedStayRevokedCorrect`, from what each file call leaves: a file that is renamed
is whole and carries the value being saved (`Persisting`), the file is the running
server's counter unless it was lost (`InStep`), no token is ahead of the counter and
none that was refused level with it, in memory or, between two lives, on disk
(`Behind`), and with a rename that can be relied on a missing file is a first run
(`FirstRun`).

**Only model-checked:** all liveness (`Answered`, `ShutdownEnds`,
`ConnectionsAnswered`): liveness under fairness and ENABLED are out of the prover's
reach. Every invariant and every action property of the passing runs is stated by a
theorem. The library's `SelectSeq` has no definition the prover can expand, so
Traversals has a filter of its own (`Kept`), and StorageSession's `EdgeBlock` takes
the lines of a set of places in their order.

## 6. Not modelled

* **The query grammar, JSON, HTTP parsing, tokens' text, HMAC, CRC and byte
  layouts.** Conversions without state of their own; the modules start from a parsed
  statement, a request's route, a token that is good or `Bad`, a file that is
  complete or torn. `Query.cpp` up to line 690, `Json.h`, `HMAC.h`, `Crc32.h` and
  most of `StorageEngine.h`'s readers and writers are of this kind.
* **The interactive application** (`InteractiveApp.cpp`): menus, dialogs and printing
  around the handler's operations. Its two operations the query language does not
  have, saving and loading a snapshot file, are actions of GraphHandler.
* **Vendored code, tests, scripts, the visualiser.**
* **How writing a snapshot file can fail.** `SaveSnapshot` truncates the file in
  place and nothing in the repository promises more of it.
* **Several processes on one set of files**, other than `--mint` reading the counter:
  a second server, or two applications flushing to one path.
* **Power failure** (no `fsync` anywhere), memory exhaustion, 64-bit wrap-around, and
  the memory model: `std::atomic` and mutex operations are sequentially consistent
  here, as they are in the code (no relaxed orders).
* **What a use of destroyed objects does** beyond "anything": once `destroyed`, the
  model lets authentication have any outcome and claims nothing of it.

The prover's limits: liveness and ENABLED stay with TLC.
