--------------------------- MODULE StorageSession ---------------------------
(***************************************************************************)
(* The storage of a session: the StorageEngine a GraphHandler creates on   *)
(* demand, the one path it remembers, and the one CSV stream its imports   *)
(* and exports share.  Commands hold the handler's exclusive lock to their *)
(* end, but bare FLUSH and LOAD look for an engine before they take it.    *)
(* IMPORT goes line by line and EXPORT block by block, as one call under   *)
(* the lock.  A row is the text of its label and properties; a FLUSH       *)
(* replaces its file at once (StorageSave has the calls it is made of).  A *)
(* CSV file that is cut short is cut between two lines.                    *)
(***************************************************************************)
EXTENDS Integers, Sequences, FiniteSets, PartialMaps

CONSTANTS
    Clients, Paths,
    Rows,            \* of nodes
    NoEngine,        \* storage_ is null
    NoFile,          \* nothing is at a path
    UserFiles,       \* CSV files brought along, as sequences of lines
    MaxNodes,        \* bound: ids handed out to nodes
    MaxEdges         \* bound: ids handed out to edges

ASSUME SessionAssumption == NoEngine \notin Paths /\ MaxNodes \in Nat /\ MaxEdges \in Nat

VARIABLES
    nodes, edges,                \* id -> row; id -> [from, to]
    nextNodeID, nextEdgeID,
    files,                       \* path -> content
    graphFilePath,               \* the engine's path, or NoEngine
    csvFile,                     \* the engine's CSV stream
    loadedNodes,                 \* ids of the nodes the import has created; it
                                 \* empties this at its start, here also at its end
    call,                        \* the CSV command that holds the lock
    waiting                      \* client -> bare command past its test

graphVars == <<nodes, edges, nextNodeID, nextEdgeID>>
engineVars == <<graphFilePath, csvFile, loadedNodes>>
vars == <<graphVars, files, engineVars, call, waiting>>

-----------------------------------------------------------------------------
\* Rows and what becomes of them in a CSV file

\* "comma": a value with a comma in it; "cut": what is left of it; "": a node
\* without label and properties; "junk": a binary file taken for text.
ReadRows == Rows \cup {"cut", "junk"}
PlainRows == Rows \ {"comma", ""}

NodeLine(row) == [row |-> row]
EdgeLine(from, to) == [from |-> from, to |-> to]    \* indexes, from 0 up
Blank == NodeLine("")
IsEdgeLine(line) == "from" \in DOMAIN line

\* Nothing is quoted or escaped: the text after a comma is a token without "=".
ReadRow(line) == IF line.row = "comma" THEN "cut" ELSE line.row

Csv(lines) == [format |-> "csv", lines |-> lines]
Binary(nodeRows, edgeRows) == [format |-> "binary", nodes |-> nodeRows, edges |-> edgeRows]

Lines(file) == IF file.format = "csv" THEN file.lines ELSE <<NodeLine("junk")>>

\* Insertion order, which is that of the ids.
Position(ids, x) == Cardinality({y \in ids : y <= x})
InOrder(rows) ==
    [i \in 1 .. Cardinality(DOMAIN rows) |->
       rows[CHOOSE x \in DOMAIN rows : Position(DOMAIN rows, x) = i]]

\* What comes before the first blank line.
NodeBlock(lines) ==
    LET blanks == {i \in DOMAIN lines : lines[i] = Blank}
    IN  IF blanks = {} THEN lines
        ELSE SubSeq(lines, 1, (CHOOSE i \in blanks : \A j \in blanks : i <= j) - 1)

\* Whatever stands there is read as a row: only behind it is a line an edge.
CsvLine == [row : ReadRows] \cup {Blank} \cup [from : Nat, to : Nat]
WellWritten(lines) ==
    lines \in Seq(CsvLine) /\ \A i \in DOMAIN NodeBlock(lines) : ~IsEdgeLine(lines[i])

ASSUME FilesAssumption == \A lines \in UserFiles : WellWritten(lines)

-----------------------------------------------------------------------------
\* The call that holds the lock

Idle == call.at = "returned"
Goto(step) == call' = [call EXCEPT !.at = step]
Return(reply) == call' = [at |-> "returned", reply |-> reply]

\* What the call found is there for the properties.
Called(op, path) ==
    call' = [at |-> op, op |-> op, path |-> path,
             foundNodes |-> nodes, foundEdges |-> edges, foundOpen |-> csvFile.open]

Closed == [open |-> FALSE, path |-> NoEngine, next |-> 0, good |-> TRUE]
Open(path) == [open |-> TRUE, path |-> path, next |-> 1, good |-> TRUE]

\* Where it was, and in what state, is of no use to anyone who finds it open.
LeftOpen == [csvFile EXCEPT !.next = 0, !.good = FALSE]

\* clear() and open(): on a stream that is open, open() fails, which leaves the
\* stream as it was, and is_open() goes on to say yes.
Reopened(path) == IF csvFile.open THEN LeftOpen ELSE Open(path)

EngineOnDemand(path) == IF graphFilePath = NoEngine THEN path ELSE graphFilePath

-----------------------------------------------------------------------------
\* IMPORT CSV

Room(file) ==      \* bound
    file # NoFile => /\ nextNodeID + Len(NodeBlock(Lines(file))) <= MaxNodes + 1
                     /\ nextEdgeID + Cardinality({i \in DOMAIN Lines(file) : IsEdgeLine(Lines(file)[i])})
                          <= MaxEdges + 1

importCSV(path) ==
    LET opens == csvFile.open \/ files[path] # NoFile
    IN  /\ Idle /\ Room(files[path])
        /\ graphFilePath' = EngineOnDemand(path)
        /\ csvFile' = IF opens THEN Reopened(path) ELSE csvFile
        /\ loadedNodes' = << >>
        /\ IF opens THEN Called("importNodes", path) ELSE Return("failed")
        /\ UNCHANGED <<graphVars, files, waiting>>

\* getline
AtEnd == ~csvFile.good \/ csvFile.next > Len(Lines(files[csvFile.path]))
Line == Lines(files[csvFile.path])[csvFile.next]
NextLine == csvFile' = [csvFile EXCEPT !.next = @ + 1]

ImportNode ==
    /\ call.at = "importNodes" /\ ~AtEnd /\ Line # Blank
    /\ nodes' = Put(nodes, nextNodeID, ReadRow(Line))
    /\ nextNodeID' = nextNodeID + 1
    /\ loadedNodes' = Append(loadedNodes, nextNodeID)
    /\ NextLine
    /\ UNCHANGED <<edges, nextEdgeID, files, graphFilePath, call, waiting>>

ImportNodesEnd ==
    /\ call.at = "importNodes" /\ (~AtEnd => Line = Blank)
    /\ IF AtEnd THEN UNCHANGED csvFile ELSE NextLine
    /\ Goto("importEdges")
    /\ UNCHANGED <<graphVars, files, graphFilePath, loadedNodes, waiting>>

\* Indexes taken for ids.
EndpointAsId(index) == index + 1
Endpoint(index) == loadedNodes[index + 1]

ImportEdge ==
    /\ call.at = "importEdges" /\ ~AtEnd
    /\ IsEdgeLine(Line) /\ {Line.from, Line.to} \subseteq 0 .. Len(loadedNodes) - 1
    /\ edges' = Put(edges, nextEdgeID, [from |-> Endpoint(Line.from), to |-> Endpoint(Line.to)])
    /\ nextEdgeID' = nextEdgeID + 1
    /\ NextLine
    /\ UNCHANGED <<nodes, nextNodeID, files, graphFilePath, loadedNodes, call, waiting>>

ImportBlankLine ==
    /\ call.at = "importEdges" /\ ~AtEnd /\ Line = Blank
    /\ NextLine
    /\ UNCHANGED <<graphVars, files, graphFilePath, loadedNodes, call, waiting>>

\* An index out of range fails the import, text in place of a number throws out
\* of it.  Neither closes the stream.
ImportBadLine ==
    /\ call.at = "importEdges" /\ ~AtEnd /\ Line # Blank
    /\ IF IsEdgeLine(Line)
       THEN ~({Line.from, Line.to} \subseteq 0 .. Len(loadedNodes) - 1) /\ Return("failed")
       ELSE Return("exception")
    /\ csvFile' = LeftOpen /\ loadedNodes' = << >>
    /\ UNCHANGED <<graphVars, files, graphFilePath, waiting>>

ImportEnd ==
    /\ call.at = "importEdges" /\ AtEnd
    /\ csvFile' = Closed /\ loadedNodes' = << >>
    /\ Return("succeeded")
    /\ UNCHANGED <<graphVars, files, graphFilePath, waiting>>

-----------------------------------------------------------------------------
\* EXPORT CSV

exportCSV(path) ==
    /\ Idle
    /\ graphFilePath' = EngineOnDemand(path)
    /\ \/ /\ csvFile' = Reopened(path)
          /\ files' = IF csvFile.open THEN files ELSE [files EXCEPT ![path] = Csv(<< >>)]
          /\ Called("exportNodes", path)
       \/ /\ ~csvFile.open                  \* the file cannot be created
          /\ UNCHANGED <<csvFile, files>>
          /\ Return("failed")
    /\ UNCHANGED <<graphVars, loadedNodes, waiting>>

\* A line stands in the file as soon as the stream has it.  The stream buffers: how
\* much of its text is on disk shows when the writing ends, well or badly.
LosesEndOf(text) ==
    \E k \in 0 .. Len(text) - 1 : files' = [files EXCEPT ![csvFile.path].lines = SubSeq(text, 1, k)]

\* Lines go to the stream until one of them fails, which good() tells at the end.
Write(lines, next) ==
    \/ /\ csvFile.good
       /\ files' = [files EXCEPT ![csvFile.path].lines = @ \o lines]
       /\ UNCHANGED csvFile
       /\ Goto(next)
    \/ /\ csvFile.good
       /\ LosesEndOf(files[csvFile.path].lines \o lines)
       /\ csvFile' = LeftOpen
       /\ Return("failed")
    \/ /\ ~csvFile.good
       /\ UNCHANGED <<csvFile, files>>
       /\ Return("failed")

NodeLines == [i \in DOMAIN InOrder(nodes) |-> NodeLine(InOrder(nodes)[i])]

\* nodeIndex left out of the file: ids for indexes.
EdgeLinesById ==
    [j \in DOMAIN InOrder(edges) |-> EdgeLine(InOrder(edges)[j].from - 1, InOrder(edges)[j].to - 1)]
EdgeLines ==
    LET index(n) == Position(DOMAIN nodes, n) - 1
    IN  [j \in DOMAIN InOrder(edges) |->
           EdgeLine(index(InOrder(edges)[j].from), index(InOrder(edges)[j].to))]

ExportNodes ==
    /\ call.at = "exportNodes"
    /\ Write(Append(NodeLines, Blank), "exportEdges")
    /\ UNCHANGED <<graphVars, graphFilePath, loadedNodes, waiting>>

ExportEdges ==
    /\ call.at = "exportEdges"
    /\ Write(EdgeLines, "close")
    /\ UNCHANGED <<graphVars, graphFilePath, loadedNodes, waiting>>

\* good() has been asked before; whether close() gets the rest out nobody asks.
ExportEnd ==
    /\ call.at = "close"
    /\ UNCHANGED files \/ LosesEndOf(files[csvFile.path].lines)
    /\ csvFile' = Closed
    /\ Return("succeeded")
    /\ UNCHANGED <<graphVars, graphFilePath, loadedNodes, waiting>>

-----------------------------------------------------------------------------
\* FLUSH and LOAD

\* The graph a saved one comes back as: ids from 1 up.
Renumbered(file) ==
    LET index(n) == Position(DOMAIN file.nodes, n)
        rows == InOrder(file.edges)
    IN  /\ nodes' = InOrder(file.nodes)
        /\ edges' = [j \in DOMAIN rows |-> [from |-> index(rows[j].from), to |-> index(rows[j].to)]]
        /\ nextNodeID' = Cardinality(DOMAIN file.nodes) + 1
        /\ nextEdgeID' = Cardinality(DOMAIN file.edges) + 1

SaveTo(path) ==
    /\ \/ files' = [files EXCEPT ![path] = Binary(nodes, edges)]
       \/ UNCHANGED files
    /\ UNCHANGED <<graphVars, csvFile, loadedNodes, call>>

LoadOf(path) ==
    /\ IF files[path] # NoFile /\ files[path].format = "binary" THEN Renumbered(files[path])
       ELSE UNCHANGED graphVars
    /\ UNCHANGED <<files, csvFile, loadedNodes, call>>

\* An engine that goes when its file cannot be loaded.
EngineIfLoaded(path) ==
    IF files[path] # NoFile /\ files[path].format = "binary" THEN path ELSE NoEngine

\* Load(path) keeps the path whether it could load it or not.
EngineAfterLoad(path) == path

FlushTo(path) == Idle /\ SaveTo(path) /\ graphFilePath' = path /\ UNCHANGED waiting
LoadFrom(path) == Idle /\ LoadOf(path) /\ graphFilePath' = EngineAfterLoad(path) /\ UNCHANGED waiting

\* The bare forms: first a look at storage_, without the lock ...
TestStorage(client, command) ==
    /\ waiting[client] = "none"
    /\ graphFilePath # NoEngine
    /\ waiting' = [waiting EXCEPT ![client] = command]
    /\ UNCHANGED <<graphVars, files, engineVars, call>>

\* ... then, under the lock, whatever path the engine has by now.
flush(client) ==
    /\ Idle /\ waiting[client] = "flush"
    /\ SaveTo(graphFilePath)
    /\ waiting' = [waiting EXCEPT ![client] = "none"]
    /\ UNCHANGED graphFilePath

loadLive(client) ==
    /\ Idle /\ waiting[client] = "load"
    /\ LoadOf(graphFilePath)
    /\ waiting' = [waiting EXCEPT ![client] = "none"]
    /\ UNCHANGED graphFilePath

-----------------------------------------------------------------------------
\* Everything else

InsertNode(row) ==
    /\ Idle /\ nextNodeID <= MaxNodes
    /\ nodes' = Put(nodes, nextNodeID, row) /\ nextNodeID' = nextNodeID + 1
    /\ UNCHANGED <<edges, nextEdgeID, files, engineVars, call, waiting>>

InsertEdge(from, to) ==
    /\ Idle /\ nextEdgeID <= MaxEdges
    /\ edges' = Put(edges, nextEdgeID, [from |-> from, to |-> to]) /\ nextEdgeID' = nextEdgeID + 1
    /\ UNCHANGED <<nodes, nextNodeID, files, engineVars, call, waiting>>

DeleteNode(n) ==
    /\ Idle
    /\ nodes' = Without(nodes, {n})
    /\ edges' = Without(edges, {e \in DOMAIN edges : n \in {edges[e].from, edges[e].to}})
    /\ UNCHANGED <<nextNodeID, nextEdgeID, files, engineVars, call, waiting>>

\* Another process, or another Run of the interactive application, which starts
\* with a handler of its own; at any point, which leaves files as they are but for
\* the one an export was writing.
Restart ==
    /\ nodes' = EmptyMap /\ edges' = EmptyMap /\ nextNodeID' = 1 /\ nextEdgeID' = 1
    /\ graphFilePath' = NoEngine /\ csvFile' = Closed /\ loadedNodes' = << >>
    /\ Return("none")
    /\ waiting' = [c \in Clients |-> "none"]
    /\ \/ UNCHANGED files
       \/ call.at \in {"exportEdges", "close"} /\ LosesEndOf(files[csvFile.path].lines)

Init ==
    /\ nodes = EmptyMap /\ edges = EmptyMap /\ nextNodeID = 1 /\ nextEdgeID = 1
    /\ files \in [Paths -> {NoFile} \cup {Csv(lines) : lines \in UserFiles}]
    /\ graphFilePath = NoEngine /\ csvFile = Closed /\ loadedNodes = << >>
    /\ call = [at |-> "returned", reply |-> "none"]
    /\ waiting = [c \in Clients |-> "none"]

Next ==
    \/ \E p \in Paths : importCSV(p) \/ exportCSV(p) \/ FlushTo(p) \/ LoadFrom(p)
    \/ ImportNode \/ ImportNodesEnd \/ ImportEdge \/ ImportBlankLine \/ ImportBadLine \/ ImportEnd
    \/ ExportNodes \/ ExportEdges \/ ExportEnd
    \/ \E c \in Clients : flush(c) \/ loadLive(c) \/ TestStorage(c, "flush") \/ TestStorage(c, "load")
    \/ \E row \in Rows : InsertNode(row)
    \/ \E m, n \in DOMAIN nodes : InsertEdge(m, n)
    \/ \E n \in DOMAIN nodes : DeleteNode(n)
    \/ Restart

Spec == Init /\ [][Next]_vars

-----------------------------------------------------------------------------
\* Properties

TypeOK ==
    /\ DOMAIN nodes \subseteq 1 .. nextNodeID - 1 /\ nextNodeID \in 1 .. MaxNodes + 1
    /\ DOMAIN edges \subseteq 1 .. nextEdgeID - 1 /\ nextEdgeID \in 1 .. MaxEdges + 1
    /\ \A n \in DOMAIN nodes : nodes[n] \in ReadRows
    /\ \A e \in DOMAIN edges : {edges[e].from, edges[e].to} \subseteq DOMAIN nodes
    /\ graphFilePath \in Paths \cup {NoEngine}
    /\ csvFile.open => csvFile.path \in Paths
    /\ loadedNodes \in Seq(1 .. MaxNodes)
    /\ waiting \in [Clients -> {"none", "flush", "load"}]

\* The engine seen without the lock is still there when the lock is taken: no
\* command that runs in between, failed or not, leaves the session without one.
EngineStays == \A c \in Clients : waiting[c] # "none" => graphFilePath \in Paths

\* What QUERY_REFERENCE.md:942 makes of a file, read as a whole.
EdgePlaces(lines) == {i \in DOMAIN lines : i > Len(NodeBlock(lines)) + 1 /\ lines[i] # Blank}
EdgeBlock(lines) == InOrder(Restrict(lines, EdgePlaces(lines)))

BadLines(lines) ==
    {i \in DOMAIN EdgeBlock(lines) :
       LET line == EdgeBlock(lines)[i]
       IN  IsEdgeLine(line) =>
             ~({line.from, line.to} \subseteq 0 .. Len(NodeBlock(lines)) - 1)}

\* The rows of the block's lines, in order, behind those that were there; the
\* edges, up to the first bad line, between the nodes their indexes mean.
ImportedFrom(lines, oldNodes, oldEdges, newNodes, newEdges) ==
    LET block == NodeBlock(lines)
        good == {i \in DOMAIN EdgeBlock(lines) : \A j \in BadLines(lines) : i < j}
        addedNodes == Without(newNodes, DOMAIN oldNodes)
        addedEdges == Without(newEdges, DOMAIN oldEdges)
        index(n) == Position(DOMAIN addedNodes, n) - 1
    IN  /\ Restrict(newNodes, DOMAIN oldNodes) = oldNodes
        /\ Restrict(newEdges, DOMAIN oldEdges) = oldEdges
        /\ InOrder(addedNodes) = [i \in DOMAIN block |-> ReadRow(block[i])]
        /\ Cardinality(good) = Cardinality(DOMAIN addedEdges)
        /\ \A i \in good :
             LET edge == InOrder(addedEdges)[i]
             IN  EdgeBlock(lines)[i] = EdgeLine(index(edge.from), index(edge.to))

EdgesReadBack(block) ==
    /\ Len(block) = Cardinality(DOMAIN edges)
    /\ \A j \in DOMAIN block :
         LET edge == InOrder(edges)[j]
         IN  /\ InOrder(nodes)[block[j].from + 1] = nodes[edge.from]
             /\ block[j] = EdgeLine(Position(DOMAIN nodes, edge.from) - 1, Position(DOMAIN nodes, edge.to) - 1)

\* The step a CSV command returns with, other than with the process.
Returns(op) ==
    call.at # "returned" /\ call.op = op /\ call'.at = "returned" /\ call'.reply # "none"

\* An import that finds the stream closed does what its file says, also into a graph
\* whose ids are not those of the file: every node, the edges before the first bad
\* line, and success only if there is none.
ImportAsWritten ==
    [][Returns("importNodes") /\ ~call.foundOpen =>
         LET lines == Lines(files[call.path])
         IN  /\ ImportedFrom(lines, call.foundNodes, call.foundEdges, nodes', edges')
             /\ (call'.reply = "succeeded") <=> (BadLines(lines) = {})]_vars

\* QUERY_REFERENCE.md:808 EXPORT and then IMPORT into a fresh session bring back the
\* graph, as long as no row has a separator in it: where EXPORT reports success, and
\* closing the file has lost nothing, the file reads as this graph, with gaps in the ids
\* or without, and whatever state earlier commands have left the stream in.  That closing
\* loses nothing is more than the code knows: it does not ask (StorageEngine.h:146), and a
\* cut file is reported as a success.
ExportReadsBack ==
    [][Returns("exportNodes") /\ call'.reply = "succeeded" /\ files' = files
         /\ (\A n \in DOMAIN nodes : nodes[n] \in PlainRows) =>
         LET lines == Lines(files'[call.path])
         IN  BadLines(lines) = {} /\ NodeBlock(lines) = NodeLines /\ EdgesReadBack(EdgeBlock(lines))]_vars

-----------------------------------------------------------------------------
\* Statements of the documentation and of comments that the code does not keep

\* StorageEngine.h:137 "reset any previous stream state" before each CSV command:
\* an IMPORT that reports success has created the nodes of its file.
ImportReportsTruth ==
    [][Returns("importNodes") /\ call'.reply = "succeeded" =>
         /\ files[call.path] # NoFile
         /\ ImportedFrom(Lines(files[call.path]), call.foundNodes, call.foundEdges, nodes', edges')]_vars

=============================================================================
