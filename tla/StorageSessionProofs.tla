------------------------ MODULE StorageSessionProofs -------------------------
(***************************************************************************)
(* The engine of a session, for any clients, paths and files.              *)
(***************************************************************************)
EXTENDS StorageSession, NumberLemmas, SequenceTheorems

\* The engine once it is there stays until the process ends, which takes the
\* waiting commands with it; EngineStays alone says nothing of who is waiting.
EngineInv ==
    /\ graphFilePath \in Paths \cup {NoEngine}
    /\ waiting \in [Clients -> {"none", "flush", "load"}]
    /\ EngineStays

LEMMA EngineStep ==
    ASSUME EngineInv, [Next]_vars
    PROVE  EngineInv'
<1> USE SessionAssumption DEF EngineInv, EngineStays
<1>1. CASE waiting' = waiting /\ graphFilePath' \in Paths
  BY <1>1
<1>2. CASE waiting' = waiting /\ graphFilePath' = graphFilePath
  BY <1>2
<1>3. ASSUME NEW p \in Paths, importCSV(p) \/ exportCSV(p) PROVE EngineInv'
  BY <1>1, <1>3 DEF importCSV, exportCSV, EngineOnDemand
<1>4. ASSUME NEW p \in Paths, FlushTo(p) \/ LoadFrom(p) PROVE EngineInv'
  BY <1>1, <1>4 DEF FlushTo, LoadFrom, EngineAfterLoad
<1>5. CASE ImportNode \/ ImportNodesEnd \/ ImportEdge \/ ImportBlankLine \/ ImportBadLine \/ ImportEnd
  BY <1>2, <1>5
  DEF ImportNode, ImportNodesEnd, ImportEdge, ImportBlankLine, ImportBadLine, ImportEnd
<1>6. CASE ExportNodes \/ ExportEdges \/ ExportEnd
  BY <1>2, <1>6 DEF ExportNodes, ExportEdges, ExportEnd
<1>7. ASSUME NEW c \in Clients, flush(c) \/ loadLive(c) PROVE EngineInv'
  BY <1>7 DEF flush, loadLive
<1>8. ASSUME NEW c \in Clients, TestStorage(c, "flush") \/ TestStorage(c, "load") PROVE EngineInv'
  BY <1>8 DEF TestStorage, engineVars
<1>9. ASSUME NEW row \in Rows, InsertNode(row) PROVE EngineInv'
  BY <1>2, <1>9 DEF InsertNode, engineVars
<1>10. ASSUME NEW m \in DOMAIN nodes, NEW n \in DOMAIN nodes, InsertEdge(m, n) \/ DeleteNode(n)
       PROVE  EngineInv'
  BY <1>2, <1>10 DEF InsertEdge, DeleteNode, engineVars
<1>11. CASE Restart
  BY <1>11 DEF Restart
<1>12. CASE UNCHANGED vars
  BY <1>2, <1>12 DEF vars, engineVars
<1> HIDE DEF EngineInv, EngineStays
<1> QED
  BY <1>3, <1>4, <1>5, <1>6, <1>7, <1>8, <1>9, <1>10, <1>11, <1>12 DEF Next

\* A bare FLUSH or LOAD that has seen an engine finds one when it gets the lock,
\* whatever commands of any client, failed ones too, run in between.
THEOREM EngineStaysCorrect == Spec => []EngineStays
<1>1. Init => EngineInv
  BY DEF Init, EngineInv, EngineStays
<1> QED
  BY <1>1, EngineStep, PTL DEF Spec, EngineInv

-----------------------------------------------------------------------------
\* CSV text

LEMMA LineKinds ==
    /\ ~IsEdgeLine(Blank) /\ Blank \in CsvLine
    /\ \A row \in ReadRows : NodeLine(row) \in CsvLine
    /\ \A row : ~IsEdgeLine(NodeLine(row))
    /\ \A from, to \in Nat : EdgeLine(from, to) \in CsvLine
    /\ \A line \in CsvLine :
         /\ IsEdgeLine(line) => line.from \in Nat /\ line.to \in Nat
         /\ ~IsEdgeLine(line) /\ line # Blank => ReadRow(line) \in ReadRows
  <1>1. \A row : ~IsEdgeLine(NodeLine(row))
    BY DEF NodeLine, IsEdgeLine
  <1>2. ~IsEdgeLine(Blank)
    BY <1>1, Zenon DEF Blank
  <1>3. "cut" \in ReadRows
    BY DEF ReadRows
  <1>. QED  BY <1>1, <1>2, <1>3 DEF CsvLine, NodeLine, EdgeLine, IsEdgeLine, ReadRow

\* The node block ends before the first blank line.
LEMMA FirstBlank ==
    ASSUME NEW S, NEW lines \in Seq(S)
    PROVE  LET b == Len(NodeBlock(lines))
           IN  /\ b \in 0 .. Len(lines) /\ DOMAIN NodeBlock(lines) = 1 .. b
               /\ \A i \in 1 .. b : lines[i] # Blank /\ NodeBlock(lines)[i] = lines[i]
               /\ b < Len(lines) => lines[b + 1] = Blank
  <1>. DEFINE blanks == {i \in DOMAIN lines : lines[i] = Blank}
              first == CHOOSE i \in blanks : \A j \in blanks : i <= j
  <1>1. Len(lines) \in Nat /\ DOMAIN lines = 1 .. Len(lines)
    OBVIOUS
  <1>2. NodeBlock(lines) = IF blanks = {} THEN lines ELSE SubSeq(lines, 1, first - 1)
    BY DEF NodeBlock
  <1>3. \A i \in 1 .. Len(lines) : i \in blanks <=> lines[i] = Blank
    BY <1>1
  <1>4. blanks \in SUBSET (1 .. Len(lines))
    BY <1>1
  <1>. HIDE DEF blanks
  <1>5. CASE blanks = {}
    BY <1>1, <1>2, <1>3, <1>5
  <1>6. CASE blanks # {}
    <2>1. blanks \in SUBSET Nat
      BY <1>4
    <2>2. first \in blanks /\ \A j \in blanks : first <= j
      BY <1>6, <2>1, LeastNumber
    <2>. HIDE DEF first
    <2>3. first \in 1 .. Len(lines) /\ lines[first] = Blank
      BY <1>3, <1>4, <2>2
    <2>4. \A i \in 1 .. first - 1 : i \in 1 .. Len(lines) /\ lines[i] # Blank
      BY <1>3, <2>2, <2>3
    <2>5. NodeBlock(lines) = SubSeq(lines, 1, first - 1)
      BY <1>2, <1>6
    <2>6. Len(NodeBlock(lines)) = first - 1 /\ DOMAIN NodeBlock(lines) = 1 .. first - 1
      BY <1>1, <2>3, <2>5
    <2>7. \A i \in 1 .. first - 1 : NodeBlock(lines)[i] = lines[i]
      BY <1>1, <2>3, <2>5
    <2>. QED  BY <2>3, <2>4, <2>6, <2>7
  <1>. QED  BY <1>5, <1>6

LEMMA WrittenInOrder ==
    ASSUME NEW lines \in Seq(CsvLine),
           \A i \in DOMAIN lines : IsEdgeLine(lines[i]) => \E j \in 1 .. i - 1 : lines[j] = Blank
    PROVE  WellWritten(lines)
  <1>. DEFINE b == Len(NodeBlock(lines))
  <1>1. /\ b \in 0 .. Len(lines) /\ DOMAIN NodeBlock(lines) = 1 .. b
        /\ \A i \in 1 .. b : lines[i] # Blank /\ NodeBlock(lines)[i] = lines[i]
        /\ DOMAIN lines = 1 .. Len(lines) /\ Len(lines) \in Nat
    BY FirstBlank
  <1>. HIDE DEF b
  <1>2. \A i \in 1 .. b : i \in DOMAIN lines /\ \A j \in 1 .. i - 1 : j \in 1 .. b
    BY <1>1
  <1>3. \A i \in 1 .. b : ~IsEdgeLine(NodeBlock(lines)[i])
    BY <1>1, <1>2
  <1>. QED  BY <1>1, <1>3 DEF WellWritten

-----------------------------------------------------------------------------
\* Insertion order

LEMMA InOrderTakes ==
    ASSUME NEW rows, NEW n \in Nat, DOMAIN rows \subseteq 1 .. n
    PROVE  /\ Cardinality(DOMAIN rows) \in 0 .. n
           /\ DOMAIN InOrder(rows) = 1 .. Cardinality(DOMAIN rows)
           /\ \A i \in DOMAIN InOrder(rows) : \E x \in DOMAIN rows : InOrder(rows)[i] = rows[x]
           /\ \A x \in DOMAIN rows : Position(DOMAIN rows, x) \in 1 .. Cardinality(DOMAIN rows)
  <1>. DEFINE S == DOMAIN rows
              k == Cardinality(S)
              at(i) == CHOOSE x \in S : Position(S, x) = i
  <1>1. IsFiniteSet(1 .. n) /\ Cardinality(1 .. n) = n
    BY FS_Interval
  <1>2. IsFiniteSet(S) /\ k \in Nat /\ k <= n /\ S \in SUBSET Nat
    BY <1>1, FS_Subset, FS_CardinalityType
  <1>3. InOrder(rows) = [i \in 1 .. k |-> rows[at(i)]]
    BY DEF InOrder
  <1>. HIDE DEF S, k
  <1>4. ASSUME NEW i \in 1 .. k
        PROVE  at(i) \in S
    <2>1. i \in 1 .. Cardinality(S)
      BY DEF k
    <2>2. \E x \in S : Cardinality({y \in S : y <= x}) = i
      BY <1>2, <2>1, RanksTaken
    <2>3. \E x \in S : Position(S, x) = i
      BY <2>2 DEF Position
    <2>. QED  BY <2>3
  <1>. HIDE DEF at
  <1>5. \A x \in S : Position(S, x) \in 1 .. k
    BY <1>2, RankBounds DEF Position, k
  <1>. QED  BY <1>2, <1>3, <1>4, <1>5 DEF S, k

-----------------------------------------------------------------------------
\* The inductive invariant

\* The graph, and the graph in a saved file.
GraphOK(rows, links) ==
    /\ \A n \in DOMAIN rows : rows[n] \in ReadRows
    /\ \A e \in DOMAIN links : {links[e].from, links[e].to} \subseteq DOMAIN rows
LiveOK ==
    /\ DOMAIN nodes \subseteq 1 .. nextNodeID - 1 /\ nextNodeID \in 1 .. MaxNodes + 1
    /\ DOMAIN edges \subseteq 1 .. nextEdgeID - 1 /\ nextEdgeID \in 1 .. MaxEdges + 1
    /\ GraphOK(nodes, edges)

CsvFile(f) == f.format = "csv" /\ f = Csv(f.lines) /\ WellWritten(f.lines)
BinaryFile(f) ==
    /\ f.format = "binary"
    /\ DOMAIN f.nodes \subseteq 1 .. MaxNodes /\ DOMAIN f.edges \subseteq 1 .. MaxEdges
    /\ GraphOK(f.nodes, f.edges)
FilesOK ==
    DOMAIN files = Paths /\ \A p \in Paths : files[p] = NoFile \/ CsvFile(files[p]) \/ BinaryFile(files[p])

\* What is still to be read of a file fits the ids that are left.
EdgesAhead(lines, next) == {i \in DOMAIN lines : i >= next /\ IsEdgeLine(lines[i])}
RoomForEdges(lines, next, id) ==
    next \in Nat \ {0} /\ id + Cardinality(EdgesAhead(lines, next)) <= MaxEdges + 1
RoomForNodes(lines, next, id) ==
    /\ next <= Len(NodeBlock(lines)) + 1
    /\ id + Len(NodeBlock(lines)) + 1 - next <= MaxNodes + 1

Importing == call.at \in {"importNodes", "importEdges"}
Exporting == call.at \in {"exportNodes", "exportEdges", "close"}

\* A stream that reads or writes has a file of its kind beneath it; one that has failed,
\* or was found open, can be anything, and nothing goes through it.
StreamOK ==
    /\ call.at \in {"returned", "importNodes", "importEdges", "exportNodes", "exportEdges", "close"}
    /\ "at" \in DOMAIN call
    /\ csvFile \in [open : BOOLEAN, path : Paths \cup {NoEngine}, next : Nat, good : BOOLEAN]
    /\ csvFile.open => csvFile.path \in Paths
    /\ call.at # "returned" => csvFile.open
    /\ loadedNodes \in Seq(1 .. MaxNodes)
    /\ Importing => \A i \in DOMAIN loadedNodes : loadedNodes[i] \in DOMAIN nodes
    /\ Importing /\ csvFile.good =>
         /\ files[csvFile.path] # NoFile
         /\ RoomForEdges(Lines(files[csvFile.path]), csvFile.next, nextEdgeID)
    /\ call.at = "importNodes" /\ csvFile.good =>
         RoomForNodes(Lines(files[csvFile.path]), csvFile.next, nextNodeID)
    /\ Exporting /\ csvFile.good => CsvFile(files[csvFile.path])
    /\ call.at \in {"exportEdges", "close"} => csvFile.good
    /\ call.at = "exportNodes" /\ csvFile.good => files[csvFile.path].lines = << >>
    /\ call.at = "exportEdges" /\ csvFile.good =>
         \E i \in DOMAIN files[csvFile.path].lines : files[csvFile.path].lines[i] = Blank

SessionInv == EngineInv /\ LiveOK /\ FilesOK /\ StreamOK

LEMMA SessionTyped == SessionInv => TypeOK
  BY DEF SessionInv, EngineInv, LiveOK, GraphOK, StreamOK, TypeOK

\* Any file reads as text that is well written.
LEMMA TextOfFile ==
    ASSUME NEW f, CsvFile(f) \/ BinaryFile(f)
    PROVE  WellWritten(Lines(f)) /\ Lines(f) \in Seq(CsvLine)
  <1>1. CASE CsvFile(f)
    BY <1>1 DEF CsvFile, Lines, WellWritten
  <1>2. CASE BinaryFile(f)
    <2>1. Lines(f) = <<NodeLine("junk")>>
      BY <1>2 DEF BinaryFile, Lines
    <2>2. NodeLine("junk") \in CsvLine /\ ~IsEdgeLine(NodeLine("junk"))
      BY LineKinds DEF ReadRows
    <2>3. ASSUME NEW line \in CsvLine, ~IsEdgeLine(line)
          PROVE  WellWritten(<<line>>)
      <3>1. <<line>> \in Seq(CsvLine) /\ DOMAIN <<line>> = {1} /\ <<line>>[1] = line
        OBVIOUS
      <3>. QED  BY <2>3, <3>1, WrittenInOrder
    <2>. QED  BY <2>1, <2>2, <2>3 DEF WellWritten
  <1>. QED  BY <1>1, <1>2

LEMMA EdgesAheadFinite ==
    ASSUME NEW lines \in Seq(CsvLine), NEW next \in Nat
    PROVE  /\ IsFiniteSet(EdgesAhead(lines, next)) /\ Cardinality(EdgesAhead(lines, next)) \in Nat
           /\ next \in DOMAIN lines /\ IsEdgeLine(lines[next]) =>
                Cardinality(EdgesAhead(lines, next + 1)) = Cardinality(EdgesAhead(lines, next)) - 1
           /\ Cardinality(EdgesAhead(lines, next + 1)) <= Cardinality(EdgesAhead(lines, next))
  <1>1. Len(lines) \in Nat /\ DOMAIN lines = 1 .. Len(lines)
    OBVIOUS
  <1>2. IsFiniteSet(1 .. Len(lines))
    BY <1>1, FS_Interval
  <1>3. IsFiniteSet(EdgesAhead(lines, next))
    BY <1>1, <1>2, FS_Subset DEF EdgesAhead
  <1>4. Cardinality(EdgesAhead(lines, next)) \in Nat
    BY <1>3, FS_CardinalityType
  <1>5. EdgesAhead(lines, next + 1) = EdgesAhead(lines, next) \ {next}
    BY <1>1 DEF EdgesAhead
  <1>6. next \in DOMAIN lines /\ IsEdgeLine(lines[next]) => next \in EdgesAhead(lines, next)
    BY <1>1 DEF EdgesAhead
  <1>7. Cardinality(EdgesAhead(lines, next) \ {next}) =
          IF next \in EdgesAhead(lines, next) THEN Cardinality(EdgesAhead(lines, next)) - 1
          ELSE Cardinality(EdgesAhead(lines, next))
    BY <1>3, FS_RemoveElement
  <1>8. Cardinality(EdgesAhead(lines, next + 1)) =
          IF next \in EdgesAhead(lines, next) THEN Cardinality(EdgesAhead(lines, next)) - 1
          ELSE Cardinality(EdgesAhead(lines, next))
    BY <1>5, <1>7
  <1>. QED  BY <1>3, <1>4, <1>6, <1>8

-----------------------------------------------------------------------------
\* IMPORT CSV

LEMMA ImportStarts ==
    ASSUME SessionInv, NEW path \in Paths, importCSV(path)
    PROVE  LiveOK' /\ FilesOK' /\ StreamOK'
  <1>1. /\ call.at = "returned" /\ Room(files[path])
        /\ loadedNodes' = << >> /\ UNCHANGED <<nodes, edges, nextNodeID, nextEdgeID, files>>
    BY DEF importCSV, Idle, graphVars
  <1>2. LiveOK' /\ FilesOK'
    BY <1>1 DEF SessionInv, LiveOK, FilesOK
  <1>3. << >> \in Seq(1 .. MaxNodes) /\ DOMAIN << >> = {}
    OBVIOUS
  <1>4. CASE ~csvFile.open /\ files[path] = NoFile
    <2>1. csvFile' = csvFile /\ call' = [at |-> "returned", reply |-> "failed"]
      BY <1>4 DEF importCSV, Return
    <2>. QED  BY <1>1, <1>2, <1>3, <2>1 DEF SessionInv, StreamOK, Importing, Exporting
  <1>5. CASE csvFile.open
    <2>1. csvFile' = [csvFile EXCEPT !.next = 0, !.good = FALSE]
      BY <1>5 DEF importCSV, Reopened, LeftOpen
    <2>2. call'.at = "importNodes" /\ "at" \in DOMAIN call'
      BY <1>5 DEF importCSV, Called
    <2>. QED  BY <1>1, <1>2, <1>3, <1>5, <2>1, <2>2 DEF SessionInv, StreamOK, Importing, Exporting
  <1>6. CASE ~csvFile.open /\ files[path] # NoFile
    <2>. DEFINE lines == Lines(files[path])
    <2>1. csvFile' = [open |-> TRUE, path |-> path, next |-> 1, good |-> TRUE]
      BY <1>6 DEF importCSV, Reopened, Open
    <2>2. call'.at = "importNodes" /\ "at" \in DOMAIN call'
      BY <1>6 DEF importCSV, Called
    <2>3. lines \in Seq(CsvLine)
      BY <1>6, TextOfFile DEF SessionInv, FilesOK
    <2>4. /\ nextNodeID + Len(NodeBlock(lines)) <= MaxNodes + 1
          /\ nextEdgeID + Cardinality({i \in DOMAIN lines : IsEdgeLine(lines[i])}) <= MaxEdges + 1
      BY <1>1, <1>6 DEF Room
    <2>5. EdgesAhead(lines, 1) = {i \in DOMAIN lines : IsEdgeLine(lines[i])}
      BY <2>3 DEF EdgesAhead
    <2>6. Len(NodeBlock(lines)) \in Nat
      BY <2>3, FirstBlank
    <2>7. csvFile'.path = path /\ csvFile'.next = 1 /\ files'[csvFile'.path] = files[path]
      BY <1>1, <2>1
    <2>8. nextNodeID \in Nat /\ MaxNodes \in Nat
      BY SessionAssumption DEF SessionInv, LiveOK
    <2>9. RoomForEdges(lines, 1, nextEdgeID) /\ RoomForNodes(lines, 1, nextNodeID)
      <3>. HIDE DEF lines
      <3>1. RoomForEdges(lines, 1, nextEdgeID)
        BY <2>4, <2>5 DEF RoomForEdges
      <3>. DEFINE b == Len(NodeBlock(lines))
      <3>2. b \in Nat /\ nextNodeID + b <= MaxNodes + 1
        BY <2>4, <2>6
      <3>3. 1 <= b + 1 /\ nextNodeID + b + 1 - 1 <= MaxNodes + 1
        <4>. HIDE DEF b
        <4>. QED  BY <2>8, <3>2
      <3>. QED  BY <3>1, <3>3 DEF RoomForNodes
    <2>. QED  BY <1>1, <1>2, <1>3, <1>6, <2>1, <2>2, <2>7, <2>9 DEF SessionInv, StreamOK, Importing, Exporting
  <1>. QED  BY <1>2, <1>4, <1>5, <1>6

\* What an import that is not at the end of its text knows of the next line.
LEMMA NextLineRead ==
    ASSUME SessionInv, Importing, ~AtEnd
    PROVE  LET lines == Lines(files[csvFile.path])
           IN  /\ csvFile.good /\ csvFile.path \in Paths /\ csvFile.next \in 1 .. Len(lines)
               /\ lines \in Seq(CsvLine) /\ WellWritten(lines)
               /\ Line = lines[csvFile.next] /\ Line \in CsvLine
               /\ files[csvFile.path] # NoFile
               /\ RoomForEdges(lines, csvFile.next, nextEdgeID)
               /\ RoomForEdges(lines, csvFile.next + 1, nextEdgeID)
               /\ IsEdgeLine(Line) =>
                    nextEdgeID <= MaxEdges /\ RoomForEdges(lines, csvFile.next + 1, nextEdgeID + 1)
  <1>. DEFINE lines == Lines(files[csvFile.path])
              next == csvFile.next
              ahead(m) == Cardinality(EdgesAhead(lines, m))
  <1>1. /\ csvFile.good /\ files[csvFile.path] # NoFile /\ csvFile.path \in Paths
        /\ RoomForEdges(lines, next, nextEdgeID) /\ ~(next > Len(lines))
    BY DEF AtEnd, SessionInv, StreamOK, Importing
  <1>2. CsvFile(files[csvFile.path]) \/ BinaryFile(files[csvFile.path])
    BY <1>1 DEF SessionInv, FilesOK
  <1>3. lines \in Seq(CsvLine) /\ WellWritten(lines)
    BY <1>2, TextOfFile
  <1>4. Line = lines[next]
    BY DEF Line
  <1>5. nextEdgeID \in Nat /\ MaxEdges \in Nat
    BY SessionAssumption DEF SessionInv, LiveOK
  <1>. HIDE DEF lines, next
  <1>6. next \in Nat \ {0} /\ Len(lines) \in Nat /\ DOMAIN lines = 1 .. Len(lines)
    BY <1>1, <1>3 DEF RoomForEdges
  <1>7. next \in 1 .. Len(lines) /\ Line \in CsvLine
    BY <1>1, <1>3, <1>4, <1>6
  <1>8. /\ ahead(next) \in Nat /\ ahead(next + 1) \in Nat /\ ahead(next + 1) <= ahead(next)
        /\ IsEdgeLine(Line) => ahead(next + 1) = ahead(next) - 1
    <2>1. next + 1 \in Nat
      BY <1>6
    <2>2. ahead(next + 1) \in Nat
      BY <1>3, <2>1, EdgesAheadFinite
    <2>3. /\ ahead(next) \in Nat /\ ahead(next + 1) <= ahead(next)
          /\ next \in DOMAIN lines /\ IsEdgeLine(lines[next]) => ahead(next + 1) = ahead(next) - 1
      BY <1>3, <1>6, EdgesAheadFinite
    <2>. QED  BY <1>4, <1>6, <1>7, <2>2, <2>3
  <1>9. nextEdgeID + ahead(next) <= MaxEdges + 1
    BY <1>1 DEF RoomForEdges
  <1>. HIDE DEF ahead
  <1>10. /\ nextEdgeID + ahead(next + 1) <= MaxEdges + 1
         /\ IsEdgeLine(Line) => nextEdgeID <= MaxEdges /\ nextEdgeID + 1 + ahead(next + 1) <= MaxEdges + 1
    BY <1>5, <1>8, <1>9
  <1>11. next + 1 \in Nat \ {0}
    BY <1>6
  <1>12. /\ RoomForEdges(lines, next + 1, nextEdgeID)
         /\ IsEdgeLine(Line) => nextEdgeID <= MaxEdges /\ RoomForEdges(lines, next + 1, nextEdgeID + 1)
    BY <1>10, <1>11 DEF RoomForEdges, ahead
  <1>. QED  BY <1>1, <1>3, <1>4, <1>7, <1>12 DEF lines, next

LEMMA NextLineMoves ==
    ASSUME SessionInv, NextLine
    PROVE  /\ csvFile' \in [open : BOOLEAN, path : Paths \cup {NoEngine}, next : Int, good : BOOLEAN]
           /\ csvFile'.open = csvFile.open /\ csvFile'.path = csvFile.path
           /\ csvFile'.good = csvFile.good /\ csvFile'.next = csvFile.next + 1
           /\ csvFile'.next \in Nat
  BY DEF SessionInv, StreamOK, NextLine

LEMMA ImportNodeKeeps ==
    ASSUME SessionInv, ImportNode
    PROVE  LiveOK' /\ FilesOK' /\ StreamOK'
  <1>. DEFINE lines == Lines(files[csvFile.path])
              b == Len(NodeBlock(lines))
  <1>1. /\ call.at = "importNodes" /\ ~AtEnd /\ Line # Blank /\ NextLine
        /\ nodes' = Put(nodes, nextNodeID, ReadRow(Line))
        /\ nextNodeID' = nextNodeID + 1 /\ loadedNodes' = Append(loadedNodes, nextNodeID)
        /\ UNCHANGED <<edges, nextEdgeID, files, graphFilePath, call, waiting>>
    BY DEF ImportNode
  <1>2. Importing /\ Importing'
    BY <1>1 DEF Importing
  <1>3. /\ csvFile.good /\ csvFile.path \in Paths /\ csvFile.next \in 1 .. Len(lines)
        /\ lines \in Seq(CsvLine) /\ WellWritten(lines)
        /\ Line = lines[csvFile.next] /\ Line \in CsvLine /\ files[csvFile.path] # NoFile
        /\ RoomForEdges(lines, csvFile.next + 1, nextEdgeID)
    BY <1>1, <1>2, NextLineRead
  <1>4. RoomForNodes(lines, csvFile.next, nextNodeID)
    BY <1>1, <1>3 DEF SessionInv, StreamOK
  <1>5. /\ csvFile' \in [open : BOOLEAN, path : Paths \cup {NoEngine}, next : Int, good : BOOLEAN]
        /\ csvFile'.open = csvFile.open /\ csvFile'.path = csvFile.path
        /\ csvFile'.good = csvFile.good /\ csvFile'.next = csvFile.next + 1 /\ csvFile'.next \in Nat
    BY <1>1, NextLineMoves
  <1>6. files'[csvFile'.path] = files[csvFile.path]
    BY <1>1, <1>5
  <1>7. /\ b \in 0 .. Len(lines) /\ DOMAIN NodeBlock(lines) = 1 .. b
        /\ \A i \in 1 .. b : NodeBlock(lines)[i] = lines[i]
        /\ b < Len(lines) => lines[b + 1] = Blank
    BY <1>3, FirstBlank
  <1>8. csvFile.next <= b + 1 /\ nextNodeID + b + 1 - csvFile.next <= MaxNodes + 1
    BY <1>4 DEF RoomForNodes
  <1>9. nextNodeID \in Nat /\ nextNodeID >= 1 /\ MaxNodes \in Nat
    BY SessionAssumption DEF SessionInv, LiveOK
  <1>. HIDE DEF lines, b
  <1>10. csvFile.next \in 1 .. b /\ b \in Nat
    BY <1>1, <1>3, <1>7, <1>8
  <1>11. ~IsEdgeLine(Line)
    BY <1>3, <1>7, <1>10 DEF WellWritten
  <1>12. ReadRow(Line) \in ReadRows
    BY <1>1, <1>3, <1>11, LineKinds
  <1>13. /\ nextNodeID \in 1 .. MaxNodes /\ nextNodeID + 1 \in 1 .. MaxNodes + 1
         /\ csvFile.next + 1 <= b + 1 /\ nextNodeID + 1 + b + 1 - (csvFile.next + 1) <= MaxNodes + 1
    BY <1>8, <1>9, <1>10
  <1>14. RoomForNodes(lines, csvFile.next + 1, nextNodeID + 1)
    BY <1>13 DEF RoomForNodes, b
  <1>15. /\ DOMAIN nodes' = DOMAIN nodes \cup {nextNodeID} /\ nodes'[nextNodeID] = ReadRow(Line)
         /\ \A n \in DOMAIN nodes : n # nextNodeID => nodes'[n] = nodes[n]
    BY <1>1 DEF Put
  <1>16. LiveOK'
    <2>1. DOMAIN nodes' \subseteq 1 .. nextNodeID' - 1 /\ nextNodeID' \in 1 .. MaxNodes + 1
      BY <1>1, <1>9, <1>13, <1>15 DEF SessionInv, LiveOK
    <2>2. GraphOK(nodes', edges)
      BY <1>12, <1>15 DEF SessionInv, LiveOK, GraphOK
    <2>. QED  BY <1>1, <2>1, <2>2 DEF SessionInv, LiveOK
  <1>17. /\ loadedNodes' \in Seq(1 .. MaxNodes)
         /\ \A i \in DOMAIN loadedNodes' : loadedNodes'[i] \in DOMAIN nodes'
    <2>1. loadedNodes \in Seq(1 .. MaxNodes) /\ \A i \in DOMAIN loadedNodes : loadedNodes[i] \in DOMAIN nodes
      BY <1>2 DEF SessionInv, StreamOK
    <2>. QED  BY <1>1, <1>13, <1>15, <2>1
  <1>18. StreamOK'
    BY <1>1, <1>2, <1>3, <1>5, <1>6, <1>14, <1>17 DEF SessionInv, StreamOK, Importing, Exporting, lines
  <1>. QED  BY <1>1, <1>16, <1>18 DEF SessionInv, FilesOK

LEMMA ImportNodesEndKeeps ==
    ASSUME SessionInv, ImportNodesEnd
    PROVE  LiveOK' /\ FilesOK' /\ StreamOK'
  <1>1. /\ call.at = "importNodes" /\ call' = [call EXCEPT !.at = "importEdges"]
        /\ UNCHANGED <<nodes, edges, nextNodeID, nextEdgeID, files, loadedNodes>>
    BY DEF ImportNodesEnd, Goto, graphVars
  <1>2. call'.at = "importEdges" /\ "at" \in DOMAIN call' /\ Importing
    BY <1>1 DEF SessionInv, StreamOK, Importing
  <1>3. LiveOK' /\ FilesOK'
    BY <1>1 DEF SessionInv, LiveOK, FilesOK
  <1>4. CASE AtEnd
    <2>1. csvFile' = csvFile
      BY <1>4 DEF ImportNodesEnd
    <2>. QED  BY <1>1, <1>2, <1>3, <2>1 DEF SessionInv, StreamOK, Importing, Exporting
  <1>5. CASE ~AtEnd
    <2>1. NextLine
      BY <1>5 DEF ImportNodesEnd
    <2>2. /\ csvFile' \in [open : BOOLEAN, path : Paths \cup {NoEngine}, next : Int, good : BOOLEAN]
          /\ csvFile'.open = csvFile.open /\ csvFile'.path = csvFile.path
          /\ csvFile'.good = csvFile.good /\ csvFile'.next = csvFile.next + 1 /\ csvFile'.next \in Nat
      BY <2>1, NextLineMoves
    <2>3. /\ csvFile.good /\ files[csvFile.path] # NoFile
          /\ RoomForEdges(Lines(files[csvFile.path]), csvFile.next + 1, nextEdgeID)
      BY <1>2, <1>5, NextLineRead
    <2>. QED  BY <1>1, <1>2, <1>3, <2>2, <2>3 DEF SessionInv, StreamOK, Importing, Exporting
  <1>. QED  BY <1>4, <1>5

LEMMA ImportEdgeKeeps ==
    ASSUME SessionInv, ImportEdge
    PROVE  LiveOK' /\ FilesOK' /\ StreamOK'
  <1>. DEFINE from == Endpoint(Line.from)
              to == Endpoint(Line.to)
  <1>1. /\ call.at = "importEdges" /\ ~AtEnd /\ IsEdgeLine(Line) /\ NextLine
        /\ {Line.from, Line.to} \subseteq 0 .. Len(loadedNodes) - 1
        /\ edges' = Put(edges, nextEdgeID, [from |-> from, to |-> to])
        /\ nextEdgeID' = nextEdgeID + 1
        /\ UNCHANGED <<nodes, nextNodeID, files, graphFilePath, loadedNodes, call, waiting>>
    BY DEF ImportEdge
  <1>2. Importing /\ Importing'
    BY <1>1 DEF Importing
  <1>3. /\ csvFile.good /\ files[csvFile.path] # NoFile /\ nextEdgeID <= MaxEdges
        /\ RoomForEdges(Lines(files[csvFile.path]), csvFile.next + 1, nextEdgeID + 1)
    BY <1>1, <1>2, NextLineRead
  <1>4. /\ csvFile' \in [open : BOOLEAN, path : Paths \cup {NoEngine}, next : Int, good : BOOLEAN]
        /\ csvFile'.open = csvFile.open /\ csvFile'.path = csvFile.path
        /\ csvFile'.good = csvFile.good /\ csvFile'.next = csvFile.next + 1 /\ csvFile'.next \in Nat
    BY <1>1, NextLineMoves
  <1>5. from \in DOMAIN nodes /\ to \in DOMAIN nodes
    <2>1. loadedNodes \in Seq(1 .. MaxNodes) /\ \A i \in DOMAIN loadedNodes : loadedNodes[i] \in DOMAIN nodes
      BY <1>2 DEF SessionInv, StreamOK
    <2>2. Line.from + 1 \in DOMAIN loadedNodes /\ Line.to + 1 \in DOMAIN loadedNodes
      BY <1>1, <2>1
    <2>. QED  BY <2>1, <2>2 DEF Endpoint
  <1>. HIDE DEF from, to
  <1>6. /\ DOMAIN edges' = DOMAIN edges \cup {nextEdgeID}
        /\ edges'[nextEdgeID].from = from /\ edges'[nextEdgeID].to = to
        /\ \A e \in DOMAIN edges : e # nextEdgeID => edges'[e] = edges[e]
    BY <1>1 DEF Put
  <1>7. LiveOK'
    <2>1. nextEdgeID \in Nat /\ nextEdgeID >= 1 /\ MaxEdges \in Nat
      BY SessionAssumption DEF SessionInv, LiveOK
    <2>2. DOMAIN edges' \subseteq 1 .. nextEdgeID' - 1 /\ nextEdgeID' \in 1 .. MaxEdges + 1
      BY <1>1, <1>3, <1>6, <2>1 DEF SessionInv, LiveOK
    <2>3. GraphOK(nodes, edges')
      BY <1>5, <1>6 DEF SessionInv, LiveOK, GraphOK
    <2>. QED  BY <1>1, <2>2, <2>3 DEF SessionInv, LiveOK
  <1>8. StreamOK'
    BY <1>1, <1>2, <1>3, <1>4 DEF SessionInv, StreamOK, Importing, Exporting
  <1>. QED  BY <1>1, <1>7, <1>8 DEF SessionInv, FilesOK

LEMMA ImportBlankLineKeeps ==
    ASSUME SessionInv, ImportBlankLine
    PROVE  LiveOK' /\ FilesOK' /\ StreamOK'
  <1>1. /\ call.at = "importEdges" /\ ~AtEnd /\ NextLine
        /\ UNCHANGED <<nodes, edges, nextNodeID, nextEdgeID, files, loadedNodes, call>>
    BY DEF ImportBlankLine, graphVars
  <1>2. Importing /\ Importing'
    BY <1>1 DEF Importing
  <1>3. /\ csvFile.good /\ files[csvFile.path] # NoFile
        /\ RoomForEdges(Lines(files[csvFile.path]), csvFile.next + 1, nextEdgeID)
    BY <1>1, <1>2, NextLineRead
  <1>4. /\ csvFile' \in [open : BOOLEAN, path : Paths \cup {NoEngine}, next : Int, good : BOOLEAN]
        /\ csvFile'.open = csvFile.open /\ csvFile'.path = csvFile.path
        /\ csvFile'.good = csvFile.good /\ csvFile'.next = csvFile.next + 1 /\ csvFile'.next \in Nat
    BY <1>1, NextLineMoves
  <1>5. LiveOK' /\ FilesOK'
    BY <1>1 DEF SessionInv, LiveOK, FilesOK
  <1>. QED  BY <1>1, <1>2, <1>3, <1>4, <1>5 DEF SessionInv, StreamOK, Importing, Exporting

\* A call that returns leaves nothing to show of its stream but where it is open.
LEMMA ReturnKeeps ==
    ASSUME SessionInv, UNCHANGED <<nodes, edges, nextNodeID, nextEdgeID>>, FilesOK',
           call'.at = "returned", "at" \in DOMAIN call',
           csvFile' \in {csvFile, LeftOpen, Closed},
           loadedNodes' \in {loadedNodes, << >>}
    PROVE  LiveOK' /\ FilesOK' /\ StreamOK'
  <1>1. LiveOK'
    BY DEF SessionInv, LiveOK
  <1>2. /\ csvFile' \in [open : BOOLEAN, path : Paths \cup {NoEngine}, next : Nat, good : BOOLEAN]
        /\ csvFile'.open => csvFile'.path \in Paths
    <2>1. CASE csvFile' = csvFile
      BY <2>1 DEF SessionInv, StreamOK
    <2>2. CASE csvFile' = LeftOpen
      BY <2>2 DEF SessionInv, StreamOK, LeftOpen
    <2>3. CASE csvFile' = Closed
      BY <2>3 DEF Closed
    <2>. QED  BY <2>1, <2>2, <2>3
  <1>3. << >> \in Seq(1 .. MaxNodes)
    OBVIOUS
  <1>4. loadedNodes' \in Seq(1 .. MaxNodes)
    BY <1>3 DEF SessionInv, StreamOK
  <1>. QED  BY <1>1, <1>2, <1>4 DEF StreamOK, Importing, Exporting

LEMMA ImportReturns ==
    ASSUME SessionInv, ImportBadLine \/ ImportEnd
    PROVE  LiveOK' /\ FilesOK' /\ StreamOK'
  <1>1. /\ UNCHANGED <<nodes, edges, nextNodeID, nextEdgeID, files>>
        /\ csvFile' \in {LeftOpen, Closed} /\ loadedNodes' = << >>
        /\ \E reply : Return(reply)
    BY DEF ImportBadLine, ImportEnd, graphVars
  <1>2. call'.at = "returned" /\ "at" \in DOMAIN call'
    BY <1>1 DEF Return
  <1>3. FilesOK'
    BY <1>1 DEF SessionInv, FilesOK
  <1>. QED  BY <1>1, <1>2, <1>3, ReturnKeeps

-----------------------------------------------------------------------------
\* EXPORT CSV

\* Lines may follow well-written ones if there is a blank line by then, or no edge.
LEMMA WrittenOn ==
    ASSUME NEW old, WellWritten(old), NEW lines \in Seq(CsvLine),
           \/ \E i \in DOMAIN old : old[i] = Blank
           \/ \A i \in DOMAIN lines : ~IsEdgeLine(lines[i])
    PROVE  WellWritten(old \o lines)
  <1>. DEFINE b == Len(NodeBlock(old))
              all == old \o lines
              m == Len(old)
  <1>1. old \in Seq(CsvLine) /\ \A i \in DOMAIN NodeBlock(old) : ~IsEdgeLine(old[i])
    BY DEF WellWritten
  <1>2. /\ m \in Nat /\ DOMAIN old = 1 .. m /\ DOMAIN lines = 1 .. Len(lines) /\ Len(lines) \in Nat
        /\ all \in Seq(CsvLine) /\ DOMAIN all = 1 .. m + Len(lines)
        /\ \A i \in 1 .. m : all[i] = old[i]
        /\ \A i \in m + 1 .. m + Len(lines) : all[i] = lines[i - m] /\ i - m \in DOMAIN lines
    BY <1>1
  <1>3. /\ b \in 0 .. m /\ DOMAIN NodeBlock(old) = 1 .. b
        /\ \A i \in 1 .. b : NodeBlock(old)[i] = old[i]
        /\ b < m => old[b + 1] = Blank
    BY <1>1, FirstBlank
  <1>. HIDE DEF b, all, m
  <1>4. ASSUME NEW i \in DOMAIN all, IsEdgeLine(all[i])
        PROVE  \E j \in 1 .. i - 1 : all[j] = Blank
    <2>1. CASE i \in 1 .. m
      <3>1. i \notin 1 .. b
        BY <1>1, <1>2, <1>3, <1>4, <2>1
      <3>2. b + 1 \in 1 .. m /\ old[b + 1] = Blank
        BY <1>2, <1>3, <2>1, <3>1
      <3>3. i # b + 1
        BY <1>2, <1>4, <2>1, <3>2, LineKinds
      <3>4. b + 1 \in 1 .. i - 1
        BY <1>2, <1>3, <2>1, <3>1, <3>3
      <3>. QED  BY <1>2, <3>2, <3>4
    <2>2. CASE i \in m + 1 .. m + Len(lines)
      <3>1. ~(\A k \in DOMAIN lines : ~IsEdgeLine(lines[k]))
        BY <1>2, <1>4, <2>2
      <3>2. PICK j \in DOMAIN old : old[j] = Blank
        BY <3>1
      <3>3. j \in 1 .. i - 1 /\ all[j] = Blank
        BY <1>2, <2>2, <3>2
      <3>. QED  BY <3>3
    <2>. QED  BY <1>2, <2>1, <2>2
  <1>5. WellWritten(all)
    BY <1>2, <1>4, WrittenInOrder
  <1>. QED  BY <1>5 DEF all

LEMMA ExportStarts ==
    ASSUME SessionInv, NEW path \in Paths, exportCSV(path)
    PROVE  LiveOK' /\ FilesOK' /\ StreamOK'
  <1>1. call.at = "returned" /\ UNCHANGED <<nodes, edges, nextNodeID, nextEdgeID, loadedNodes>>
    BY DEF exportCSV, Idle, graphVars
  <1>2. LiveOK'
    BY <1>1 DEF SessionInv, LiveOK
  <1>3. CASE csvFile' = csvFile /\ files' = files /\ Return("failed")
    <2>1. call'.at = "returned" /\ "at" \in DOMAIN call' /\ FilesOK'
      BY <1>3 DEF Return, SessionInv, FilesOK
    <2>. QED  BY <1>1, <1>3, <2>1, ReturnKeeps
  <1>4. CASE csvFile.open /\ csvFile' = LeftOpen /\ files' = files /\ Called("exportNodes", path)
    <2>1. call'.at = "exportNodes" /\ "at" \in DOMAIN call' /\ FilesOK'
      BY <1>4 DEF Called, SessionInv, FilesOK
    <2>2. csvFile' = [csvFile EXCEPT !.next = 0, !.good = FALSE]
      BY <1>4 DEF LeftOpen
    <2>3. csvFile \in [open : BOOLEAN, path : Paths \cup {NoEngine}, next : Nat, good : BOOLEAN]
      BY DEF SessionInv, StreamOK
    <2>4. /\ csvFile' \in [open : BOOLEAN, path : Paths \cup {NoEngine}, next : Nat, good : BOOLEAN]
          /\ csvFile'.open = csvFile.open /\ csvFile'.path = csvFile.path /\ ~csvFile'.good
      BY <2>2, <2>3
    <2>. QED  BY <1>1, <1>2, <1>4, <2>1, <2>4 DEF SessionInv, StreamOK, Importing, Exporting
  <1>5. CASE /\ ~csvFile.open /\ csvFile' = Open(path)
             /\ files' = [files EXCEPT ![path] = Csv(<< >>)] /\ Called("exportNodes", path)
    <2>1. call'.at = "exportNodes" /\ "at" \in DOMAIN call'
      BY <1>5 DEF Called
    <2>2. csvFile' = [open |-> TRUE, path |-> path, next |-> 1, good |-> TRUE]
      BY <1>5 DEF Open
    <2>3. << >> \in Seq(CsvLine) /\ DOMAIN << >> = {}
      OBVIOUS
    <2>4. WellWritten(<< >>)
      BY <2>3, WrittenInOrder
    <2>5. CsvFile(Csv(<< >>)) /\ Csv(<< >>).lines = << >>
      BY <2>4 DEF CsvFile, Csv
    <2>6. DOMAIN files' = Paths /\ \A p \in Paths : files'[p] = IF p = path THEN Csv(<< >>) ELSE files[p]
      BY <1>5 DEF SessionInv, FilesOK
    <2>7. FilesOK'
      BY <2>5, <2>6 DEF SessionInv, FilesOK
    <2>. QED  BY <1>1, <1>2, <2>1, <2>2, <2>5, <2>6, <2>7 DEF SessionInv, StreamOK, Importing, Exporting
  <1>6. \/ csvFile' = csvFile /\ files' = files /\ Return("failed")
        \/ csvFile.open /\ csvFile' = LeftOpen /\ files' = files /\ Called("exportNodes", path)
        \/ /\ ~csvFile.open /\ csvFile' = Open(path)
           /\ files' = [files EXCEPT ![path] = Csv(<< >>)] /\ Called("exportNodes", path)
    BY DEF exportCSV, Reopened
  <1>. QED  BY <1>3, <1>4, <1>5, <1>6

LEMMA WrittenCut ==
    ASSUME NEW lines, WellWritten(lines), NEW k \in 0 .. Len(lines) - 1
    PROVE  WellWritten(SubSeq(lines, 1, k))
  <1>. DEFINE b == Len(NodeBlock(lines))
              some == SubSeq(lines, 1, k)
  <1>1. lines \in Seq(CsvLine) /\ \A i \in DOMAIN NodeBlock(lines) : ~IsEdgeLine(lines[i])
    BY DEF WellWritten
  <1>2. /\ b \in 0 .. Len(lines) /\ DOMAIN NodeBlock(lines) = 1 .. b
        /\ b < Len(lines) => lines[b + 1] = Blank
    BY <1>1, FirstBlank
  <1>3. /\ some \in Seq(CsvLine) /\ DOMAIN some = 1 .. k /\ Len(lines) \in Nat /\ k \in Nat
        /\ \A i \in 1 .. k : some[i] = lines[i]
    BY <1>1
  <1>. HIDE DEF some, b
  <1>4. ASSUME NEW i \in 1 .. k, IsEdgeLine(some[i])
        PROVE  \E j \in 1 .. i - 1 : some[j] = Blank
    <2>1. IsEdgeLine(lines[i]) /\ i \notin 1 .. b
      BY <1>1, <1>2, <1>3, <1>4
    <2>2. b + 1 \in 1 .. i /\ lines[b + 1] = Blank
      BY <1>2, <1>3, <2>1
    <2>3. b + 1 # i
      BY <2>1, <2>2, LineKinds
    <2>4. b + 1 \in 1 .. i - 1 /\ b + 1 \in 1 .. k
      BY <1>2, <1>3, <2>2, <2>3
    <2>. QED  BY <1>3, <2>2, <2>4
  <1>5. WellWritten(some)
    BY <1>3, <1>4, WrittenInOrder
  <1>. QED  BY <1>5 DEF some

\* The text beneath a stream gives way to another that is well written.
LEMMA TextReplaced ==
    ASSUME SessionInv, Exporting, csvFile.good, NEW text, WellWritten(text),
           files' = [files EXCEPT ![csvFile.path].lines = text]
    PROVE  FilesOK' /\ files'[csvFile.path] = Csv(text)
  <1>. DEFINE path == csvFile.path
              old == files[path].lines
  <1>1. path \in Paths /\ DOMAIN files = Paths /\ CsvFile(files[path])
    BY DEF SessionInv, StreamOK, FilesOK, Exporting
  <1>2. files[path] = Csv(old)
    BY <1>1 DEF CsvFile
  <1>3. DOMAIN files' = Paths /\ files'[path] = [files[path] EXCEPT !.lines = text]
        /\ \A p \in Paths : p # path => files'[p] = files[p]
    BY <1>1
  <1>4. files'[path] = Csv(text)
    <2>. HIDE DEF old
    <2>1. [Csv(old) EXCEPT !.lines = text] = Csv(text)
      BY DEF Csv
    <2>2. files'[path] = [Csv(old) EXCEPT !.lines = text]
      BY <1>2, <1>3, Zenon
    <2>. QED  BY <2>1, <2>2
  <1>5. CsvFile(Csv(text))
    BY DEF CsvFile, Csv
  <1>. QED  BY <1>3, <1>4, <1>5 DEF SessionInv, FilesOK

LEMMA EndLost ==
    ASSUME SessionInv, Exporting, csvFile.good, NEW text, WellWritten(text), LosesEndOf(text)
    PROVE  FilesOK'
  <1>1. PICK k \in 0 .. Len(text) - 1 :
          files' = [files EXCEPT ![csvFile.path].lines = SubSeq(text, 1, k)]
    BY DEF LosesEndOf
  <1>2. WellWritten(SubSeq(text, 1, k))
    BY WrittenCut
  <1>. QED  BY <1>1, <1>2, TextReplaced

\* However much of the lines gets out, the file stays well written.
LEMMA WriteKeeps ==
    ASSUME SessionInv, Exporting, NEW lines \in Seq(CsvLine), NEW next, Write(lines, next),
           UNCHANGED <<nodes, edges, nextNodeID, nextEdgeID, loadedNodes>>,
           \/ csvFile.good => \E i \in DOMAIN files[csvFile.path].lines : files[csvFile.path].lines[i] = Blank
           \/ \A i \in DOMAIN lines : ~IsEdgeLine(lines[i])
    PROVE  /\ FilesOK'
           /\ \/ LiveOK' /\ StreamOK'
              \/ /\ csvFile' = csvFile /\ csvFile.good /\ Goto(next)
                 /\ CsvFile(files'[csvFile.path])
                 /\ files'[csvFile.path].lines = files[csvFile.path].lines \o lines
  <1>. DEFINE path == csvFile.path
              old == files[path].lines
              all == old \o lines
  <1>1. csvFile.good => WellWritten(all)
    <2>1. csvFile.good => WellWritten(old)
      BY DEF SessionInv, StreamOK, CsvFile
    <2>. QED  BY <2>1, WrittenOn
  <1>. HIDE DEF all
  <1>2. \A reply : Return(reply) => call'.at = "returned" /\ "at" \in DOMAIN call'
    BY DEF Return
  <1>3. CASE /\ csvFile.good /\ csvFile' = csvFile /\ Goto(next)
             /\ files' = [files EXCEPT ![path].lines = all]
    <2>1. FilesOK' /\ files'[path] = Csv(all)
      BY <1>1, <1>3, TextReplaced
    <2>2. CsvFile(files'[path]) /\ files'[path].lines = all
      BY <1>1, <1>3, <2>1 DEF CsvFile, Csv
    <2>. QED  BY <1>3, <2>1, <2>2 DEF all
  <1>4. CASE csvFile.good /\ csvFile' = LeftOpen /\ Return("failed") /\ LosesEndOf(all)
    <2>1. FilesOK'
      BY <1>1, <1>4, EndLost
    <2>. QED  BY <1>2, <1>4, <2>1, ReturnKeeps
  <1>5. CASE csvFile' = csvFile /\ files' = files /\ Return("failed")
    <2>1. FilesOK'
      BY <1>5 DEF SessionInv, FilesOK
    <2>. QED  BY <1>2, <1>5, <2>1, ReturnKeeps
  <1>6. \/ csvFile.good /\ files' = [files EXCEPT ![path].lines = all] /\ csvFile' = csvFile /\ Goto(next)
        \/ csvFile.good /\ csvFile' = LeftOpen /\ Return("failed") /\ LosesEndOf(all)
        \/ csvFile' = csvFile /\ files' = files /\ Return("failed")
    BY DEF Write, all
  <1>. QED  BY <1>3, <1>4, <1>5, <1>6

\* What an export writes.
LEMMA NodeLinesWritten ==
    ASSUME SessionInv
    PROVE  LET lines == Append(NodeLines, Blank)
           IN  /\ lines \in Seq(CsvLine) /\ \A i \in DOMAIN lines : ~IsEdgeLine(lines[i])
               /\ \E i \in DOMAIN lines : lines[i] = Blank
  <1>. DEFINE rows == InOrder(nodes)
              k == Cardinality(DOMAIN nodes)
              lines == Append(NodeLines, Blank)
  <1>1. DOMAIN nodes \subseteq 1 .. MaxNodes /\ MaxNodes \in Nat /\ \A n \in DOMAIN nodes : nodes[n] \in ReadRows
    BY SessionAssumption DEF SessionInv, LiveOK, GraphOK
  <1>2. /\ k \in Nat /\ DOMAIN rows = 1 .. k
        /\ \A i \in DOMAIN rows : \E x \in DOMAIN nodes : rows[i] = nodes[x]
    BY <1>1, InOrderTakes
  <1>3. \A i \in 1 .. k : rows[i] \in ReadRows
    BY <1>1, <1>2
  <1>4. NodeLines = [i \in 1 .. k |-> NodeLine(rows[i])]
    BY <1>2 DEF NodeLines
  <1>. HIDE DEF rows, k
  <1>5. NodeLines \in Seq(CsvLine) /\ \A i \in DOMAIN NodeLines : ~IsEdgeLine(NodeLines[i])
    BY <1>2, <1>3, <1>4, LineKinds
  <1>6. Blank \in CsvLine /\ ~IsEdgeLine(Blank)
    BY LineKinds
  <1>7. /\ lines \in Seq(CsvLine) /\ Len(lines) = Len(NodeLines) + 1
        /\ \A i \in 1 .. Len(NodeLines) : lines[i] = NodeLines[i]
        /\ lines[Len(NodeLines) + 1] = Blank
    BY <1>5, <1>6
  <1>8. Len(NodeLines) \in Nat /\ DOMAIN NodeLines = 1 .. Len(NodeLines) /\ DOMAIN lines = 1 .. Len(lines)
    BY <1>5, <1>7
  <1>. HIDE DEF lines
  <1>9. \A i \in DOMAIN lines : ~IsEdgeLine(lines[i])
    BY <1>5, <1>6, <1>7, <1>8
  <1>10. Len(NodeLines) + 1 \in DOMAIN lines
    BY <1>7, <1>8
  <1>. QED  BY <1>7, <1>9, <1>10 DEF lines

LEMMA EdgeLinesWritten ==
    ASSUME SessionInv
    PROVE  EdgeLines \in Seq(CsvLine)
  <1>. DEFINE rows == InOrder(edges)
              k == Cardinality(DOMAIN edges)
              index(n) == Position(DOMAIN nodes, n) - 1
  <1>1. /\ DOMAIN nodes \subseteq 1 .. MaxNodes /\ MaxNodes \in Nat
        /\ DOMAIN edges \subseteq 1 .. MaxEdges /\ MaxEdges \in Nat
        /\ \A e \in DOMAIN edges : {edges[e].from, edges[e].to} \subseteq DOMAIN nodes
    BY SessionAssumption DEF SessionInv, LiveOK, GraphOK
  <1>2. \A n \in DOMAIN nodes : index(n) \in Nat
    BY <1>1, InOrderTakes
  <1>3. /\ k \in Nat /\ DOMAIN rows = 1 .. k
        /\ \A i \in DOMAIN rows : \E x \in DOMAIN edges : rows[i] = edges[x]
    BY <1>1, InOrderTakes
  <1>4. EdgeLines = [j \in 1 .. k |-> EdgeLine(index(rows[j].from), index(rows[j].to))]
    BY <1>3 DEF EdgeLines
  <1>. HIDE DEF rows, k, index
  <1>5. \A j \in 1 .. k : index(rows[j].from) \in Nat /\ index(rows[j].to) \in Nat
    BY <1>1, <1>2, <1>3
  <1>. QED  BY <1>3, <1>4, <1>5, LineKinds

LEMMA ExportNodesKeeps ==
    ASSUME SessionInv, ExportNodes
    PROVE  LiveOK' /\ FilesOK' /\ StreamOK'
  <1>. DEFINE lines == Append(NodeLines, Blank)
  <1>1. /\ call.at = "exportNodes" /\ Write(lines, "exportEdges")
        /\ UNCHANGED <<nodes, edges, nextNodeID, nextEdgeID, loadedNodes>>
    BY DEF ExportNodes, graphVars
  <1>2. /\ lines \in Seq(CsvLine) /\ \A i \in DOMAIN lines : ~IsEdgeLine(lines[i])
        /\ \E i \in DOMAIN lines : lines[i] = Blank
    BY NodeLinesWritten
  <1>3. << >> \o lines = lines
    BY <1>2
  <1>. HIDE DEF lines
  <1>4. FilesOK' /\ \/ LiveOK' /\ StreamOK'
                    \/ /\ csvFile' = csvFile /\ csvFile.good /\ Goto("exportEdges")
                       /\ CsvFile(files'[csvFile.path])
                       /\ files'[csvFile.path].lines = files[csvFile.path].lines \o lines
    BY <1>1, <1>2, WriteKeeps DEF Exporting
  <1>5. CASE /\ csvFile' = csvFile /\ csvFile.good /\ Goto("exportEdges")
             /\ CsvFile(files'[csvFile.path])
             /\ files'[csvFile.path].lines = files[csvFile.path].lines \o lines
    <2>1. files'[csvFile.path].lines = lines
      BY <1>1, <1>3, <1>5 DEF SessionInv, StreamOK
    <2>2. call'.at = "exportEdges" /\ "at" \in DOMAIN call'
      BY <1>5 DEF Goto, SessionInv, StreamOK
    <2>3. LiveOK'
      BY <1>1 DEF SessionInv, LiveOK
    <2>4. StreamOK'
      BY <1>1, <1>2, <1>5, <2>1, <2>2 DEF SessionInv, StreamOK, Importing, Exporting
    <2>. QED  BY <1>4, <2>3, <2>4
  <1>. QED  BY <1>4, <1>5

LEMMA ExportEdgesKeeps ==
    ASSUME SessionInv, ExportEdges
    PROVE  LiveOK' /\ FilesOK' /\ StreamOK'
  <1>1. /\ call.at = "exportEdges" /\ Write(EdgeLines, "close")
        /\ UNCHANGED <<nodes, edges, nextNodeID, nextEdgeID, loadedNodes>>
    BY DEF ExportEdges, graphVars
  <1>2. EdgeLines \in Seq(CsvLine) /\ Exporting
    BY <1>1, EdgeLinesWritten DEF Exporting
  <1>3. csvFile.good => \E i \in DOMAIN files[csvFile.path].lines : files[csvFile.path].lines[i] = Blank
    BY <1>1 DEF SessionInv, StreamOK
  <1>4. FilesOK' /\ \/ LiveOK' /\ StreamOK'
                    \/ /\ csvFile' = csvFile /\ csvFile.good /\ Goto("close")
                       /\ CsvFile(files'[csvFile.path])
    BY <1>1, <1>2, <1>3, WriteKeeps
  <1>5. CASE /\ csvFile' = csvFile /\ csvFile.good /\ Goto("close")
             /\ CsvFile(files'[csvFile.path])
    <2>1. call'.at = "close" /\ "at" \in DOMAIN call'
      BY <1>5 DEF Goto, SessionInv, StreamOK
    <2>2. LiveOK'
      BY <1>1 DEF SessionInv, LiveOK
    <2>3. StreamOK'
      BY <1>1, <1>5, <2>1 DEF SessionInv, StreamOK, Importing, Exporting
    <2>. QED  BY <1>4, <2>2, <2>3
  <1>. QED  BY <1>4, <1>5

\* What an export has written so far, and what is left of it.
LEMMA WrittenLost ==
    ASSUME SessionInv, call.at \in {"exportEdges", "close"}, LosesEndOf(files[csvFile.path].lines)
    PROVE  FilesOK'
  <1>. DEFINE text == files[csvFile.path].lines
  <1>1. Exporting /\ csvFile.good
    BY DEF SessionInv, StreamOK, Exporting
  <1>2. WellWritten(text)
    BY <1>1 DEF SessionInv, StreamOK, CsvFile
  <1>. HIDE DEF text
  <1>. QED  BY <1>1, <1>2, EndLost DEF text

LEMMA ExportEndKeeps ==
    ASSUME SessionInv, ExportEnd
    PROVE  LiveOK' /\ FilesOK' /\ StreamOK'
  <1>1. /\ UNCHANGED <<nodes, edges, nextNodeID, nextEdgeID, loadedNodes>>
        /\ csvFile' = Closed /\ call'.at = "returned" /\ "at" \in DOMAIN call'
        /\ call.at = "close" /\ (files' = files \/ LosesEndOf(files[csvFile.path].lines))
    BY DEF ExportEnd, Return, graphVars
  <1>2. FilesOK'
    <2>1. CASE files' = files
      BY <2>1 DEF SessionInv, FilesOK
    <2>. QED  BY <1>1, <2>1, WrittenLost
  <1>. QED  BY <1>1, <1>2, ReturnKeeps

-----------------------------------------------------------------------------
\* FLUSH, LOAD and everything else

\* Nothing of the stream moves while no call is under way.
LEMMA IdleKeeps ==
    ASSUME SessionInv, Idle, UNCHANGED <<csvFile, loadedNodes, call>>
    PROVE  StreamOK'
  BY DEF SessionInv, StreamOK, Idle, Importing, Exporting

LEMMA SaveKeeps ==
    ASSUME SessionInv, Idle, NEW path \in Paths, SaveTo(path)
    PROVE  LiveOK' /\ FilesOK' /\ StreamOK'
  <1>. DEFINE file == Binary(nodes, edges)
  <1>1. UNCHANGED <<nodes, edges, nextNodeID, nextEdgeID, csvFile, loadedNodes, call>>
    BY DEF SaveTo, graphVars
  <1>2. LiveOK' /\ StreamOK'
    BY <1>1, IdleKeeps DEF SessionInv, LiveOK
  <1>3. file = [format |-> "binary", nodes |-> nodes, edges |-> edges]
    BY DEF Binary
  <1>4. DOMAIN nodes \subseteq 1 .. MaxNodes /\ DOMAIN edges \subseteq 1 .. MaxEdges /\ GraphOK(nodes, edges)
    BY SessionAssumption DEF SessionInv, LiveOK
  <1>5. BinaryFile(file)
    BY <1>3, <1>4 DEF BinaryFile
  <1>6. files' = files \/ files' = [files EXCEPT ![path] = file]
    BY DEF SaveTo
  <1>. HIDE DEF file
  <1>7. FilesOK'
    BY <1>5, <1>6 DEF SessionInv, FilesOK
  <1>. QED  BY <1>2, <1>7

LEMMA LoadKeeps ==
    ASSUME SessionInv, Idle, NEW path \in Paths, LoadOf(path)
    PROVE  LiveOK' /\ FilesOK' /\ StreamOK'
  <1>. DEFINE f == files[path]
  <1>1. UNCHANGED <<files, csvFile, loadedNodes, call>>
    BY DEF LoadOf
  <1>2. FilesOK' /\ StreamOK'
    BY <1>1, IdleKeeps DEF SessionInv, FilesOK
  <1>3. CASE ~(f # NoFile /\ f.format = "binary")
    <2>1. UNCHANGED <<nodes, edges, nextNodeID, nextEdgeID>>
      BY <1>3 DEF LoadOf, graphVars
    <2>. QED  BY <1>2, <2>1 DEF SessionInv, LiveOK
  <1>4. CASE f # NoFile /\ f.format = "binary"
    <2>. DEFINE index(n) == Position(DOMAIN f.nodes, n)
                rows == InOrder(f.edges)
                p == Cardinality(DOMAIN f.nodes)
                q == Cardinality(DOMAIN f.edges)
    <2>1. BinaryFile(f)
      BY <1>4 DEF SessionInv, FilesOK, CsvFile
    <2>2. /\ nodes' = InOrder(f.nodes)
          /\ edges' = [j \in DOMAIN rows |-> [from |-> index(rows[j].from), to |-> index(rows[j].to)]]
          /\ nextNodeID' = p + 1 /\ nextEdgeID' = q + 1
      BY <1>4 DEF LoadOf, Renumbered
    <2>. HIDE DEF f
    <2>3. /\ DOMAIN f.nodes \subseteq 1 .. MaxNodes /\ DOMAIN f.edges \subseteq 1 .. MaxEdges
          /\ MaxNodes \in Nat /\ MaxEdges \in Nat
          /\ \A n \in DOMAIN f.nodes : f.nodes[n] \in ReadRows
          /\ \A e \in DOMAIN f.edges : {f.edges[e].from, f.edges[e].to} \subseteq DOMAIN f.nodes
      BY <2>1, SessionAssumption DEF BinaryFile, GraphOK
    <2>4. /\ p \in 0 .. MaxNodes /\ DOMAIN InOrder(f.nodes) = 1 .. p
          /\ \A i \in 1 .. p : \E x \in DOMAIN f.nodes : InOrder(f.nodes)[i] = f.nodes[x]
          /\ \A x \in DOMAIN f.nodes : index(x) \in 1 .. p
      BY <2>3, InOrderTakes
    <2>5. /\ q \in 0 .. MaxEdges /\ DOMAIN rows = 1 .. q
          /\ \A j \in 1 .. q : \E x \in DOMAIN f.edges : rows[j] = f.edges[x]
      BY <2>3, InOrderTakes
    <2>. HIDE DEF index, rows, p, q
    <2>6. \A n \in DOMAIN nodes' : nodes'[n] \in ReadRows
      BY <2>2, <2>3, <2>4
    <2>7. \A j \in 1 .. q : rows[j].from \in DOMAIN f.nodes /\ rows[j].to \in DOMAIN f.nodes
      BY <2>3, <2>5
    <2>8. \A j \in DOMAIN edges' : {edges'[j].from, edges'[j].to} \subseteq DOMAIN nodes'
      BY <2>2, <2>4, <2>5, <2>7
    <2>9. /\ DOMAIN nodes' \subseteq 1 .. nextNodeID' - 1 /\ nextNodeID' \in 1 .. MaxNodes + 1
          /\ DOMAIN edges' \subseteq 1 .. nextEdgeID' - 1 /\ nextEdgeID' \in 1 .. MaxEdges + 1
      BY <2>2, <2>3, <2>4, <2>5
    <2>. QED  BY <1>2, <2>6, <2>8, <2>9 DEF LiveOK, GraphOK
  <1>. QED  BY <1>3, <1>4

LEMMA InsertNodeKeeps ==
    ASSUME SessionInv, NEW row \in Rows, InsertNode(row)
    PROVE  LiveOK' /\ FilesOK' /\ StreamOK'
  <1>1. /\ Idle /\ nextNodeID <= MaxNodes
        /\ nodes' = Put(nodes, nextNodeID, row) /\ nextNodeID' = nextNodeID + 1
        /\ UNCHANGED <<edges, nextEdgeID, files, csvFile, loadedNodes, call>>
    BY DEF InsertNode, engineVars
  <1>2. FilesOK' /\ StreamOK'
    BY <1>1, IdleKeeps DEF SessionInv, FilesOK
  <1>3. /\ DOMAIN nodes' = DOMAIN nodes \cup {nextNodeID} /\ nodes'[nextNodeID] = row
        /\ \A n \in DOMAIN nodes : n # nextNodeID => nodes'[n] = nodes[n]
    BY <1>1 DEF Put
  <1>4. nextNodeID \in 1 .. MaxNodes + 1 /\ MaxNodes \in Nat
    BY SessionAssumption DEF SessionInv, LiveOK
  <1>5. DOMAIN nodes' \subseteq 1 .. nextNodeID' - 1 /\ nextNodeID' \in 1 .. MaxNodes + 1
    BY <1>1, <1>3, <1>4 DEF SessionInv, LiveOK
  <1>6. GraphOK(nodes', edges)
    BY <1>3 DEF SessionInv, LiveOK, GraphOK, ReadRows
  <1>. QED  BY <1>1, <1>2, <1>5, <1>6 DEF SessionInv, LiveOK

LEMMA InsertEdgeKeeps ==
    ASSUME SessionInv, NEW m \in DOMAIN nodes, NEW n \in DOMAIN nodes, InsertEdge(m, n)
    PROVE  LiveOK' /\ FilesOK' /\ StreamOK'
  <1>1. /\ Idle /\ nextEdgeID <= MaxEdges
        /\ edges' = Put(edges, nextEdgeID, [from |-> m, to |-> n]) /\ nextEdgeID' = nextEdgeID + 1
        /\ UNCHANGED <<nodes, nextNodeID, files, csvFile, loadedNodes, call>>
    BY DEF InsertEdge, engineVars
  <1>2. FilesOK' /\ StreamOK'
    BY <1>1, IdleKeeps DEF SessionInv, FilesOK
  <1>3. /\ DOMAIN edges' = DOMAIN edges \cup {nextEdgeID}
        /\ edges'[nextEdgeID].from = m /\ edges'[nextEdgeID].to = n
        /\ \A e \in DOMAIN edges : e # nextEdgeID => edges'[e] = edges[e]
    BY <1>1 DEF Put
  <1>4. nextEdgeID \in 1 .. MaxEdges + 1 /\ MaxEdges \in Nat
    BY SessionAssumption DEF SessionInv, LiveOK
  <1>5. DOMAIN edges' \subseteq 1 .. nextEdgeID' - 1 /\ nextEdgeID' \in 1 .. MaxEdges + 1
    BY <1>1, <1>3, <1>4 DEF SessionInv, LiveOK
  <1>6. GraphOK(nodes, edges')
    BY <1>3 DEF SessionInv, LiveOK, GraphOK
  <1>. QED  BY <1>1, <1>2, <1>5, <1>6 DEF SessionInv, LiveOK

LEMMA DeleteNodeKeeps ==
    ASSUME SessionInv, NEW n \in DOMAIN nodes, DeleteNode(n)
    PROVE  LiveOK' /\ FilesOK' /\ StreamOK'
  <1>. DEFINE gone == {e \in DOMAIN edges : n \in {edges[e].from, edges[e].to}}
  <1>1. /\ Idle /\ nodes' = Without(nodes, {n}) /\ edges' = Without(edges, gone)
        /\ UNCHANGED <<nextNodeID, nextEdgeID, files, csvFile, loadedNodes, call>>
    BY DEF DeleteNode, engineVars
  <1>2. FilesOK' /\ StreamOK'
    BY <1>1, IdleKeeps DEF SessionInv, FilesOK
  <1>3. /\ DOMAIN nodes' = DOMAIN nodes \ {n} /\ \A m \in DOMAIN nodes' : nodes'[m] = nodes[m]
        /\ DOMAIN edges' = DOMAIN edges \ gone /\ \A e \in DOMAIN edges' : edges'[e] = edges[e]
    BY <1>1 DEF Without, Restrict
  <1>4. GraphOK(nodes', edges')
    BY <1>3 DEF SessionInv, LiveOK, GraphOK
  <1>. QED  BY <1>1, <1>2, <1>3, <1>4 DEF SessionInv, LiveOK

\* What a process starts with.
LEMMA StartOK ==
    /\ DOMAIN EmptyMap = {} /\ GraphOK(EmptyMap, EmptyMap)
    /\ Closed \in [open : BOOLEAN, path : Paths \cup {NoEngine}, next : Nat, good : BOOLEAN]
    /\ ~Closed.open /\ << >> \in Seq(1 .. MaxNodes)
  BY DEF EmptyMap, GraphOK, Closed

LEMMA RestartKeeps ==
    ASSUME SessionInv, Restart
    PROVE  LiveOK' /\ FilesOK' /\ StreamOK'
  <1>1. /\ nodes' = EmptyMap /\ edges' = EmptyMap /\ nextNodeID' = 1 /\ nextEdgeID' = 1
        /\ csvFile' = Closed /\ loadedNodes' = << >>
        /\ call'.at = "returned" /\ "at" \in DOMAIN call'
        /\ \/ files' = files
           \/ call.at \in {"exportEdges", "close"} /\ LosesEndOf(files[csvFile.path].lines)
    BY DEF Restart, Return
  <1>2. LiveOK'
    BY <1>1, StartOK, SessionAssumption DEF LiveOK
  <1>3. StreamOK'
    BY <1>1, StartOK DEF StreamOK, Importing, Exporting
  <1>4. FilesOK'
    <2>1. CASE files' = files
      BY <2>1 DEF SessionInv, FilesOK
    <2>. QED  BY <1>1, <2>1, WrittenLost
  <1>. QED  BY <1>2, <1>3, <1>4

LEMMA SessionInit == Init => SessionInv
  <1>. SUFFICES ASSUME Init
                PROVE  SessionInv
    OBVIOUS
  <1>1. /\ nodes = EmptyMap /\ edges = EmptyMap /\ nextNodeID = 1 /\ nextEdgeID = 1
        /\ csvFile = Closed /\ loadedNodes = << >>
        /\ call.at = "returned" /\ "at" \in DOMAIN call
        /\ files \in [Paths -> {NoFile} \cup {Csv(lines) : lines \in UserFiles}]
    BY DEF Init
  <1>2. EngineInv
    BY DEF Init, EngineInv, EngineStays
  <1>3. LiveOK
    BY <1>1, StartOK, SessionAssumption DEF LiveOK
  <1>4. FilesOK
    <2>1. \A lines \in UserFiles : CsvFile(Csv(lines))
      BY FilesAssumption DEF CsvFile, Csv
    <2>. QED  BY <1>1, <2>1 DEF FilesOK
  <1>5. StreamOK
    BY <1>1, StartOK DEF StreamOK, Importing, Exporting
  <1>. QED  BY <1>2, <1>3, <1>4, <1>5 DEF SessionInv

LEMMA SessionNext == SessionInv /\ [Next]_vars => SessionInv'
  <1>. SUFFICES ASSUME SessionInv, [Next]_vars
                PROVE  SessionInv'
    OBVIOUS
  <1>. DEFINE Kept == LiveOK' /\ FilesOK' /\ StreamOK'
  <1>1. EngineInv'
    BY EngineStep DEF SessionInv
  <1>2. ASSUME NEW path \in Paths, importCSV(path) \/ exportCSV(path)
        PROVE  Kept
    BY <1>2, ImportStarts, ExportStarts
  <1>3. ASSUME NEW path \in Paths, FlushTo(path) \/ LoadFrom(path)
        PROVE  Kept
    BY <1>3, SaveKeeps, LoadKeeps DEF FlushTo, LoadFrom
  <1>4. ASSUME ImportNode \/ ImportNodesEnd \/ ImportEdge \/ ImportBlankLine \/ ImportBadLine \/ ImportEnd
        PROVE  Kept
    BY <1>4, ImportNodeKeeps, ImportNodesEndKeeps, ImportEdgeKeeps, ImportBlankLineKeeps, ImportReturns
  <1>5. ASSUME ExportNodes \/ ExportEdges \/ ExportEnd
        PROVE  Kept
    BY <1>5, ExportNodesKeeps, ExportEdgesKeeps, ExportEndKeeps
  <1>6. ASSUME NEW c \in Clients, flush(c) \/ loadLive(c)
        PROVE  Kept
    <2>1. waiting[c] # "none" /\ Idle
      BY <1>6 DEF flush, loadLive
    <2>2. graphFilePath \in Paths
      BY <2>1 DEF SessionInv, EngineInv, EngineStays
    <2>. QED  BY <1>6, <2>1, <2>2, SaveKeeps, LoadKeeps DEF flush, loadLive
  <1>7. ASSUME UNCHANGED <<graphVars, files, engineVars, call>>
        PROVE  Kept
    <2>1. UNCHANGED <<nodes, edges, nextNodeID, nextEdgeID, files, csvFile, loadedNodes, call>>
      BY <1>7 DEF graphVars, engineVars
    <2>. QED  BY <2>1 DEF SessionInv, LiveOK, FilesOK, StreamOK, Importing, Exporting
  <1>8. ASSUME NEW c \in Clients, TestStorage(c, "flush") \/ TestStorage(c, "load")
        PROVE  Kept
    BY <1>7, <1>8 DEF TestStorage
  <1>9. ASSUME NEW row \in Rows, InsertNode(row)
        PROVE  Kept
    BY <1>9, InsertNodeKeeps
  <1>10. ASSUME NEW m \in DOMAIN nodes, NEW n \in DOMAIN nodes, InsertEdge(m, n) \/ DeleteNode(n)
         PROVE  Kept
    BY <1>10, InsertEdgeKeeps, DeleteNodeKeeps
  <1>11. ASSUME Restart
         PROVE  Kept
    BY <1>11, RestartKeeps
  <1>12. ASSUME UNCHANGED vars
         PROVE  Kept
    BY <1>7, <1>12 DEF vars
  <1>. HIDE DEF Kept
  <1>13. Kept
    BY <1>2, <1>3, <1>4, <1>5, <1>6, <1>8, <1>9, <1>10, <1>11, <1>12 DEF Next
  <1>. QED  BY <1>1, <1>13 DEF SessionInv, Kept

\* The invariant behind SessionTypeCorrect: files well written, the stream over a file of
\* its kind, and ids left for what an import has still to read.
THEOREM SessionInvariance == Spec => []SessionInv
  BY SessionInit, SessionNext, PTL DEF Spec

\* Through imports line by line, exports that fail in the middle, saves and loads,
\* the graph never has an edge without its endpoints or an id at or above the next one.
THEOREM SessionTypeCorrect == Spec => []TypeOK
  BY SessionInvariance, SessionTyped, PTL

-----------------------------------------------------------------------------
\* What CSV commands do to graph and file.  The invariant relates what a call has
\* done so far to what it found.

IsMap(f) == f = [x \in DOMAIN f |-> f[x]]

\* One map goes on from another with so many entries.
Continues(new, old, first, count) ==
    /\ first \in Nat \ {0} /\ count \in Nat
    /\ DOMAIN old \subseteq 1 .. first - 1 /\ IsMap(old)
    /\ DOMAIN new = DOMAIN old \cup (first .. first + count - 1)
    /\ \A x \in DOMAIN old : new[x] = old[x]

\* The first lines have become nodes ...
NodesRead(lines, rows, old, loaded, first) ==
    /\ Continues(rows, old, first, Len(loaded)) /\ Len(loaded) <= Len(NodeBlock(lines))
    /\ \A i \in 1 .. Len(loaded) :
         loaded[i] = first + i - 1 /\ rows[first + i - 1] = ReadRow(lines[i])

\* ... and the lines behind the block, up to the next one, edges between them.
PlacesRead(lines, next) == {i \in EdgePlaces(lines) : i < next}
EdgeRead(line, edge, loaded) ==
    /\ IsEdgeLine(line) /\ {line.from, line.to} \subseteq 0 .. Len(loaded) - 1
    /\ edge = [from |-> loaded[line.from + 1], to |-> loaded[line.to + 1]]
EdgesRead(lines, rows, old, loaded, next, first) ==
    LET places == PlacesRead(lines, next)
    IN  /\ Continues(rows, old, first, Cardinality(places))
        /\ \A i \in places : EdgeRead(lines[i], rows[first + Position(places, i) - 1], loaded)

ImportOK(lines, step, foundNodes, foundEdges, rows, links, loaded, next, nextNode, nextEdge) ==
    /\ NodesRead(lines, rows, foundNodes, loaded, nextNode - Len(loaded))
    /\ EdgesRead(lines, links, foundEdges, loaded, next,
                 nextEdge - Cardinality(PlacesRead(lines, next)))
    /\ step = "importNodes" => next = Len(loaded) + 1
    /\ step = "importEdges" => Len(loaded) = Len(NodeBlock(lines)) /\ next > Len(loaded)

CallRecord(c) ==
    c = [at |-> c.at, op |-> c.op, path |-> c.path, foundNodes |-> c.foundNodes,
         foundEdges |-> c.foundEdges, foundOpen |-> c.foundOpen]

CallOK ==
    /\ call.at # "returned" => CallRecord(call)
    /\ Importing => call.op = "importNodes"
    /\ Exporting => call.op = "exportNodes" /\ call.path \in Paths
    /\ Exporting /\ csvFile.good => csvFile.path = call.path
    /\ Importing /\ ~call.foundOpen =>
         /\ csvFile.good /\ csvFile.path = call.path
         /\ ImportOK(Lines(files[call.path]), call.at, call.foundNodes, call.foundEdges, nodes, edges,
                     loadedNodes, csvFile.next, nextNodeID, nextEdgeID)
    /\ call.at = "exportEdges" => files[call.path] = Csv(Append(NodeLines, Blank))
    /\ call.at = "close" => files[call.path] = Csv(Append(NodeLines, Blank) \o EdgeLines)

MapsOK == IsMap(nodes) /\ IsMap(edges)

ReadInv == SessionInv /\ MapsOK /\ CallOK

-----------------------------------------------------------------------------
\* Orders of ids and of lines

LEMMA TakenInOrder ==
    ASSUME NEW rows, NEW n \in Nat, DOMAIN rows \subseteq 1 .. n
    PROVE  \A x \in DOMAIN rows : InOrder(rows)[Position(DOMAIN rows, x)] = rows[x]
  <1>. DEFINE S == DOMAIN rows
              k == Cardinality(S)
              at(i) == CHOOSE x \in S : Position(S, x) = i
  <1>1. IsFiniteSet(1 .. n)
    BY FS_Interval
  <1>2. IsFiniteSet(S) /\ S \in SUBSET Nat
    BY <1>1, FS_Subset
  <1>3. InOrder(rows) = [i \in 1 .. k |-> rows[at(i)]]
    BY DEF InOrder
  <1>4. \A x \in S : Position(S, x) \in 1 .. k
    BY InOrderTakes
  <1>. HIDE DEF S
  <1>5. ASSUME NEW x \in S
        PROVE  at(Position(S, x)) = x
    <2>. DEFINE i == Position(S, x)
    <2>1. PICK y \in S : /\ Cardinality({z \in S : z <= y}) = i
                         /\ \A z \in S : Cardinality({w \in S : w <= z}) = i => z = y
      BY <1>2, <1>4, <1>5, RanksTaken DEF k
    <2>2. Position(S, y) = i /\ \A z \in S : Position(S, z) = i => z = y
      BY <2>1 DEF Position
    <2>. QED  BY <2>2
  <1>. HIDE DEF at, k
  <1>. QED  BY <1>3, <1>4, <1>5 DEF S

\* Rows whose ids have no gap.
Gapless(rows, f, c) ==
    /\ Cardinality(DOMAIN rows) = c
    /\ \A i \in 1 .. c : f + i - 1 \in DOMAIN rows /\ Position(DOMAIN rows, f + i - 1) = i
    /\ DOMAIN InOrder(rows) = 1 .. c
    /\ \A i \in 1 .. c : InOrder(rows)[i] = rows[f + i - 1]

LEMMA IntervalInOrder ==
    ASSUME NEW rows, NEW f \in Nat \ {0}, NEW c \in Nat, DOMAIN rows = f .. f + c - 1
    PROVE  Gapless(rows, f, c)
  <1>. DEFINE S == DOMAIN rows
  <1>1. Cardinality(S) = c
    BY FS_Interval
  <1>2. ASSUME NEW i \in 1 .. c
        PROVE  f + i - 1 \in S /\ Position(S, f + i - 1) = i
    <2>1. {y \in S : y <= f + i - 1} = f .. f + i - 1
      OBVIOUS
    <2>2. Cardinality(f .. f + i - 1) = i
      BY FS_Interval
    <2>3. Position(S, f + i - 1) = Cardinality({y \in S : y <= f + i - 1})
      BY DEF Position
    <2>4. f + i - 1 \in S
      OBVIOUS
    <2>. HIDE DEF S
    <2>. QED  BY <2>1, <2>2, <2>3, <2>4
  <1>3. \A x \in S : InOrder(rows)[Position(S, x)] = rows[x]
    <2>1. S \subseteq 1 .. f + c - 1 /\ f + c - 1 \in Nat
      OBVIOUS
    <2>. QED  BY <2>1, TakenInOrder
  <1>4. InOrder(rows) = [i \in 1 .. c |-> rows[CHOOSE x \in S : Position(S, x) = i]]
    BY <1>1 DEF InOrder
  <1>. HIDE DEF S
  <1>5. DOMAIN InOrder(rows) = 1 .. c
    BY <1>4
  <1>6. \A i \in 1 .. c : InOrder(rows)[i] = rows[f + i - 1]
    BY <1>2, <1>3
  <1>. QED  BY <1>1, <1>2, <1>5, <1>6 DEF S, Gapless

\* Reading on past a line.
LEMMA PlacesMove ==
    ASSUME NEW lines \in Seq(CsvLine), NEW next \in Nat
    PROVE  LET old == PlacesRead(lines, next)
               new == PlacesRead(lines, next + 1)
           IN  /\ IsFiniteSet(old) /\ Cardinality(old) \in Nat
               /\ next \notin EdgePlaces(lines) => new = old
               /\ next \in EdgePlaces(lines) =>
                    /\ new = old \cup {next} /\ Cardinality(new) = Cardinality(old) + 1
                    /\ Position(new, next) = Cardinality(old) + 1
                    /\ \A i \in old : Position(new, i) = Position(old, i)
  <1>. DEFINE old == PlacesRead(lines, next)
              new == PlacesRead(lines, next + 1)
              places == EdgePlaces(lines)
  <1>1. Len(lines) \in Nat /\ DOMAIN lines = 1 .. Len(lines)
    OBVIOUS
  <1>2. places \subseteq 1 .. Len(lines)
    BY <1>1 DEF EdgePlaces
  <1>3. IsFiniteSet(1 .. Len(lines))
    BY <1>1, FS_Interval
  <1>4. /\ old \subseteq places /\ \A i \in places : i \in old <=> i < next
        /\ new \subseteq places /\ \A i \in places : i \in new <=> i < next + 1
    BY DEF PlacesRead
  <1>. HIDE DEF places, old, new
  <1>5. IsFiniteSet(old) /\ places \subseteq Nat /\ next \notin old
    <2>1. places \subseteq Nat
      BY <1>1, <1>2
    <2>2. old \subseteq 1 .. Len(lines)
      BY <1>2, <1>4
    <2>3. IsFiniteSet(old)
      BY <1>3, <2>2, FS_Subset
    <2>4. next \notin old
      BY <1>4
    <2>. QED  BY <2>1, <2>3, <2>4
  <1>6. Cardinality(old) \in Nat
    BY <1>5, FS_CardinalityType
  <1>7. /\ \A i : i \in new => i \in old \/ i = next
        /\ \A i : i \in old => i \in new /\ i \in Nat /\ i < next
        /\ next \in new <=> next \in places
    <2>1. \A i \in places : i < next + 1 <=> i < next \/ i = next
      BY <1>5
    <2>. QED  BY <1>4, <1>5, <2>1
  <1>8. ASSUME next \in places
        PROVE  /\ new = old \cup {next} /\ Cardinality(new) = Cardinality(old) + 1
               /\ Position(new, next) = Cardinality(old) + 1
               /\ \A i \in old : Position(new, i) = Position(old, i)
    <2>1. new = old \cup {next}
      BY <1>7, <1>8
    <2>2. Cardinality(new) = Cardinality(old) + 1
      BY <1>5, <2>1, FS_AddElement
    <2>3. {y \in new : y <= next} = new
      <3>1. \A y \in new : y <= next
        BY <1>7
      <3>. QED  BY <3>1
    <2>4. \A i \in old : {y \in new : y <= i} = {y \in old : y <= i}
      <3>1. \A i \in old : ~(next <= i)
        BY <1>7
      <3>. QED  BY <2>1, <3>1
    <2>. QED  BY <2>1, <2>2, <2>3, <2>4 DEF Position
  <1>9. next \notin places => new = old
    BY <1>7
  <1>. QED  BY <1>5, <1>6, <1>8, <1>9 DEF old, new, places

-----------------------------------------------------------------------------
\* Reading a file line by line

LEMMA GoesOn ==
    ASSUME NEW new, NEW old, NEW first, NEW count, Continues(new, old, first, count), NEW value
    PROVE  LET id == first + count
               more == Put(new, id, value)
           IN  /\ Continues(more, old, first, count + 1)
               /\ more[id] = value /\ \A x \in DOMAIN new : x # id /\ more[x] = new[x]
  <1>. DEFINE id == first + count
              more == Put(new, id, value)
  <1>1. /\ first \in Nat \ {0} /\ count \in Nat /\ DOMAIN old \subseteq 1 .. first - 1
        /\ DOMAIN new = DOMAIN old \cup (first .. first + count - 1)
        /\ IsMap(old) /\ \A x \in DOMAIN old : new[x] = old[x]
    BY DEF Continues
  <1>2. /\ DOMAIN more = DOMAIN new \cup {id} /\ more[id] = value
        /\ \A x \in DOMAIN new : x # id => more[x] = new[x]
    BY DEF Put
  <1>3. id \notin DOMAIN new /\ (first .. first + count - 1) \cup {id} = first .. first + (count + 1) - 1
    BY <1>1
  <1>. HIDE DEF id, more
  <1>4. DOMAIN more = DOMAIN old \cup (first .. first + (count + 1) - 1)
    BY <1>1, <1>2, <1>3
  <1>5. \A x \in DOMAIN old : more[x] = old[x]
    BY <1>1, <1>2, <1>3
  <1>6. \A x \in DOMAIN new : x # id /\ more[x] = new[x]
    BY <1>2, <1>3
  <1>7. Continues(more, old, first, count + 1)
    BY <1>1, <1>4, <1>5 DEF Continues
  <1>. QED  BY <1>2, <1>6, <1>7 DEF id, more

LEMMA NoPlaces ==
    ASSUME NEW lines \in Seq(CsvLine), NEW next \in Nat, next <= Len(NodeBlock(lines)) + 2
    PROVE  PlacesRead(lines, next) = {} /\ Cardinality(PlacesRead(lines, next)) = 0
  <1>1. Len(NodeBlock(lines)) \in Nat /\ DOMAIN lines \subseteq Nat
    BY FirstBlank
  <1>2. PlacesRead(lines, next) = {}
    BY <1>1 DEF PlacesRead, EdgePlaces
  <1>. QED  BY <1>2, FS_EmptySet

LEMMA NothingRead ==
    ASSUME NEW lines \in Seq(CsvLine), NEW rows, NEW links, NEW n \in Nat \ {0}, NEW m \in Nat \ {0},
           IsMap(rows), DOMAIN rows \subseteq 1 .. n - 1, IsMap(links), DOMAIN links \subseteq 1 .. m - 1
    PROVE  ImportOK(lines, "importNodes", rows, links, rows, links, << >>, 1, n, m)
  <1>1. PlacesRead(lines, 1) = {} /\ Cardinality(PlacesRead(lines, 1)) = 0 /\ Len(NodeBlock(lines)) \in Nat
    BY FirstBlank, NoPlaces
  <1>2. n - 0 = n /\ m - 0 = m /\ n .. n + 0 - 1 = {} /\ m .. m + 0 - 1 = {}
    OBVIOUS
  <1>3. Continues(rows, rows, n, 0) /\ Continues(links, links, m, 0)
    BY <1>2 DEF Continues
  <1>4. Len(<< >>) = 0
    OBVIOUS
  <1>5. NodesRead(lines, rows, rows, << >>, n - Len(<< >>))
    BY <1>1, <1>2, <1>3, <1>4 DEF NodesRead
  <1>6. EdgesRead(lines, links, links, << >>, 1, m - Cardinality(PlacesRead(lines, 1)))
    BY <1>1, <1>2, <1>3 DEF EdgesRead
  <1>. QED  BY <1>4, <1>5, <1>6 DEF ImportOK

LEMMA ReadsNode ==
    ASSUME NEW lines \in Seq(CsvLine), NEW fn, NEW fe, NEW rows, NEW links, NEW loaded \in Seq(Nat),
           NEW next \in Nat, NEW n \in Nat, NEW m \in Nat, next <= Len(NodeBlock(lines)),
           ImportOK(lines, "importNodes", fn, fe, rows, links, loaded, next, n, m)
    PROVE  ImportOK(lines, "importNodes", fn, fe, Put(rows, n, ReadRow(lines[next])), links,
                    Append(loaded, n), next + 1, n + 1, m)
  <1>. DEFINE k == Len(loaded)
              b == Len(NodeBlock(lines))
              first == n - k
              longer == Append(loaded, n)
              more == Put(rows, n, ReadRow(lines[next]))
  <1>1. k \in Nat /\ b \in Nat /\ next = k + 1
    BY FirstBlank DEF ImportOK
  <1>2. /\ Continues(rows, fn, first, k)
        /\ \A i \in 1 .. k : loaded[i] = first + i - 1 /\ rows[first + i - 1] = ReadRow(lines[i])
    BY DEF ImportOK, NodesRead
  <1>3. Len(longer) = k + 1 /\ longer[k + 1] = n /\ \A i \in 1 .. k : longer[i] = loaded[i]
    BY <1>1
  <1>4. first \in Nat \ {0} /\ DOMAIN rows = DOMAIN fn \cup (first .. first + k - 1)
    BY <1>2 DEF Continues
  <1>5. /\ first + k = n /\ first + (k + 1) - 1 = n /\ n + 1 - (k + 1) = first
        /\ \A i \in 1 .. k : first + i - 1 \in DOMAIN rows
        /\ \A i \in 1 .. k + 1 : i \in 1 .. k \/ i = k + 1
    BY <1>1, <1>4
  <1>. HIDE DEF k, b, first, longer, more
  <1>6. /\ Continues(more, fn, first, k + 1) /\ more[n] = ReadRow(lines[next])
        /\ \A x \in DOMAIN rows : more[x] = rows[x]
    BY <1>2, <1>5, GoesOn DEF more
  <1>7. \A i \in 1 .. k + 1 : longer[i] = first + i - 1 /\ more[first + i - 1] = ReadRow(lines[i])
    BY <1>1, <1>2, <1>3, <1>5, <1>6
  <1>8. NodesRead(lines, more, fn, longer, first)
    BY <1>1, <1>3, <1>6, <1>7 DEF NodesRead, b
  <1>9. next <= b + 2 /\ next + 1 <= b + 2 /\ next + 1 \in Nat
    BY <1>1 DEF b
  <1>10. /\ PlacesRead(lines, next) = {} /\ Cardinality(PlacesRead(lines, next)) = 0
         /\ PlacesRead(lines, next + 1) = {} /\ Cardinality(PlacesRead(lines, next + 1)) = 0
    BY <1>9, NoPlaces DEF b
  <1>11. EdgesRead(lines, links, fe, longer, next + 1, m - Cardinality(PlacesRead(lines, next + 1)))
    BY <1>10 DEF ImportOK, EdgesRead
  <1>12. NodesRead(lines, more, fn, longer, n + 1 - Len(longer)) /\ next + 1 = Len(longer) + 1
    BY <1>1, <1>3, <1>5, <1>8
  <1>. QED  BY <1>11, <1>12 DEF ImportOK, longer, more

LEMMA ReadsNodesEnd ==
    ASSUME NEW lines \in Seq(CsvLine), NEW fn, NEW fe, NEW rows, NEW links, NEW loaded \in Seq(Nat),
           NEW next \in Nat, NEW n \in Nat, NEW m \in Nat, NEW then,
           ImportOK(lines, "importNodes", fn, fe, rows, links, loaded, next, n, m),
           \/ next > Len(lines) /\ then = next
           \/ next \in 1 .. Len(lines) /\ lines[next] = Blank /\ then = next + 1
    PROVE  ImportOK(lines, "importEdges", fn, fe, rows, links, loaded, then, n, m)
  <1>. DEFINE b == Len(NodeBlock(lines))
  <1>1. b \in 0 .. Len(lines) /\ Len(lines) \in Nat /\ \A i \in 1 .. b : lines[i] # Blank
    BY FirstBlank
  <1>2. Len(loaded) \in Nat /\ Len(loaded) <= b /\ next = Len(loaded) + 1
    BY DEF ImportOK, NodesRead
  <1>. HIDE DEF b
  <1>3. Len(loaded) = b /\ then > Len(loaded) /\ then \in Nat /\ next <= b + 2 /\ then <= b + 2
    BY <1>1, <1>2
  <1>4. /\ PlacesRead(lines, next) = {} /\ Cardinality(PlacesRead(lines, next)) = 0
        /\ PlacesRead(lines, then) = {} /\ Cardinality(PlacesRead(lines, then)) = 0
    BY <1>3, NoPlaces DEF b
  <1>5. EdgesRead(lines, links, fe, loaded, then, m - Cardinality(PlacesRead(lines, then)))
    BY <1>4 DEF ImportOK, EdgesRead
  <1>. QED  BY <1>3, <1>5 DEF ImportOK, b

\* Where the reading of edges stands: a line that is not blank is one of theirs.
LEMMA EdgeLineNext ==
    ASSUME NEW lines \in Seq(CsvLine), NEW fn, NEW fe, NEW rows, NEW links, NEW loaded \in Seq(Nat),
           NEW next \in 1 .. Len(lines), NEW n, NEW m,
           ImportOK(lines, "importEdges", fn, fe, rows, links, loaded, next, n, m)
    PROVE  next \in EdgePlaces(lines) <=> lines[next] # Blank
  <1>. DEFINE b == Len(NodeBlock(lines))
  <1>1. b \in 0 .. Len(lines) /\ Len(lines) \in Nat /\ (b < Len(lines) => lines[b + 1] = Blank)
    BY FirstBlank
  <1>2. next > b
    BY DEF ImportOK
  <1>. HIDE DEF b
  <1>3. lines[next] # Blank => next > b + 1
    BY <1>1, <1>2
  <1>. QED  BY <1>3 DEF EdgePlaces, b

LEMMA ReadsEdge ==
    ASSUME NEW lines \in Seq(CsvLine), NEW fn, NEW fe, NEW rows, NEW links, NEW loaded \in Seq(Nat),
           NEW next \in 1 .. Len(lines), NEW n, NEW m \in Nat, NEW edge,
           ImportOK(lines, "importEdges", fn, fe, rows, links, loaded, next, n, m),
           EdgeRead(lines[next], edge, loaded)
    PROVE  ImportOK(lines, "importEdges", fn, fe, rows, Put(links, m, edge), loaded, next + 1, n, m + 1)
  <1>. DEFINE old == PlacesRead(lines, next)
              new == PlacesRead(lines, next + 1)
              c == Cardinality(old)
              first == m - c
              more == Put(links, m, edge)
  <1>1. lines[next] # Blank /\ next \in EdgePlaces(lines)
    <2>1. lines[next] # Blank
      BY LineKinds DEF EdgeRead
    <2>. QED  BY <2>1, EdgeLineNext
  <1>2. /\ IsFiniteSet(old) /\ c \in Nat /\ new = old \cup {next} /\ Cardinality(new) = c + 1
        /\ Position(new, next) = c + 1 /\ \A i \in old : Position(new, i) = Position(old, i)
    <2>1. next \in Nat
      OBVIOUS
    <2>2. IsFiniteSet(old) /\ c \in Nat
      BY <2>1, PlacesMove
    <2>3. new = old \cup {next} /\ Cardinality(new) = c + 1 /\ Position(new, next) = c + 1
      BY <1>1, <2>1, PlacesMove
    <2>4. \A i \in old : Position(new, i) = Position(old, i)
      BY <1>1, <2>1, PlacesMove
    <2>. QED  BY <2>2, <2>3, <2>4
  <1>3. Continues(links, fe, first, c) /\ \A i \in old : EdgeRead(lines[i], links[first + Position(old, i) - 1], loaded)
    BY DEF ImportOK, EdgesRead
  <1>4. \A i \in old : Position(old, i) \in 1 .. c
    <2>1. old \in SUBSET Nat
      BY DEF PlacesRead, EdgePlaces
    <2>. HIDE DEF old
    <2>. QED  BY <1>2, <2>1, RankBounds DEF Position, c
  <1>5. first \in Nat \ {0} /\ DOMAIN links = DOMAIN fe \cup (first .. first + c - 1)
    BY <1>3 DEF Continues
  <1>. HIDE DEF old, new, c, more
  <1>6. first + c = m /\ first + (c + 1) - 1 = m /\ (m + 1) - (c + 1) = first /\ next + 1 > Len(loaded)
    <2>1. next > Len(loaded) /\ Len(loaded) \in Nat /\ next \in Nat
      BY DEF ImportOK
    <2>2. next + 1 > Len(loaded)
      BY <2>1
    <2>3. c \in Nat /\ first = m - c
      BY <1>2
    <2>. HIDE DEF first
    <2>4. first + c = m /\ first + (c + 1) - 1 = m /\ (m + 1) - (c + 1) = first
      BY <2>3
    <2>. QED  BY <2>2, <2>4
  <1>7. \A i \in old : first + Position(old, i) - 1 \in DOMAIN links
    BY <1>2, <1>4, <1>5
  <1>. HIDE DEF first
  <1>8. /\ Continues(more, fe, first, c + 1) /\ more[m] = edge
        /\ \A x \in DOMAIN links : more[x] = links[x]
    BY <1>3, <1>6, GoesOn DEF more
  <1>9. ASSUME NEW i \in new
        PROVE  EdgeRead(lines[i], more[first + Position(new, i) - 1], loaded)
    <2>1. CASE i = next
      BY <1>2, <1>6, <1>8, <2>1
    <2>2. CASE i \in old
      BY <1>2, <1>3, <1>7, <1>8, <2>2
    <2>. QED  BY <1>2, <2>1, <2>2
  <1>10. EdgesRead(lines, more, fe, loaded, next + 1, first)
    BY <1>2, <1>8, <1>9 DEF EdgesRead, new
  <1>11. first = (m + 1) - Cardinality(PlacesRead(lines, next + 1))
    BY <1>2, <1>6 DEF new
  <1>12. EdgesRead(lines, more, fe, loaded, next + 1, (m + 1) - Cardinality(PlacesRead(lines, next + 1)))
    BY <1>10, <1>11
  <1>. QED  BY <1>6, <1>12 DEF ImportOK, more

LEMMA ReadsBlank ==
    ASSUME NEW lines \in Seq(CsvLine), NEW fn, NEW fe, NEW rows, NEW links, NEW loaded \in Seq(Nat),
           NEW next \in 1 .. Len(lines), NEW n, NEW m, lines[next] = Blank,
           ImportOK(lines, "importEdges", fn, fe, rows, links, loaded, next, n, m)
    PROVE  ImportOK(lines, "importEdges", fn, fe, rows, links, loaded, next + 1, n, m)
  <1>1. next \notin EdgePlaces(lines)
    BY EdgeLineNext
  <1>2. PlacesRead(lines, next + 1) = PlacesRead(lines, next)
    BY <1>1, PlacesMove
  <1>3. Len(loaded) \in Nat /\ next > Len(loaded)
    BY DEF ImportOK
  <1>4. EdgesRead(lines, links, fe, loaded, next + 1, m - Cardinality(PlacesRead(lines, next + 1)))
    BY <1>2 DEF ImportOK, EdgesRead
  <1>5. next + 1 > Len(loaded)
    BY <1>3
  <1>. QED  BY <1>4, <1>5 DEF ImportOK

-----------------------------------------------------------------------------
\* The steps of an import

LEMMA CallMoves ==
    /\ \A op, path : Called(op, path) =>
         /\ CallRecord(call') /\ call'.at = op /\ call'.op = op /\ call'.path = path
         /\ call'.foundNodes = nodes /\ call'.foundEdges = edges /\ call'.foundOpen = csvFile.open
    /\ \A step : CallRecord(call) /\ Goto(step) =>
         /\ CallRecord(call') /\ call'.at = step /\ call'.op = call.op /\ call'.path = call.path
         /\ call'.foundNodes = call.foundNodes /\ call'.foundEdges = call.foundEdges
         /\ call'.foundOpen = call.foundOpen
    /\ \A reply : Return(reply) => call'.at = "returned" /\ call'.reply = reply
  <1>1. ASSUME NEW op, NEW path, Called(op, path)
        PROVE  /\ CallRecord(call') /\ call'.at = op /\ call'.op = op /\ call'.path = path
               /\ call'.foundNodes = nodes /\ call'.foundEdges = edges /\ call'.foundOpen = csvFile.open
    BY <1>1 DEF Called, CallRecord
  <1>2. ASSUME NEW step, CallRecord(call), Goto(step)
        PROVE  /\ CallRecord(call') /\ call'.at = step /\ call'.op = call.op /\ call'.path = call.path
               /\ call'.foundNodes = call.foundNodes /\ call'.foundEdges = call.foundEdges
               /\ call'.foundOpen = call.foundOpen
    BY <1>2 DEF Goto, CallRecord
  <1>3. \A reply : Return(reply) => call'.at = "returned" /\ call'.reply = reply
    BY DEF Return
  <1>. QED  BY <1>1, <1>2, <1>3

\* Nothing is said of a call that has returned.
LEMMA ReturnedOK ==
    ASSUME call'.at = "returned"
    PROVE  CallOK'
  BY DEF CallOK, Importing, Exporting

LEMMA ImportCalledOK ==
    ASSUME ReadInv, NEW path \in Paths, importCSV(path)
    PROVE  CallOK'
  <1>1. UNCHANGED <<nodes, edges, nextNodeID, nextEdgeID, files>> /\ loadedNodes' = << >>
    BY DEF importCSV, graphVars
  <1>2. CASE ~csvFile.open /\ files[path] = NoFile
    <2>1. Return("failed")
      BY <1>2 DEF importCSV
    <2>. QED  BY <2>1, CallMoves, ReturnedOK
  <1>3. CASE csvFile.open
    <2>1. Called("importNodes", path)
      BY <1>3 DEF importCSV
    <2>2. /\ CallRecord(call') /\ call'.at = "importNodes" /\ call'.op = "importNodes"
          /\ call'.foundOpen
      BY <1>3, <2>1, CallMoves
    <2>. QED  BY <2>2 DEF CallOK, Importing, Exporting
  <1>4. CASE ~csvFile.open /\ files[path] # NoFile
    <2>. DEFINE lines == Lines(files[path])
    <2>1. Called("importNodes", path) /\ csvFile' = Open(path)
      BY <1>4 DEF importCSV, Reopened
    <2>2. csvFile'.good /\ csvFile'.path = path /\ csvFile'.next = 1
      BY <2>1 DEF Open
    <2>3. /\ CallRecord(call') /\ call'.at = "importNodes" /\ call'.op = "importNodes"
          /\ call'.path = path /\ call'.foundNodes = nodes /\ call'.foundEdges = edges
      BY <2>1, CallMoves
    <2>4. lines \in Seq(CsvLine)
      BY <1>4, TextOfFile DEF ReadInv, SessionInv, FilesOK
    <2>5. /\ nextNodeID \in Nat \ {0} /\ DOMAIN nodes \subseteq 1 .. nextNodeID - 1 /\ IsMap(nodes)
          /\ nextEdgeID \in Nat \ {0} /\ DOMAIN edges \subseteq 1 .. nextEdgeID - 1 /\ IsMap(edges)
      BY DEF ReadInv, SessionInv, LiveOK, MapsOK
    <2>. HIDE DEF lines
    <2>6. ImportOK(lines, "importNodes", nodes, edges, nodes, edges, << >>, 1, nextNodeID, nextEdgeID)
      BY <2>4, <2>5, NothingRead
    <2>7. Importing' /\ ~Exporting' /\ call'.at # "close" /\ call'.at # "exportEdges" /\ call'.at # "returned"
      BY <2>3 DEF Importing, Exporting
    <2>8. ImportOK(Lines(files[call.path]), call.at, call.foundNodes, call.foundEdges, nodes, edges,
                   loadedNodes, csvFile.next, nextNodeID, nextEdgeID)'
      BY <1>1, <2>2, <2>3, <2>6 DEF lines
    <2>. QED  BY <2>2, <2>3, <2>7, <2>8 DEF CallOK
  <1>. QED  BY <1>2, <1>3, <1>4

\* What an import that opened its file has at hand.
LEMMA ImportState ==
    ASSUME ReadInv, Importing, ~call.foundOpen
    PROVE  LET lines == Lines(files[call.path])
           IN  /\ csvFile.good /\ csvFile.path = call.path /\ csvFile.next \in Nat
               /\ lines \in Seq(CsvLine) /\ loadedNodes \in Seq(Nat)
               /\ nextNodeID \in Nat /\ nextEdgeID \in Nat
               /\ ImportOK(lines, call.at, call.foundNodes, call.foundEdges, nodes, edges,
                           loadedNodes, csvFile.next, nextNodeID, nextEdgeID)
  <1>1. /\ csvFile.good /\ csvFile.path = call.path
        /\ ImportOK(Lines(files[call.path]), call.at, call.foundNodes, call.foundEdges, nodes, edges,
                    loadedNodes, csvFile.next, nextNodeID, nextEdgeID)
    BY DEF ReadInv, CallOK
  <1>2. csvFile.next \in Nat /\ files[csvFile.path] # NoFile /\ csvFile.path \in Paths
    BY <1>1 DEF ReadInv, SessionInv, StreamOK, Importing
  <1>3. Lines(files[call.path]) \in Seq(CsvLine)
    BY <1>1, <1>2, TextOfFile DEF ReadInv, SessionInv, FilesOK
  <1>4. loadedNodes \in Seq(Nat)
    BY SessionAssumption DEF ReadInv, SessionInv, StreamOK
  <1>5. nextNodeID \in Nat /\ nextEdgeID \in Nat
    BY DEF ReadInv, SessionInv, LiveOK
  <1>. QED  BY <1>1, <1>2, <1>3, <1>4, <1>5

\* A step of an import that leaves the call where it is, or moves it on, and its file alone.
LEMMA ImportGoesOn ==
    ASSUME ReadInv, Importing, NEW step \in {"importNodes", "importEdges"},
           UNCHANGED files, UNCHANGED <<csvFile.path, csvFile.good>>,
           (call' = call /\ step = call.at) \/ Goto(step),
           ~call.foundOpen =>
             ImportOK(Lines(files[call.path]), step, call.foundNodes, call.foundEdges, nodes', edges',
                      loadedNodes', csvFile'.next, nextNodeID', nextEdgeID')
    PROVE  CallOK'
  <1>1. CallRecord(call) /\ call.op = "importNodes"
    BY DEF ReadInv, CallOK, Importing
  <1>2. /\ CallRecord(call') /\ call'.at = step /\ call'.op = call.op /\ call'.path = call.path
        /\ call'.foundNodes = call.foundNodes /\ call'.foundEdges = call.foundEdges
        /\ call'.foundOpen = call.foundOpen
    <2>1. CASE call' = call /\ step = call.at
      BY <1>1, <2>1
    <2>2. CASE Goto(step)
      BY <1>1, <2>2, CallMoves
    <2>. QED  BY <2>1, <2>2
  <1>3. Importing' /\ ~Exporting' /\ call'.at # "close" /\ call'.at # "exportEdges" /\ call'.at # "returned"
    BY <1>2 DEF Importing, Exporting
  <1>4. ASSUME ~call.foundOpen
        PROVE  /\ csvFile'.good /\ csvFile'.path = call'.path
               /\ ImportOK(Lines(files[call.path]), call.at, call.foundNodes, call.foundEdges, nodes, edges,
                           loadedNodes, csvFile.next, nextNodeID, nextEdgeID)'
    <2>1. csvFile.good /\ csvFile.path = call.path
      BY <1>4, ImportState
    <2>. QED  BY <1>2, <1>4, <2>1
  <1>. QED  BY <1>1, <1>2, <1>3, <1>4 DEF CallOK

LEMMA ImportNodeOK ==
    ASSUME ReadInv, ImportNode
    PROVE  CallOK'
  <1>. DEFINE lines == Lines(files[call.path])
              b == Len(NodeBlock(lines))
  <1>1. /\ call.at = "importNodes" /\ ~AtEnd /\ Line # Blank /\ NextLine
        /\ nodes' = Put(nodes, nextNodeID, ReadRow(Line)) /\ nextNodeID' = nextNodeID + 1
        /\ loadedNodes' = Append(loadedNodes, nextNodeID)
        /\ UNCHANGED <<edges, nextEdgeID, files, call>>
    BY DEF ImportNode
  <1>2. Importing
    BY <1>1 DEF Importing
  <1>3. csvFile'.path = csvFile.path /\ csvFile'.good = csvFile.good /\ csvFile'.next = csvFile.next + 1
    BY <1>1, NextLineMoves DEF ReadInv
  <1>4. ASSUME ~call.foundOpen
        PROVE  ImportOK(lines, "importNodes", call.foundNodes, call.foundEdges, nodes', edges',
                        loadedNodes', csvFile'.next, nextNodeID', nextEdgeID')
    <2>1. /\ csvFile.good /\ csvFile.path = call.path /\ csvFile.next \in Nat
          /\ lines \in Seq(CsvLine) /\ loadedNodes \in Seq(Nat) /\ nextNodeID \in Nat /\ nextEdgeID \in Nat
          /\ ImportOK(lines, "importNodes", call.foundNodes, call.foundEdges, nodes, edges,
                      loadedNodes, csvFile.next, nextNodeID, nextEdgeID)
      BY <1>1, <1>2, <1>4, ImportState
    <2>2. csvFile.next \in 1 .. Len(lines) /\ Line = lines[csvFile.next]
      BY <1>1, <1>2, <2>1, NextLineRead DEF ReadInv
    <2>3. csvFile.next <= b + 1
      BY <1>1, <2>1 DEF ReadInv, SessionInv, StreamOK, RoomForNodes
    <2>4. b \in 0 .. Len(lines) /\ Len(lines) \in Nat /\ (b < Len(lines) => lines[b + 1] = Blank)
      BY <2>1, FirstBlank
    <2>. HIDE DEF b
    <2>5. csvFile.next <= b
      BY <1>1, <2>2, <2>3, <2>4
    <2>. HIDE DEF lines
    <2>. QED  BY <1>1, <1>3, <2>1, <2>2, <2>5, ReadsNode DEF b
  <1>. QED  BY <1>1, <1>2, <1>3, <1>4, ImportGoesOn

LEMMA ImportNodesEndOK ==
    ASSUME ReadInv, ImportNodesEnd
    PROVE  CallOK'
  <1>. DEFINE lines == Lines(files[call.path])
  <1>1. /\ call.at = "importNodes" /\ (~AtEnd => Line = Blank) /\ Goto("importEdges")
        /\ UNCHANGED <<nodes, edges, nextNodeID, nextEdgeID, files, loadedNodes>>
        /\ IF AtEnd THEN UNCHANGED csvFile ELSE NextLine
    BY DEF ImportNodesEnd, graphVars
  <1>2. Importing
    BY <1>1 DEF Importing
  <1>3. /\ csvFile'.path = csvFile.path /\ csvFile'.good = csvFile.good
        /\ csvFile'.next = IF AtEnd THEN csvFile.next ELSE csvFile.next + 1
    BY <1>1, NextLineMoves DEF ReadInv
  <1>4. ASSUME ~call.foundOpen
        PROVE  ImportOK(lines, "importEdges", call.foundNodes, call.foundEdges, nodes', edges',
                        loadedNodes', csvFile'.next, nextNodeID', nextEdgeID')
    <2>1. /\ csvFile.good /\ csvFile.path = call.path /\ csvFile.next \in Nat
          /\ lines \in Seq(CsvLine) /\ loadedNodes \in Seq(Nat) /\ nextNodeID \in Nat /\ nextEdgeID \in Nat
          /\ ImportOK(lines, "importNodes", call.foundNodes, call.foundEdges, nodes, edges,
                      loadedNodes, csvFile.next, nextNodeID, nextEdgeID)
      BY <1>1, <1>2, <1>4, ImportState
    <2>2. \/ csvFile.next > Len(lines) /\ csvFile'.next = csvFile.next
          \/ /\ csvFile.next \in 1 .. Len(lines) /\ lines[csvFile.next] = Blank
             /\ csvFile'.next = csvFile.next + 1
      <3>1. CASE AtEnd
        BY <1>3, <2>1, <3>1 DEF AtEnd
      <3>2. CASE ~AtEnd
        BY <1>1, <1>2, <1>3, <2>1, <3>2, NextLineRead DEF ReadInv
      <3>. QED  BY <3>1, <3>2
    <2>. HIDE DEF lines
    <2>3. ImportOK(lines, "importEdges", call.foundNodes, call.foundEdges, nodes, edges,
                   loadedNodes, csvFile'.next, nextNodeID, nextEdgeID)
      BY <2>1, <2>2, ReadsNodesEnd
    <2>. QED  BY <1>1, <2>3
  <1>. QED  BY <1>1, <1>2, <1>3, <1>4, ImportGoesOn

\* What a step that reads a line of the edges finds.
LEMMA EdgeLineState ==
    ASSUME ReadInv, call.at = "importEdges", ~AtEnd, ~call.foundOpen
    PROVE  LET lines == Lines(files[call.path])
           IN  /\ lines \in Seq(CsvLine) /\ csvFile.next \in 1 .. Len(lines) /\ Line = lines[csvFile.next]
               /\ Line \in CsvLine /\ loadedNodes \in Seq(Nat) /\ nextNodeID \in Nat /\ nextEdgeID \in Nat
               /\ ImportOK(lines, "importEdges", call.foundNodes, call.foundEdges, nodes, edges,
                           loadedNodes, csvFile.next, nextNodeID, nextEdgeID)
  <1>. DEFINE lines == Lines(files[call.path])
  <1>1. Importing
    BY DEF Importing
  <1>2. /\ csvFile.path = call.path /\ lines \in Seq(CsvLine) /\ loadedNodes \in Seq(Nat)
        /\ nextNodeID \in Nat /\ nextEdgeID \in Nat
        /\ ImportOK(lines, "importEdges", call.foundNodes, call.foundEdges, nodes, edges,
                    loadedNodes, csvFile.next, nextNodeID, nextEdgeID)
    BY <1>1, ImportState
  <1>3. csvFile.next \in 1 .. Len(lines) /\ Line = lines[csvFile.next] /\ Line \in CsvLine
    BY <1>1, <1>2, NextLineRead DEF ReadInv
  <1>. HIDE DEF lines
  <1>. QED  BY <1>2, <1>3 DEF lines

LEMMA ImportEdgeOK ==
    ASSUME ReadInv, ImportEdge
    PROVE  CallOK'
  <1>. DEFINE lines == Lines(files[call.path])
              edge == [from |-> Endpoint(Line.from), to |-> Endpoint(Line.to)]
  <1>1. /\ call.at = "importEdges" /\ ~AtEnd /\ IsEdgeLine(Line) /\ NextLine
        /\ {Line.from, Line.to} \subseteq 0 .. Len(loadedNodes) - 1
        /\ edges' = Put(edges, nextEdgeID, edge) /\ nextEdgeID' = nextEdgeID + 1
        /\ UNCHANGED <<nodes, nextNodeID, files, loadedNodes, call>>
    BY DEF ImportEdge
  <1>2. Importing
    BY <1>1 DEF Importing
  <1>3. csvFile'.path = csvFile.path /\ csvFile'.good = csvFile.good /\ csvFile'.next = csvFile.next + 1
    BY <1>1, NextLineMoves DEF ReadInv
  <1>4. EdgeRead(Line, edge, loadedNodes)
    BY <1>1 DEF EdgeRead, Endpoint
  <1>. HIDE DEF edge
  <1>5. ASSUME ~call.foundOpen
        PROVE  ImportOK(lines, "importEdges", call.foundNodes, call.foundEdges, nodes', edges',
                        loadedNodes', csvFile'.next, nextNodeID', nextEdgeID')
    <2>1. /\ lines \in Seq(CsvLine) /\ csvFile.next \in 1 .. Len(lines) /\ Line = lines[csvFile.next]
          /\ loadedNodes \in Seq(Nat) /\ nextNodeID \in Nat /\ nextEdgeID \in Nat
          /\ ImportOK(lines, "importEdges", call.foundNodes, call.foundEdges, nodes, edges,
                      loadedNodes, csvFile.next, nextNodeID, nextEdgeID)
      BY <1>1, <1>5, EdgeLineState
    <2>. HIDE DEF lines
    <2>2. EdgeRead(lines[csvFile.next], edge, loadedNodes)
      BY <1>4, <2>1
    <2>3. ImportOK(lines, "importEdges", call.foundNodes, call.foundEdges, nodes, Put(edges, nextEdgeID, edge),
                   loadedNodes, csvFile.next + 1, nextNodeID, nextEdgeID + 1)
      BY <2>1, <2>2, ReadsEdge
    <2>. QED  BY <1>1, <1>3, <2>3
  <1>. QED  BY <1>1, <1>2, <1>3, <1>5, ImportGoesOn

LEMMA ImportBlankLineOK ==
    ASSUME ReadInv, ImportBlankLine
    PROVE  CallOK'
  <1>. DEFINE lines == Lines(files[call.path])
  <1>1. /\ call.at = "importEdges" /\ ~AtEnd /\ Line = Blank /\ NextLine
        /\ UNCHANGED <<nodes, edges, nextNodeID, nextEdgeID, files, loadedNodes, call>>
    BY DEF ImportBlankLine, graphVars
  <1>2. Importing
    BY <1>1 DEF Importing
  <1>3. csvFile'.path = csvFile.path /\ csvFile'.good = csvFile.good /\ csvFile'.next = csvFile.next + 1
    BY <1>1, NextLineMoves DEF ReadInv
  <1>4. ASSUME ~call.foundOpen
        PROVE  ImportOK(lines, "importEdges", call.foundNodes, call.foundEdges, nodes', edges',
                        loadedNodes', csvFile'.next, nextNodeID', nextEdgeID')
    <2>1. /\ lines \in Seq(CsvLine) /\ csvFile.next \in 1 .. Len(lines) /\ Line = lines[csvFile.next]
          /\ loadedNodes \in Seq(Nat)
          /\ ImportOK(lines, "importEdges", call.foundNodes, call.foundEdges, nodes, edges,
                      loadedNodes, csvFile.next, nextNodeID, nextEdgeID)
      BY <1>1, <1>4, EdgeLineState
    <2>. HIDE DEF lines
    <2>2. ImportOK(lines, "importEdges", call.foundNodes, call.foundEdges, nodes, edges,
                   loadedNodes, csvFile.next + 1, nextNodeID, nextEdgeID)
      BY <1>1, <2>1, ReadsBlank
    <2>. QED  BY <1>1, <1>3, <2>2
  <1>. QED  BY <1>1, <1>2, <1>3, <1>4, ImportGoesOn

-----------------------------------------------------------------------------
\* The steps of an export

LEMMA WriteGoesOn ==
    ASSUME SessionInv, Exporting, NEW lines \in Seq(CsvLine), NEW next, Write(lines, next)
    PROVE  \/ Return("failed")
           \/ /\ csvFile.good /\ csvFile' = csvFile /\ Goto(next)
              /\ files'[csvFile.path] = Csv(files[csvFile.path].lines \o lines)
  <1>. DEFINE path == csvFile.path
              old == files[path].lines
              all == old \o lines
  <1>1. path \in Paths /\ DOMAIN files = Paths /\ (csvFile.good => CsvFile(files[path]))
    BY DEF SessionInv, StreamOK, FilesOK, Exporting
  <1>2. CASE /\ csvFile.good /\ csvFile' = csvFile /\ Goto(next)
             /\ files' = [files EXCEPT ![path].lines = @ \o lines]
    <2>1. files[path] = Csv(old)
      BY <1>1, <1>2 DEF CsvFile
    <2>2. files'[path] = [files[path] EXCEPT !.lines = all]
      BY <1>1, <1>2
    <2>. HIDE DEF old, all
    <2>3. [Csv(old) EXCEPT !.lines = all] = Csv(all)
      BY DEF Csv
    <2>4. files'[path] = Csv(all)
      BY <2>1, <2>2, <2>3, Zenon
    <2>. QED  BY <1>2, <2>4 DEF old, all
  <1>3. CASE Return("failed")
    BY <1>3
  <1>. QED  BY <1>2, <1>3 DEF Write

LEMMA ExportCalledOK ==
    ASSUME ReadInv, NEW path \in Paths, exportCSV(path)
    PROVE  CallOK'
  <1>1. CASE Return("failed")
    BY <1>1, CallMoves, ReturnedOK
  <1>2. CASE Called("exportNodes", path) /\ csvFile' = Reopened(path)
    <2>1. /\ CallRecord(call') /\ call'.at = "exportNodes" /\ call'.op = "exportNodes"
          /\ call'.path = path
      BY <1>2, CallMoves
    <2>2. csvFile'.good => csvFile'.path = path
      <3>1. CASE csvFile.open
        <4>1. csvFile' = [csvFile EXCEPT !.next = 0, !.good = FALSE]
          BY <1>2, <3>1 DEF Reopened, LeftOpen
        <4>2. csvFile \in [open : BOOLEAN, path : Paths \cup {NoEngine}, next : Nat, good : BOOLEAN]
          BY DEF ReadInv, SessionInv, StreamOK
        <4>. QED  BY <4>1, <4>2
      <3>2. CASE ~csvFile.open
        BY <1>2, <3>2 DEF Reopened, Open
      <3>. QED  BY <3>1, <3>2
    <2>. QED  BY <2>1, <2>2 DEF CallOK, Importing, Exporting
  <1>. QED  BY <1>1, <1>2 DEF exportCSV

LEMMA ExportNodesOK ==
    ASSUME ReadInv, ExportNodes
    PROVE  CallOK'
  <1>. DEFINE lines == Append(NodeLines, Blank)
  <1>1. call.at = "exportNodes" /\ Write(lines, "exportEdges") /\ UNCHANGED <<nodes, edges>>
    BY DEF ExportNodes, graphVars
  <1>2. lines \in Seq(CsvLine)
    BY NodeLinesWritten DEF ReadInv
  <1>3. Exporting /\ CallRecord(call) /\ call.op = "exportNodes" /\ call.path \in Paths
    BY <1>1 DEF ReadInv, CallOK, Exporting
  <1>4. << >> \o lines = lines /\ lines' = lines
    BY <1>1, <1>2 DEF NodeLines
  <1>. HIDE DEF lines
  <1>5. CASE Return("failed")
    BY <1>5, CallMoves, ReturnedOK
  <1>6. CASE /\ csvFile.good /\ csvFile' = csvFile /\ Goto("exportEdges")
             /\ files'[csvFile.path] = Csv(files[csvFile.path].lines \o lines)
    <2>1. files[csvFile.path].lines = << >> /\ csvFile.path = call.path
      BY <1>1, <1>3, <1>6 DEF ReadInv, SessionInv, StreamOK, CallOK
    <2>2. files'[call.path] = Csv(lines')
      BY <1>4, <1>6, <2>1
    <2>3. /\ CallRecord(call') /\ call'.at = "exportEdges" /\ call'.op = "exportNodes"
          /\ call'.path = call.path
      BY <1>3, <1>6, CallMoves
    <2>. QED  BY <1>3, <1>6, <2>1, <2>2, <2>3 DEF CallOK, Importing, Exporting, lines
  <1>. QED  BY <1>1, <1>2, <1>3, <1>5, <1>6, WriteGoesOn DEF ReadInv

LEMMA ExportEdgesOK ==
    ASSUME ReadInv, ExportEdges
    PROVE  CallOK'
  <1>. DEFINE block == Append(NodeLines, Blank)
  <1>1. call.at = "exportEdges" /\ Write(EdgeLines, "close") /\ UNCHANGED <<nodes, edges>>
    BY DEF ExportEdges, graphVars
  <1>2. EdgeLines \in Seq(CsvLine)
    BY EdgeLinesWritten DEF ReadInv
  <1>3. /\ Exporting /\ CallRecord(call) /\ call.op = "exportNodes" /\ call.path \in Paths
        /\ csvFile.path = call.path /\ files[call.path] = Csv(block)
    <2>1. csvFile.good
      BY <1>1 DEF ReadInv, SessionInv, StreamOK
    <2>. QED  BY <1>1, <2>1 DEF ReadInv, CallOK, Exporting
  <1>4. block' = block /\ EdgeLines' = EdgeLines
    BY <1>1 DEF NodeLines, EdgeLines
  <1>. HIDE DEF block
  <1>5. CASE Return("failed")
    BY <1>5, CallMoves, ReturnedOK
  <1>6. CASE /\ csvFile.good /\ csvFile' = csvFile /\ Goto("close")
             /\ files'[csvFile.path] = Csv(files[csvFile.path].lines \o EdgeLines)
    <2>1. files[csvFile.path].lines = block
      BY <1>3 DEF Csv
    <2>2. files'[call.path] = Csv(block' \o EdgeLines')
      BY <1>3, <1>4, <1>6, <2>1
    <2>3. /\ CallRecord(call') /\ call'.at = "close" /\ call'.op = "exportNodes"
          /\ call'.path = call.path
      BY <1>3, <1>6, CallMoves
    <2>. QED  BY <1>3, <1>6, <2>2, <2>3 DEF CallOK, Importing, Exporting, block
  <1>. QED  BY <1>1, <1>2, <1>3, <1>5, <1>6, WriteGoesOn DEF ReadInv

-----------------------------------------------------------------------------
\* The invariant

LEMMA MadeMaps ==
    /\ \A f, x, v : IsMap(Put(f, x, v))
    /\ \A f, S : IsMap(Without(f, S))
    /\ \A f : IsMap(InOrder(f))
    /\ IsMap(EmptyMap)
  <1>1. \A f, x, v : IsMap(Put(f, x, v))
    BY DEF IsMap, Put
  <1>2. \A f, S : IsMap(Without(f, S))
    BY DEF IsMap, Without, Restrict
  <1>3. \A f : IsMap(InOrder(f))
    BY DEF IsMap, InOrder
  <1>4. IsMap(EmptyMap)
    BY DEF IsMap, EmptyMap
  <1>. QED  BY <1>1, <1>2, <1>3, <1>4

LEMMA LoadedMaps ==
    ASSUME MapsOK, NEW path, LoadOf(path)
    PROVE  MapsOK'
  <1>1. CASE UNCHANGED graphVars
    BY <1>1 DEF MapsOK, graphVars
  <1>2. CASE Renumbered(files[path])
    <2>1. IsMap(nodes')
      BY <1>2, MadeMaps DEF Renumbered
    <2>2. IsMap(edges')
      BY <1>2 DEF Renumbered, IsMap
    <2>. QED  BY <2>1, <2>2 DEF MapsOK
  <1>. QED  BY <1>1, <1>2 DEF LoadOf

LEMMA MapsStep ==
    ASSUME MapsOK, [Next]_vars
    PROVE  MapsOK'
  <1>1. CASE UNCHANGED <<nodes, edges>>
    BY <1>1 DEF MapsOK
  <1>2. ASSUME NEW path \in Paths, importCSV(path) \/ exportCSV(path) \/ FlushTo(path)
        PROVE  UNCHANGED <<nodes, edges>>
    BY <1>2 DEF importCSV, exportCSV, FlushTo, SaveTo, graphVars
  <1>3. ASSUME NEW path \in Paths, LoadFrom(path)
        PROVE  MapsOK'
    BY <1>3, LoadedMaps DEF LoadFrom
  <1>4. CASE ImportNode \/ ImportEdge
    BY <1>4, MadeMaps DEF ImportNode, ImportEdge, MapsOK
  <1>5. ASSUME \/ ImportNodesEnd \/ ImportBlankLine \/ ImportBadLine \/ ImportEnd
               \/ ExportNodes \/ ExportEdges \/ ExportEnd
        PROVE  UNCHANGED <<nodes, edges>>
    BY <1>5 DEF ImportNodesEnd, ImportBlankLine, ImportBadLine, ImportEnd, ExportNodes, ExportEdges,
                ExportEnd, graphVars
  <1>6. ASSUME NEW c \in Clients, flush(c) \/ TestStorage(c, "flush") \/ TestStorage(c, "load")
        PROVE  UNCHANGED <<nodes, edges>>
    BY <1>6 DEF flush, SaveTo, TestStorage, graphVars
  <1>7. ASSUME NEW c \in Clients, loadLive(c)
        PROVE  MapsOK'
    BY <1>7, LoadedMaps DEF loadLive
  <1>8. ASSUME NEW row \in Rows, InsertNode(row)
        PROVE  MapsOK'
    BY <1>8, MadeMaps DEF InsertNode, MapsOK
  <1>9. ASSUME NEW m \in DOMAIN nodes, NEW n \in DOMAIN nodes, InsertEdge(m, n) \/ DeleteNode(n)
        PROVE  MapsOK'
    BY <1>9, MadeMaps DEF InsertEdge, DeleteNode, MapsOK
  <1>10. CASE Restart
    BY <1>10, MadeMaps DEF Restart, MapsOK
  <1>11. CASE UNCHANGED vars
    BY <1>1, <1>11 DEF vars, graphVars
  <1>. QED
    BY <1>1, <1>2, <1>3, <1>4, <1>5, <1>6, <1>7, <1>8, <1>9, <1>10, <1>11 DEF Next

LEMMA NothingMovedOK ==
    ASSUME CallOK, UNCHANGED <<graphVars, files, engineVars, call>>
    PROVE  CallOK'
  <1>1. UNCHANGED <<nodes, edges, nextNodeID, nextEdgeID, files, csvFile, loadedNodes, call>>
    BY DEF graphVars, engineVars
  <1>2. UNCHANGED <<NodeLines, EdgeLines, Importing, Exporting>>
    BY <1>1 DEF NodeLines, EdgeLines, Importing, Exporting
  <1>. QED  BY <1>1, <1>2 DEF CallOK

LEMMA ReadStep == ReadInv /\ [Next]_vars => ReadInv'
  <1>. SUFFICES ASSUME ReadInv, [Next]_vars
                PROVE  ReadInv'
    OBVIOUS
  <1>1. SessionInv' /\ MapsOK'
    BY SessionNext, MapsStep DEF ReadInv
  <1>2. ASSUME Idle /\ call' = call
        PROVE  CallOK'
    BY <1>2, ReturnedOK DEF Idle
  <1>3. ASSUME NEW reply, Return(reply)
        PROVE  CallOK'
    BY <1>3, CallMoves, ReturnedOK
  <1>4. ASSUME NEW path \in Paths, importCSV(path) \/ exportCSV(path)
        PROVE  CallOK'
    BY <1>4, ImportCalledOK, ExportCalledOK
  <1>5. ASSUME NEW path \in Paths, FlushTo(path) \/ LoadFrom(path)
        PROVE  CallOK'
    BY <1>2, <1>5 DEF FlushTo, SaveTo, LoadFrom, LoadOf
  <1>6. ASSUME ImportNode \/ ImportNodesEnd \/ ImportEdge \/ ImportBlankLine
        PROVE  CallOK'
    BY <1>6, ImportNodeOK, ImportNodesEndOK, ImportEdgeOK, ImportBlankLineOK
  <1>7. ASSUME ImportBadLine \/ ImportEnd \/ ExportEnd
        PROVE  CallOK'
    BY <1>3, <1>7 DEF ImportBadLine, ImportEnd, ExportEnd
  <1>8. ASSUME ExportNodes \/ ExportEdges
        PROVE  CallOK'
    BY <1>8, ExportNodesOK, ExportEdgesOK
  <1>9. ASSUME NEW c \in Clients, flush(c) \/ loadLive(c)
        PROVE  CallOK'
    BY <1>2, <1>9 DEF flush, SaveTo, loadLive, LoadOf
  <1>10. ASSUME NEW c \in Clients, TestStorage(c, "flush") \/ TestStorage(c, "load")
         PROVE  CallOK'
    BY <1>10, NothingMovedOK DEF ReadInv, TestStorage
  <1>11. ASSUME NEW row \in Rows, InsertNode(row)
         PROVE  CallOK'
    BY <1>2, <1>11 DEF InsertNode
  <1>12. ASSUME NEW m \in DOMAIN nodes, NEW n \in DOMAIN nodes, InsertEdge(m, n) \/ DeleteNode(n)
         PROVE  CallOK'
    BY <1>2, <1>12 DEF InsertEdge, DeleteNode
  <1>13. ASSUME Restart
         PROVE  CallOK'
    BY <1>3, <1>13 DEF Restart
  <1>14. ASSUME UNCHANGED vars
         PROVE  CallOK'
    BY <1>14, NothingMovedOK DEF ReadInv, vars
  <1>15. CallOK'
    BY <1>4, <1>5, <1>6, <1>7, <1>8, <1>9, <1>10, <1>11, <1>12, <1>13, <1>14 DEF Next
  <1>. QED  BY <1>1, <1>15 DEF ReadInv

\* At every step of a CSV command: the nodes and edges an import has created so far
\* are what the lines read so far say, and the lines an export has written are the
\* graph's, whatever happened to graph, files and stream before.
THEOREM ReadInvariance == Spec => []ReadInv
  <1>1. ASSUME Init
        PROVE  ReadInv
    <2>1. MapsOK
      BY <1>1, MadeMaps DEF Init, MapsOK
    <2>2. CallOK
      BY <1>1 DEF Init, CallOK, Importing, Exporting
    <2>. QED  BY <1>1, <2>1, <2>2, SessionInit DEF ReadInv
  <1>. QED  BY <1>1, ReadStep, PTL DEF Spec

-----------------------------------------------------------------------------
\* What a file that has been read says

LEMMA Added ==
    ASSUME NEW new, NEW old, NEW first, NEW count, Continues(new, old, first, count)
    PROVE  LET added == Without(new, DOMAIN old)
           IN  /\ Restrict(new, DOMAIN old) = old
               /\ DOMAIN added = first .. first + count - 1
               /\ \A x \in DOMAIN added : added[x] = new[x]
  <1>. DEFINE added == Without(new, DOMAIN old)
  <1>1. /\ first \in Nat \ {0} /\ count \in Nat /\ DOMAIN old \subseteq 1 .. first - 1 /\ IsMap(old)
        /\ DOMAIN new = DOMAIN old \cup (first .. first + count - 1)
        /\ \A x \in DOMAIN old : new[x] = old[x]
    BY DEF Continues
  <1>2. Restrict(new, DOMAIN old) = old
    BY <1>1 DEF Restrict, IsMap
  <1>3. DOMAIN added = DOMAIN new \ DOMAIN old /\ \A x \in DOMAIN added : added[x] = new[x]
    BY DEF Without, Restrict
  <1>4. \A x \in first .. first + count - 1 : x \notin DOMAIN old
    BY <1>1
  <1>. HIDE DEF added
  <1>. QED  BY <1>1, <1>2, <1>3, <1>4 DEF added

LEMMA PlacesFinite ==
    ASSUME NEW lines \in Seq(CsvLine)
    PROVE  LET places == EdgePlaces(lines)
           IN  /\ places \in SUBSET (1 .. Len(lines)) /\ IsFiniteSet(places) /\ places \in SUBSET Nat
               /\ Cardinality(places) \in Nat
  <1>1. Len(lines) \in Nat /\ DOMAIN lines = 1 .. Len(lines)
    OBVIOUS
  <1>2. EdgePlaces(lines) \in SUBSET (1 .. Len(lines)) /\ EdgePlaces(lines) \in SUBSET Nat
    BY <1>1 DEF EdgePlaces
  <1>3. IsFiniteSet(1 .. Len(lines))
    BY <1>1, FS_Interval
  <1>4. IsFiniteSet(EdgePlaces(lines))
    BY <1>2, <1>3, FS_Subset
  <1>5. Cardinality(EdgePlaces(lines)) \in Nat
    BY <1>4, FS_CardinalityType
  <1>. QED  BY <1>2, <1>4, <1>5

LEMMA BlockOfPlaces ==
    ASSUME NEW lines \in Seq(CsvLine)
    PROVE  LET places == EdgePlaces(lines)
           IN  /\ DOMAIN EdgeBlock(lines) = 1 .. Cardinality(places)
               /\ \A p \in places : Position(places, p) \in 1 .. Cardinality(places)
               /\ \A p \in places : EdgeBlock(lines)[Position(places, p)] = lines[p]
  <1>. DEFINE places == EdgePlaces(lines)
              rows == Restrict(lines, places)
  <1>1. places \in SUBSET (1 .. Len(lines)) /\ Len(lines) \in Nat
    BY PlacesFinite
  <1>2. DOMAIN rows = places /\ \A p \in places : rows[p] = lines[p]
    BY DEF Restrict
  <1>3. EdgeBlock(lines) = InOrder(rows)
    BY DEF EdgeBlock
  <1>. HIDE DEF places, rows
  <1>4. /\ DOMAIN InOrder(rows) = 1 .. Cardinality(places)
        /\ \A p \in places : Position(places, p) \in 1 .. Cardinality(places)
    BY <1>1, <1>2, InOrderTakes
  <1>5. \A p \in DOMAIN rows : InOrder(rows)[Position(DOMAIN rows, p)] = rows[p]
    BY <1>1, <1>2, TakenInOrder
  <1>. QED  BY <1>2, <1>3, <1>4, <1>5 DEF places

\* The lines read so far come first.
LEMMA PlacesPrefix ==
    ASSUME NEW lines \in Seq(CsvLine), NEW next \in Nat
    PROVE  LET read == PlacesRead(lines, next)
               places == EdgePlaces(lines)
               c == Cardinality(read)
           IN  /\ c \in Nat /\ c <= Cardinality(places)
               /\ \A p \in read : p \in places /\ Position(places, p) = Position(read, p)
               /\ \A p \in places : p \notin read => Position(places, p) > c
               /\ \A i \in 1 .. c : \E p \in read : Position(read, p) = i
               /\ \A p \in read : Position(read, p) \in 1 .. c
  <1>. DEFINE read == PlacesRead(lines, next)
              places == EdgePlaces(lines)
              c == Cardinality(read)
  <1>1. places \in SUBSET Nat /\ IsFiniteSet(places)
    BY PlacesFinite
  <1>2. /\ \A p \in read : p \in places /\ p < next /\ p \in Nat
        /\ \A p \in places : (p < next => p \in read) /\ p \in Nat
    BY <1>1 DEF PlacesRead
  <1>. HIDE DEF read, places
  <1>3. read \in SUBSET places /\ read \in SUBSET Nat
    BY <1>1, <1>2
  <1>4. IsFiniteSet(read) /\ c <= Cardinality(places) /\ c \in Nat
    BY <1>1, <1>3, FS_Subset, FS_CardinalityType
  <1>5. ASSUME NEW p \in read
        PROVE  Position(places, p) = Position(read, p)
    <2>1. \A y \in places : y <= p => y \in read
      BY <1>2, <1>5
    <2>2. {y \in places : y <= p} = {y \in read : y <= p}
      BY <1>3, <2>1
    <2>. QED  BY <2>2 DEF Position
  <1>6. ASSUME NEW p \in places, p \notin read
        PROVE  Position(places, p) > c
    <2>. DEFINE below == {y \in places : y <= p}
    <2>1. \A y \in read : y <= p
      BY <1>2, <1>6
    <2>2. p <= p
      BY <1>1, <1>6
    <2>3. read \cup {p} \subseteq below
      BY <1>3, <1>6, <2>1, <2>2
    <2>4. IsFiniteSet(below)
      BY <1>1, FS_Subset
    <2>5. Cardinality(read \cup {p}) = c + 1
      BY <1>4, <1>6, FS_AddElement
    <2>6. Cardinality(read \cup {p}) <= Cardinality(below) /\ Cardinality(below) \in Nat
      BY <2>3, <2>4, FS_Subset, FS_CardinalityType
    <2>7. Position(places, p) = Cardinality(below)
      BY DEF Position
    <2>. HIDE DEF below, c
    <2>. QED  BY <1>4, <2>5, <2>6, <2>7
  <1>7. ASSUME NEW i \in 1 .. c
        PROVE  \E p \in read : Position(read, p) = i
    <2>1. read \in SUBSET Nat /\ IsFiniteSet(read) /\ i \in 1 .. Cardinality(read)
      BY <1>3, <1>4
    <2>. HIDE DEF c
    <2>2. \E x \in read : /\ Cardinality({y \in read : y <= x}) = i
                         /\ \A z \in read : Cardinality({y \in read : y <= z}) = i => z = x
      BY <2>1, RanksTaken
    <2>. QED  BY <2>2 DEF Position
  <1>8. \A p \in read : Position(read, p) \in 1 .. c
    BY <1>3, <1>4, RankBounds DEF Position
  <1>. QED  BY <1>2, <1>4, <1>5, <1>6, <1>7, <1>8 DEF read, places

\* The edges are the good lines when there is no line left, or the next one is bad.
BadLine(line, count) == IsEdgeLine(line) => ~({line.from, line.to} \subseteq 0 .. count - 1)

LEMMA GoodLines ==
    ASSUME NEW lines \in Seq(CsvLine), NEW fn, NEW fe, NEW rows, NEW links, NEW loaded \in Seq(Nat),
           NEW next \in Nat, NEW n, NEW m,
           ImportOK(lines, "importEdges", fn, fe, rows, links, loaded, next, n, m),
           \/ next > Len(lines)
           \/ next \in 1 .. Len(lines) /\ lines[next] # Blank /\ BadLine(lines[next], Len(loaded))
    PROVE  /\ BadLines(lines) = {} <=> next > Len(lines)
           /\ {i \in DOMAIN EdgeBlock(lines) : \A j \in BadLines(lines) : i < j}
                = 1 .. Cardinality(PlacesRead(lines, next))
  <1>. DEFINE read == PlacesRead(lines, next)
              places == EdgePlaces(lines)
              c == Cardinality(read)
              d == Cardinality(places)
              bad == BadLines(lines)
              good == {i \in DOMAIN EdgeBlock(lines) : \A j \in bad : i < j}
  <1>1. /\ c \in Nat /\ c <= d
        /\ \A p \in read : p \in places /\ Position(places, p) = Position(read, p)
        /\ \A p \in places : p \notin read => Position(places, p) > c
        /\ \A i \in 1 .. c : \E p \in read : Position(read, p) = i
    BY PlacesPrefix
  <1>2. /\ DOMAIN EdgeBlock(lines) = 1 .. d
        /\ \A p \in places : Position(places, p) \in 1 .. d
        /\ \A p \in places : EdgeBlock(lines)[Position(places, p)] = lines[p]
    BY BlockOfPlaces
  <1>3. places \in SUBSET (1 .. Len(lines)) /\ d \in Nat /\ Len(lines) \in Nat
    BY PlacesFinite
  <1>4. Len(loaded) = Len(NodeBlock(lines)) /\ \A p \in read : ~BadLine(lines[p], Len(loaded))
    BY DEF ImportOK, EdgesRead, EdgeRead, BadLine
  <1>5. \A i \in 1 .. d : i \in bad <=> BadLine(EdgeBlock(lines)[i], Len(loaded))
    BY <1>2, <1>4 DEF BadLines, BadLine
  <1>6. bad \in SUBSET (1 .. d)
    BY <1>2 DEF BadLines
  <1>7. \A p \in places : p \in read <=> p < next
    BY DEF PlacesRead
  <1>8. next \in 1 .. Len(lines) /\ lines[next] # Blank => next \in places
    BY EdgeLineNext
  <1>. HIDE DEF read, places, c, d, bad
  <1>9. \A i \in 1 .. c : i \notin bad
    <2>1. ASSUME NEW i \in 1 .. c
          PROVE  i \notin bad
      <3>1. PICK p \in read : Position(read, p) = i
        BY <1>1, <2>1
      <3>2. i \in 1 .. d /\ EdgeBlock(lines)[i] = lines[p]
        BY <1>1, <1>2, <3>1
      <3>. QED  BY <1>4, <1>5, <3>1, <3>2
    <2>. QED  BY <2>1
  <1>10. \A j \in bad : j \in Nat /\ j > c
    BY <1>1, <1>3, <1>6, <1>9
  <1>11. CASE next > Len(lines)
    <2>1. \A i \in 1 .. d : i \in 1 .. c
      <3>1. places \subseteq read
        BY <1>3, <1>7, <1>11
      <3>2. read = places
        BY <1>1, <3>1
      <3>. QED  BY <3>2 DEF c, d
    <2>2. bad = {}
      BY <1>6, <1>9, <2>1
    <2>3. 1 .. d = 1 .. c
      BY <1>1, <1>3, <2>1
    <2>. QED  BY <1>2, <1>11, <2>2, <2>3 DEF bad, c, read
  <1>12. CASE next \in 1 .. Len(lines) /\ lines[next] # Blank /\ BadLine(lines[next], Len(loaded))
    <2>1. next \in places /\ next \notin read
      BY <1>7, <1>8, <1>12
    <2>2. Position(places, next) = c + 1
      <3>1. PlacesRead(lines, next + 1) = read \cup {next} /\ Position(PlacesRead(lines, next + 1), next) = c + 1
        BY <2>1, PlacesMove DEF read, places, c
      <3>2. next + 1 \in Nat /\ next \in PlacesRead(lines, next + 1)
        BY <3>1
      <3>3. Position(places, next) = Position(PlacesRead(lines, next + 1), next)
        BY <3>2, PlacesPrefix DEF places
      <3>. QED  BY <3>1, <3>3
    <2>3. c + 1 \in 1 .. d /\ EdgeBlock(lines)[c + 1] = lines[next]
      BY <1>2, <2>1, <2>2
    <2>4. c + 1 \in bad
      BY <1>5, <1>12, <2>3
    <2>5. \A i \in 1 .. d : (\A j \in bad : i < j) <=> i \in 1 .. c
      <3>1. ASSUME NEW i \in 1 .. d
            PROVE  (\A j \in bad : i < j) <=> i \in 1 .. c
        <4>1. i \in Nat /\ i >= 1
          BY <1>3
        <4>2. i < c + 1 <=> i <= c
          BY <1>1, <4>1
        <4>3. \A j \in bad : i <= c => i < j
          BY <1>1, <1>10, <4>1
        <4>. QED  BY <1>1, <2>4, <4>1, <4>2, <4>3
      <3>. QED  BY <3>1
    <2>6. good = 1 .. c
      <3>1. \A i \in 1 .. c : i \in 1 .. d
        BY <1>1, <1>3
      <3>. QED  BY <1>2, <2>5, <3>1
    <2>7. ~(next > Len(lines)) /\ bad # {}
      BY <1>3, <1>12, <2>4
    <2>. QED  BY <2>6, <2>7 DEF bad, c, read
  <1>. QED  BY <1>11, <1>12

LEMMA EdgeLineShape ==
    ASSUME NEW line \in CsvLine, IsEdgeLine(line)
    PROVE  line.from \in Nat /\ line.to \in Nat /\ line = EdgeLine(line.from, line.to)
  BY LineKinds DEF CsvLine, IsEdgeLine, EdgeLine

LEMMA ImportDone ==
    ASSUME NEW lines \in Seq(CsvLine), NEW fn, NEW fe, NEW rows, NEW links, NEW loaded \in Seq(Nat),
           NEW next \in Nat, NEW n \in Nat, NEW m \in Nat,
           ImportOK(lines, "importEdges", fn, fe, rows, links, loaded, next, n, m),
           \/ next > Len(lines)
           \/ next \in 1 .. Len(lines) /\ lines[next] # Blank /\ BadLine(lines[next], Len(loaded))
    PROVE  ImportedFrom(lines, fn, fe, rows, links)
  <1>. DEFINE block == NodeBlock(lines)
              places == EdgePlaces(lines)
              read == PlacesRead(lines, next)
              good == {i \in DOMAIN EdgeBlock(lines) : \A j \in BadLines(lines) : i < j}
              k == Len(loaded)
              c == Cardinality(read)
              f == n - k
              e == m - c
              addedNodes == Without(rows, DOMAIN fn)
              addedEdges == Without(links, DOMAIN fe)
              index(x) == Position(DOMAIN addedNodes, x) - 1
  <1>1. k \in Nat /\ k = Len(block) /\ Continues(rows, fn, f, k)
        /\ \A i \in 1 .. k : loaded[i] = f + i - 1 /\ rows[f + i - 1] = ReadRow(lines[i])
    BY DEF ImportOK, NodesRead
  <1>2. /\ Continues(links, fe, e, c)
        /\ \A p \in read : EdgeRead(lines[p], links[e + Position(read, p) - 1], loaded)
    BY DEF ImportOK, EdgesRead
  <1>3. good = 1 .. c
    BY GoodLines
  <1>4. DOMAIN block = 1 .. k /\ \A i \in 1 .. k : block[i] = lines[i]
    BY <1>1, FirstBlank
  <1>5. /\ Restrict(rows, DOMAIN fn) = fn /\ DOMAIN addedNodes = f .. f + k - 1
        /\ \A x \in DOMAIN addedNodes : addedNodes[x] = rows[x]
    BY <1>1, Added
  <1>6. /\ Restrict(links, DOMAIN fe) = fe /\ DOMAIN addedEdges = e .. e + c - 1
        /\ \A x \in DOMAIN addedEdges : addedEdges[x] = links[x]
    BY <1>2, Added
  <1>7. f \in Nat \ {0} /\ e \in Nat \ {0} /\ c \in Nat
    BY <1>1, <1>2 DEF Continues
  <1>8. /\ c \in Nat
        /\ \A i \in 1 .. c : \E p \in read : Position(read, p) = i
        /\ \A p \in read : p \in places /\ Position(places, p) = Position(read, p)
    BY PlacesPrefix
  <1>9. \A p \in places : EdgeBlock(lines)[Position(places, p)] = lines[p]
    BY BlockOfPlaces
  <1>10. places \in SUBSET (1 .. Len(lines))
    BY PlacesFinite
  <1>. HIDE DEF block, places, read, good, k, c, f, e, addedNodes, addedEdges
  <1>11. /\ \A i \in 1 .. k : f + i - 1 \in DOMAIN addedNodes /\ Position(DOMAIN addedNodes, f + i - 1) = i
         /\ DOMAIN InOrder(addedNodes) = 1 .. k /\ \A i \in 1 .. k : InOrder(addedNodes)[i] = addedNodes[f + i - 1]
    <2>1. Gapless(addedNodes, f, k)
      BY <1>1, <1>5, <1>7, IntervalInOrder
    <2>. QED  BY <2>1 DEF Gapless
  <1>12. /\ Cardinality(DOMAIN addedEdges) = c
         /\ \A i \in 1 .. c : e + i - 1 \in DOMAIN addedEdges
         /\ \A i \in 1 .. c : InOrder(addedEdges)[i] = addedEdges[e + i - 1]
    <2>1. Gapless(addedEdges, e, c)
      BY <1>6, <1>7, IntervalInOrder
    <2>. QED  BY <2>1 DEF Gapless
  <1>13. InOrder(addedNodes) = [i \in DOMAIN block |-> ReadRow(block[i])]
    <2>1. \A i \in 1 .. k : addedNodes[f + i - 1] = ReadRow(block[i])
      BY <1>1, <1>4, <1>5, <1>11
    <2>2. IsMap(InOrder(addedNodes))
      BY MadeMaps
    <2>. QED  BY <1>4, <1>11, <2>1, <2>2 DEF IsMap
  <1>14. Cardinality(good) = Cardinality(DOMAIN addedEdges)
    BY <1>3, <1>7, <1>12, FS_Interval
  <1>15. ASSUME NEW i \in good
         PROVE  EdgeBlock(lines)[i] = EdgeLine(index(InOrder(addedEdges)[i].from), index(InOrder(addedEdges)[i].to))
    <2>. DEFINE edge == InOrder(addedEdges)[i]
    <2>1. PICK p \in read : Position(read, p) = i
      BY <1>3, <1>8, <1>15
    <2>. DEFINE line == lines[p]
    <2>2. EdgeBlock(lines)[i] = line /\ line \in CsvLine
      <3>1. p \in places /\ Position(places, p) = i
        BY <1>8, <2>1
      <3>2. EdgeBlock(lines)[Position(places, p)] = line
        BY <1>9, <3>1
      <3>3. p \in 1 .. Len(lines)
        BY <1>10, <3>1
      <3>. QED  BY <3>1, <3>2, <3>3
    <2>3. edge = links[e + i - 1]
      BY <1>3, <1>6, <1>12, <1>15
    <2>4. EdgeRead(line, edge, loaded)
      BY <1>2, <2>1, <2>3
    <2>. HIDE DEF line, edge
    <2>5. /\ IsEdgeLine(line) /\ {line.from, line.to} \subseteq 0 .. k - 1
          /\ edge = [from |-> loaded[line.from + 1], to |-> loaded[line.to + 1]]
      BY <2>4 DEF EdgeRead, k
    <2>6. line.from \in Nat /\ line.to \in Nat /\ line = EdgeLine(line.from, line.to)
      BY <2>2, <2>5, EdgeLineShape
    <2>7. \A j \in 0 .. k - 1 : Position(DOMAIN addedNodes, loaded[j + 1]) = j + 1
      <3>1. \A j \in 0 .. k - 1 : j + 1 \in 1 .. k
        BY <1>1
      <3>. QED  BY <1>1, <1>11, <3>1
    <2>8. \A j \in 0 .. k - 1 : index(loaded[j + 1]) = j
      <3>1. \A j \in 0 .. k - 1 : j + 1 - 1 = j
        BY <1>1
      <3>. QED  BY <2>7, <3>1
    <2>. HIDE DEF index
    <2>9. index(edge.from) = line.from /\ index(edge.to) = line.to
      BY <2>5, <2>8
    <2>. QED  BY <2>2, <2>6, <2>9 DEF edge
  <1>. QED
    BY <1>5, <1>6, <1>13, <1>14, <1>15 DEF ImportedFrom, block, good, addedNodes, addedEdges

-----------------------------------------------------------------------------
\* The steps a CSV command returns with

LEMMA ReturningStep ==
    ASSUME ReadInv, [Next]_vars, call.at # "returned", call'.at = "returned", call'.reply # "none"
    PROVE  \/ ImportBadLine \/ ImportEnd \/ ExportEnd
           \/ (ExportNodes \/ ExportEdges) /\ Return("failed")
  <1>1. ~Idle /\ CallRecord(call)
    BY DEF Idle, ReadInv, CallOK
  <1>2. ASSUME NEW step, Goto(step)
        PROVE  step = "returned"
    BY <1>1, <1>2, CallMoves
  <1>3. call' # call
    OBVIOUS
  <1>4. ASSUME NEW lines, NEW next, Write(lines, next), next # "returned"
        PROVE  Return("failed")
    BY <1>2, <1>4 DEF Write
  <1>5. \A path : ~(importCSV(path) \/ exportCSV(path) \/ FlushTo(path) \/ LoadFrom(path))
    BY <1>1 DEF importCSV, exportCSV, FlushTo, LoadFrom
  <1>6. \A c : ~(flush(c) \/ loadLive(c) \/ TestStorage(c, "flush") \/ TestStorage(c, "load"))
    BY <1>1, <1>3 DEF flush, loadLive, TestStorage
  <1>7. /\ \A row : ~InsertNode(row)
        /\ \A x, y : ~InsertEdge(x, y)
        /\ \A x : ~DeleteNode(x)
    BY <1>1 DEF InsertNode, InsertEdge, DeleteNode
  <1>8. ~(ImportNode \/ ImportNodesEnd \/ ImportEdge \/ ImportBlankLine)
    BY <1>2, <1>3 DEF ImportNode, ImportNodesEnd, ImportEdge, ImportBlankLine
  <1>9. ExportNodes \/ ExportEdges => Return("failed")
    BY <1>4 DEF ExportNodes, ExportEdges
  <1>10. ~Restart
    BY CallMoves DEF Restart
  <1>11. ~UNCHANGED vars
    BY <1>3 DEF vars
  <1>. QED  BY <1>5, <1>6, <1>7, <1>8, <1>9, <1>10, <1>11 DEF Next

LEMMA ImportReturned ==
    ASSUME ReadInv, [Next]_vars, Returns("importNodes"), ~call.foundOpen
    PROVE  LET lines == Lines(files[call.path])
           IN  /\ ImportedFrom(lines, call.foundNodes, call.foundEdges, nodes', edges')
               /\ (call'.reply = "succeeded") <=> (BadLines(lines) = {})
  <1>. DEFINE lines == Lines(files[call.path])
              next == csvFile.next
  <1>1. call.at # "returned" /\ call.op = "importNodes" /\ call'.at = "returned" /\ call'.reply # "none"
    BY DEF Returns
  <1>2. ImportBadLine \/ ImportEnd
    <2>1. call.op = "exportNodes" \/ ~(ExportNodes \/ ExportEdges \/ ExportEnd)
      BY DEF ReadInv, CallOK, Exporting, ExportNodes, ExportEdges, ExportEnd
    <2>. QED  BY <1>1, <2>1, ReturningStep
  <1>3. call.at = "importEdges" /\ UNCHANGED <<nodes, edges>>
    BY <1>2 DEF ImportBadLine, ImportEnd, graphVars
  <1>4. /\ csvFile.good /\ csvFile.path = call.path /\ next \in Nat
        /\ lines \in Seq(CsvLine) /\ loadedNodes \in Seq(Nat) /\ nextNodeID \in Nat /\ nextEdgeID \in Nat
        /\ ImportOK(lines, "importEdges", call.foundNodes, call.foundEdges, nodes, edges,
                    loadedNodes, next, nextNodeID, nextEdgeID)
    BY <1>3, ImportState DEF Importing
  <1>5. CASE ImportBadLine
    <2>1. ~AtEnd /\ Line # Blank /\ BadLine(Line, Len(loadedNodes))
      BY <1>5 DEF ImportBadLine, BadLine
    <2>2. Return("failed") \/ Return("exception")
      BY <1>5 DEF ImportBadLine
    <2>3. call'.reply # "succeeded"
      BY <2>2, CallMoves
    <2>4. next \in 1 .. Len(lines) /\ Line = lines[next]
      BY <1>3, <2>1, EdgeLineState
    <2>5. ~(next > Len(lines))
      BY <1>4, <2>4
    <2>. HIDE DEF lines, next
    <2>6. ImportedFrom(lines, call.foundNodes, call.foundEdges, nodes, edges)
      BY <1>4, <2>1, <2>4, ImportDone
    <2>7. BadLines(lines) # {}
      BY <1>4, <2>1, <2>4, <2>5, GoodLines
    <2>. QED  BY <1>3, <2>3, <2>6, <2>7 DEF lines
  <1>6. CASE ImportEnd
    <2>1. AtEnd /\ Return("succeeded")
      BY <1>6 DEF ImportEnd
    <2>2. call'.reply = "succeeded"
      BY <2>1, CallMoves
    <2>3. next > Len(lines)
      BY <1>4, <2>1 DEF AtEnd
    <2>. HIDE DEF lines, next
    <2>4. ImportedFrom(lines, call.foundNodes, call.foundEdges, nodes, edges)
      BY <1>4, <2>3, ImportDone
    <2>5. BadLines(lines) = {}
      BY <1>4, <2>3, GoodLines
    <2>. QED  BY <1>3, <2>2, <2>4, <2>5 DEF lines
  <1>. QED  BY <1>2, <1>5, <1>6

\* An import that finds the stream closed creates what its file says, also between
\* the ids of a graph that has grown and shrunk before, and reports success exactly
\* if the file has no bad line, for files of any length.
THEOREM ImportCorrect == Spec => ImportAsWritten
  <1>1. ReadInv /\ [Next]_vars =>
          [Returns("importNodes") /\ ~call.foundOpen =>
             LET lines == Lines(files[call.path])
             IN  /\ ImportedFrom(lines, call.foundNodes, call.foundEdges, nodes', edges')
                 /\ (call'.reply = "succeeded") <=> (BadLines(lines) = {})]_vars
    BY ImportReturned
  <1>. QED  BY <1>1, ReadInvariance, PTL DEF Spec, ImportAsWritten

LEMMA PlainLine ==
    ASSUME NEW row \in PlainRows
    PROVE  NodeLine(row) # Blank
  <1>1. row # ""
    BY Zenon DEF PlainRows
  <1>2. \A a, b : NodeLine(a) = NodeLine(b) => a = b
    <2>1. ASSUME NEW a, NEW b, NodeLine(a) = NodeLine(b)
          PROVE  a = b
      <3>1. NodeLine(a).row = a /\ NodeLine(b).row = b
        BY DEF NodeLine
      <3>. QED  BY <2>1, <3>1
    <2>. QED  BY <2>1
  <1>. QED  BY <1>1, <1>2, Zenon DEF Blank

LEMMA NodeBlockSeq ==
    ASSUME NEW lines \in Seq(CsvLine)
    PROVE  NodeBlock(lines) \in Seq(CsvLine)
  <1>. DEFINE b == Len(NodeBlock(lines))
              blanks == {i \in DOMAIN lines : lines[i] = Blank}
              last == (CHOOSE i \in blanks : \A j \in blanks : i <= j) - 1
  <1>1. b \in 0 .. Len(lines) /\ Len(lines) \in Nat /\ DOMAIN NodeBlock(lines) = 1 .. b
        /\ \A i \in 1 .. b : NodeBlock(lines)[i] = lines[i]
    BY FirstBlank
  <1>2. NodeBlock(lines) = lines \/ NodeBlock(lines) = SubSeq(lines, 1, last)
    BY DEF NodeBlock
  <1>3. IsMap(NodeBlock(lines))
    <2>. HIDE DEF last
    <2>. QED  BY <1>2 DEF IsMap
  <1>. HIDE DEF b
  <1>4. \A i \in 1 .. b : NodeBlock(lines)[i] \in CsvLine
    BY <1>1
  <1>5. NodeBlock(lines) \in [1 .. b -> CsvLine] /\ b \in Nat
    BY <1>1, <1>3, <1>4 DEF IsMap
  <1>. QED  BY <1>5

\* The blocks of a file that has been written in full.
TwoBlocks(lines, rows, links) ==
    /\ lines \in Seq(CsvLine) /\ NodeBlock(lines) = rows
    /\ DOMAIN EdgeBlock(lines) = DOMAIN links
    /\ \A j \in DOMAIN links : EdgeBlock(lines)[j] = links[j]

LEMMA BlocksWritten ==
    ASSUME NEW rows \in Seq(CsvLine), NEW links \in Seq(CsvLine),
           \A i \in DOMAIN rows : rows[i] # Blank,
           \A i \in DOMAIN links : links[i] # Blank
    PROVE  TwoBlocks(Append(rows, Blank) \o links, rows, links)
  <1>. DEFINE lines == Append(rows, Blank) \o links
              k == Len(rows)
              m == Len(links)
              b == Len(NodeBlock(lines))
              places == EdgePlaces(lines)
              taken == Restrict(lines, places)
  <1>1. /\ Blank \in CsvLine /\ k \in Nat /\ m \in Nat /\ DOMAIN rows = 1 .. k /\ DOMAIN links = 1 .. m
    BY LineKinds
  <1>2. /\ Append(rows, Blank) \in Seq(CsvLine) /\ Len(Append(rows, Blank)) = k + 1
        /\ \A i \in 1 .. k : Append(rows, Blank)[i] = rows[i]
        /\ Append(rows, Blank)[k + 1] = Blank
    BY <1>1
  <1>3. /\ lines \in Seq(CsvLine) /\ Len(lines) = k + 1 + m /\ DOMAIN lines = 1 .. k + 1 + m
        /\ \A i \in 1 .. k : lines[i] = rows[i]
        /\ lines[k + 1] = Blank
        /\ \A j \in 1 .. m : lines[k + 1 + j] = links[j]
    <2>. DEFINE block == Append(rows, Blank)
    <2>. HIDE DEF block
    <2>1. /\ block \o links \in Seq(CsvLine) /\ Len(block \o links) = k + 1 + m
          /\ \A i \in 1 .. k + 1 : (block \o links)[i] = block[i]
          /\ \A j \in 1 .. m : (block \o links)[k + 1 + j] = links[j]
      BY <1>1, <1>2 DEF block
    <2>2. k + 1 + m \in Nat /\ k + 1 \in 1 .. k + 1 /\ \A i \in 1 .. k : i \in 1 .. k + 1
      BY <1>1
    <2>3. DOMAIN (block \o links) = 1 .. k + 1 + m
      BY <2>1
    <2>. QED  BY <1>2, <2>1, <2>2, <2>3 DEF block
  <1>. HIDE DEF lines
  <1>4. /\ b \in 0 .. Len(lines) /\ DOMAIN NodeBlock(lines) = 1 .. b
        /\ \A i \in 1 .. b : lines[i] # Blank /\ NodeBlock(lines)[i] = lines[i]
        /\ b < Len(lines) => lines[b + 1] = Blank
    BY <1>3, FirstBlank
  <1>. HIDE DEF k, m, b
  <1>5. b = k
    <2>1. ~(k + 1 \in 1 .. b)
      BY <1>3, <1>4
    <2>2. b <= k
      BY <1>1, <1>3, <1>4, <2>1
    <2>3. b < k => b + 1 \in 1 .. k /\ lines[b + 1] # Blank
      BY <1>1, <1>3, <1>4
    <2>4. b < Len(lines)
      BY <1>1, <1>3, <1>4, <2>2
    <2>. QED  BY <1>1, <1>4, <2>2, <2>3, <2>4
  <1>6. NodeBlock(lines) = rows
    <2>1. NodeBlock(lines) \in Seq(CsvLine) /\ Len(NodeBlock(lines)) = Len(rows)
      BY <1>3, <1>5, NodeBlockSeq DEF b, k
    <2>2. \A i \in 1 .. Len(rows) : NodeBlock(lines)[i] = rows[i]
      BY <1>3, <1>4, <1>5 DEF k
    <2>. QED  BY <2>1, <2>2, SeqEqual
  <1>7. places = (k + 2) .. (k + 2) + m - 1
    <2>1. \A i : i \in places <=> i \in 1 .. k + 1 + m /\ i > k + 1 /\ lines[i] # Blank
      BY <1>3, <1>5 DEF EdgePlaces, b
    <2>2. \A j \in 1 .. m : lines[k + 1 + j] # Blank
      BY <1>1, <1>3
    <2>3. \A i \in (k + 2) .. (k + 2) + m - 1 : i - (k + 1) \in 1 .. m /\ k + 1 + (i - (k + 1)) = i
      BY <1>1
    <2>4. \A i \in (k + 2) .. (k + 2) + m - 1 : lines[i] # Blank
      BY <2>2, <2>3
    <2>. HIDE DEF places
    <2>5. \A i \in (k + 2) .. (k + 2) + m - 1 : i \in 1 .. k + 1 + m /\ i > k + 1
      BY <1>1
    <2>6. \A i \in 1 .. k + 1 + m : i > k + 1 => i \in (k + 2) .. (k + 2) + m - 1
      BY <1>1
    <2>. QED  BY <2>1, <2>4, <2>5, <2>6
  <1>8. DOMAIN taken = places /\ \A i \in places : taken[i] = lines[i]
    BY DEF Restrict
  <1>9. EdgeBlock(lines) = InOrder(taken)
    BY DEF EdgeBlock
  <1>. HIDE DEF taken, places
  <1>10. Gapless(taken, k + 2, m)
    BY <1>1, <1>7, <1>8, IntervalInOrder
  <1>11. /\ DOMAIN InOrder(taken) = 1 .. m
         /\ \A j \in 1 .. m : InOrder(taken)[j] = taken[(k + 2) + j - 1] /\ (k + 2) + j - 1 \in DOMAIN taken
    BY <1>10 DEF Gapless
  <1>12. \A j \in 1 .. m : (k + 2) + j - 1 = k + 1 + j
    BY <1>1
  <1>13. \A j \in 1 .. m : EdgeBlock(lines)[j] = links[j]
    BY <1>3, <1>8, <1>9, <1>11, <1>12
  <1>. QED  BY <1>1, <1>3, <1>6, <1>9, <1>11, <1>13 DEF lines, TwoBlocks

LEMMA WrittenReadsBack ==
    ASSUME SessionInv, \A x \in DOMAIN nodes : nodes[x] \in PlainRows
    PROVE  LET lines == Append(NodeLines, Blank) \o EdgeLines
           IN  BadLines(lines) = {} /\ NodeBlock(lines) = NodeLines /\ EdgesReadBack(EdgeBlock(lines))
  <1>. DEFINE lines == Append(NodeLines, Blank) \o EdgeLines
              k == Cardinality(DOMAIN nodes)
              q == Cardinality(DOMAIN edges)
              rows == InOrder(edges)
              at(x) == Position(DOMAIN nodes, x)
              index(x) == at(x) - 1
  <1>1. /\ DOMAIN nodes \subseteq 1 .. MaxNodes /\ MaxNodes \in Nat
        /\ DOMAIN edges \subseteq 1 .. MaxEdges /\ MaxEdges \in Nat
        /\ \A x \in DOMAIN nodes : nodes[x] \in ReadRows
        /\ \A x \in DOMAIN edges : {edges[x].from, edges[x].to} \subseteq DOMAIN nodes
    BY SessionAssumption DEF SessionInv, LiveOK, GraphOK
  <1>2. /\ k \in Nat /\ DOMAIN InOrder(nodes) = 1 .. k
        /\ \A i \in 1 .. k : \E x \in DOMAIN nodes : InOrder(nodes)[i] = nodes[x]
        /\ \A x \in DOMAIN nodes : at(x) \in 1 .. k
    BY <1>1, InOrderTakes
  <1>3. /\ q \in Nat /\ DOMAIN rows = 1 .. q
        /\ \A j \in 1 .. q : \E x \in DOMAIN edges : rows[j] = edges[x]
    BY <1>1, InOrderTakes
  <1>4. \A x \in DOMAIN nodes : InOrder(nodes)[at(x)] = nodes[x]
    BY <1>1, TakenInOrder
  <1>5. NodeLines = [i \in 1 .. k |-> NodeLine(InOrder(nodes)[i])]
    BY <1>2 DEF NodeLines
  <1>6. EdgeLines = [j \in 1 .. q |-> EdgeLine(index(rows[j].from), index(rows[j].to))]
    BY <1>3 DEF EdgeLines
  <1>. HIDE DEF lines, k, q, rows, at
  <1>7. \A j \in 1 .. q : rows[j].from \in DOMAIN nodes /\ rows[j].to \in DOMAIN nodes
    BY <1>1, <1>3
  <1>8. \A x \in DOMAIN nodes : index(x) \in 0 .. k - 1 /\ index(x) \in Nat /\ index(x) + 1 = at(x)
    BY <1>2
  <1>. HIDE DEF index
  <1>9. NodeLines \in Seq(CsvLine) /\ DOMAIN NodeLines = 1 .. k /\ Len(NodeLines) = k
    <2>1. \A i \in 1 .. k : NodeLine(InOrder(nodes)[i]) \in CsvLine
      BY <1>1, <1>2, LineKinds
    <2>. QED  BY <1>2, <1>5, <2>1
  <1>10. \A i \in DOMAIN NodeLines : NodeLines[i] # Blank
    <2>1. \A i \in 1 .. k : InOrder(nodes)[i] \in PlainRows
      BY <1>2
    <2>2. \A i \in 1 .. k : NodeLine(InOrder(nodes)[i]) # Blank
      BY <2>1, PlainLine
    <2>. QED  BY <1>5, <1>9, <2>2
  <1>11. EdgeLines \in Seq(CsvLine) /\ DOMAIN EdgeLines = 1 .. q
    BY <1>6, EdgeLinesWritten
  <1>12. \A j \in 1 .. q : EdgeLines[j] = EdgeLine(index(rows[j].from), index(rows[j].to))
    BY <1>6
  <1>13. \A a, c : IsEdgeLine(EdgeLine(a, c)) /\ EdgeLine(a, c).from = a /\ EdgeLine(a, c).to = c
    BY DEF IsEdgeLine, EdgeLine
  <1>14. \A j \in DOMAIN EdgeLines : EdgeLines[j] # Blank
    BY <1>11, <1>12, <1>13, LineKinds
  <1>15. /\ lines \in Seq(CsvLine) /\ NodeBlock(lines) = NodeLines
         /\ DOMAIN EdgeBlock(lines) = 1 .. q
         /\ \A j \in 1 .. q : EdgeBlock(lines)[j] = EdgeLines[j]
    <2>1. TwoBlocks(lines, NodeLines, EdgeLines)
      BY <1>9, <1>10, <1>11, <1>14, BlocksWritten DEF lines
    <2>. QED  BY <1>11, <2>1 DEF TwoBlocks
  <1>16. BadLines(lines) = {}
    <2>1. ASSUME NEW j \in 1 .. q
          PROVE  j \notin BadLines(lines)
      <3>. DEFINE line == EdgeBlock(lines)[j]
      <3>1. line = EdgeLine(index(rows[j].from), index(rows[j].to))
        BY <1>12, <1>15, <2>1
      <3>2. IsEdgeLine(line) /\ {line.from, line.to} \subseteq 0 .. k - 1
        BY <1>7, <1>8, <1>13, <2>1, <3>1
      <3>3. Len(NodeBlock(lines)) = k
        BY <1>9, <1>15
      <3>. HIDE DEF line
      <3>. QED  BY <3>2, <3>3 DEF BadLines, line
    <2>2. BadLines(lines) \subseteq 1 .. q
      BY <1>15 DEF BadLines
    <2>. QED  BY <2>1, <2>2
  <1>17. EdgesReadBack(EdgeBlock(lines))
    <2>1. Len(EdgeBlock(lines)) = q
      <3>1. EdgeBlock(lines) = EdgeLines
        <4>1. IsMap(EdgeBlock(lines)) /\ IsMap(EdgeLines)
          BY <1>6, MadeMaps DEF EdgeBlock, IsMap
        <4>. QED  BY <1>11, <1>15, <4>1 DEF IsMap
      <3>. QED  BY <1>3, <1>11, <3>1
    <2>2. ASSUME NEW j \in 1 .. q
          PROVE  LET edge == rows[j]
                     line == EdgeBlock(lines)[j]
                 IN  /\ InOrder(nodes)[line.from + 1] = nodes[edge.from]
                     /\ line = EdgeLine(at(edge.from) - 1, at(edge.to) - 1)
      <3>. DEFINE edge == rows[j]
                  line == EdgeBlock(lines)[j]
      <3>1. line = EdgeLine(index(edge.from), index(edge.to))
        BY <1>12, <1>15
      <3>2. edge.from \in DOMAIN nodes
        BY <1>7
      <3>3. line.from = index(edge.from)
        BY <1>13, <3>1
      <3>4. line.from + 1 = at(edge.from)
        BY <1>8, <3>2, <3>3
      <3>5. InOrder(nodes)[line.from + 1] = nodes[edge.from]
        BY <1>4, <3>2, <3>4
      <3>. QED  BY <3>1, <3>5 DEF index
    <2>. QED  BY <1>15, <2>1, <2>2 DEF EdgesReadBack, q, rows, at
  <1>. QED  BY <1>15, <1>16, <1>17 DEF lines

LEMMA ExportReturned ==
    ASSUME ReadInv, [Next]_vars, Returns("exportNodes"), call'.reply = "succeeded", files' = files,
           \A x \in DOMAIN nodes : nodes[x] \in PlainRows
    PROVE  LET lines == Lines(files'[call.path])
           IN  BadLines(lines) = {} /\ NodeBlock(lines) = NodeLines /\ EdgesReadBack(EdgeBlock(lines))
  <1>1. call.at # "returned" /\ call.op = "exportNodes" /\ call'.at = "returned" /\ call'.reply # "none"
    BY DEF Returns
  <1>2. ~Return("failed")
    BY CallMoves
  <1>3. ~(ImportBadLine \/ ImportEnd)
    BY <1>1 DEF ReadInv, CallOK, Importing, ImportBadLine, ImportEnd
  <1>4. ExportEnd
    BY <1>1, <1>2, <1>3, ReturningStep
  <1>5. call.at = "close"
    BY <1>4 DEF ExportEnd
  <1>6. files'[call.path] = Csv(Append(NodeLines, Blank) \o EdgeLines)
    BY <1>5 DEF ReadInv, CallOK
  <1>. DEFINE lines == Append(NodeLines, Blank) \o EdgeLines
  <1>7. BadLines(lines) = {} /\ NodeBlock(lines) = NodeLines /\ EdgesReadBack(EdgeBlock(lines))
    BY WrittenReadsBack DEF ReadInv
  <1>. HIDE DEF lines
  <1>8. Lines(files'[call.path]) = lines
    BY <1>6 DEF Lines, Csv, lines
  <1>. QED  BY <1>7, <1>8

\* The file of an export that reports success reads as the graph, if closing it has lost
\* nothing: the lines of its nodes in order and, by their places, the endpoints of every
\* edge, for graphs of any size and whatever an earlier command has left the stream in.
THEOREM ExportCorrect == Spec => ExportReadsBack
  <1>1. ReadInv /\ [Next]_vars =>
          [Returns("exportNodes") /\ call'.reply = "succeeded" /\ files' = files
             /\ (\A n \in DOMAIN nodes : nodes[n] \in PlainRows) =>
             LET lines == Lines(files'[call.path])
             IN  BadLines(lines) = {} /\ NodeBlock(lines) = NodeLines /\ EdgesReadBack(EdgeBlock(lines))]_vars
    BY ExportReturned
  <1>. QED  BY <1>1, ReadInvariance, PTL DEF Spec, ExportReadsBack

=============================================================================
