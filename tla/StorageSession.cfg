CONSTANTS
    Clients = {c1}
    Paths = {p1}
    Rows = {"plain", ""}
    NoEngine = NoEngine
    NoFile = NoFile
    UserFiles <- Broken
    MaxNodes = 3
    MaxEdges = 1
SPECIFICATION Spec
SYMMETRY Symmetry
INVARIANTS
    TypeOK
    EngineStays
PROPERTIES
    ImportAsWritten
    ExportReadsBack
