CONSTANTS
    Clients = {c1}
    Paths = {p1, p2}
    Rows = {"plain", "comma"}
    NoEngine = NoEngine
    NoFile = NoFile
    UserFiles <- Broken
    MaxNodes = 2
    MaxEdges = 1
SPECIFICATION Spec
SYMMETRY Symmetry
PROPERTIES
    ImportReportsTruth
