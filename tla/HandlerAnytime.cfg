CONSTANTS
    Labels = {a}
    PropertyKeys = {}
    PropertyValues = {1}
    ScanCap = 2
    MaxNodes = 2
    MaxEdges = 1
    MaxVersion = 3
    MaxSnapshots = 2
    NoFile = NoFile
    MaxSnapshotIds = 2
    LoadAnytime = TRUE
    LoadSnapshots = TRUE
SPECIFICATION HandlerSpec
INVARIANTS
    IInv
