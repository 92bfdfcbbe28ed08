CONSTANTS
    Labels = {a}
    PropertyKeys = {}
    PropertyValues = {1}
    ScanCap = 2
    MaxNodes = 1
    MaxEdges = 1
    MaxVersion = 3
    MaxSnapshots = 1
    NoFile = NoFile
    MaxSnapshotIds = 1
    LoadAnytime = TRUE
    LoadSnapshots = FALSE
SPECIFICATION HandlerSpec
PROPERTIES
    MutationsSpareSnapshots
