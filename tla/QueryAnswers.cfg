CONSTANTS
    Labels = {a, b}
    PropertyKeys = {k}
    PropertyValues = {1}
    ScanCap = 2
    MaxNodes = 2
    MaxEdges = 2
    MaxVersion = 4
    MaxSnapshots = 0
SYMMETRY Symmetry
SPECIFICATION Spec
INVARIANTS
    HistoryMirrorsLive
    SelectAsEvaluated
    UpdateAsScan
    SnapshotAsLive
