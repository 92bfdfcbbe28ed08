CONSTANTS
    Labels = {a, b}
    PropertyKeys = {}
    PropertyValues = {1}
    ScanCap = 2
    MaxNodes = 2
    MaxEdges = 2
    MaxVersion = 6
    MaxSnapshots = 1
SYMMETRY Symmetry
SPECIFICATION Spec
INVARIANTS
    TypeOK
    IndexesMatchLive
    NeighboursAreEdges
    EndpointHistoryRetained
    NoNodeGarbage
    StampsUnique
PROPERTY ImplementsSnapshotGraph
