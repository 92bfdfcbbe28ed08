CONSTANTS
    Labels = {a}
    PropertyKeys = {}
    PropertyValues = {1}
    ScanCap = 2
    MaxNodes = 2
    MaxEdges = 1
    MaxVersion = 4
    MaxSnapshots = 2
    NoFile = NoFile
    MaxSnapshotIds = 2
    LoadAnytime = FALSE
    LoadSnapshots = FALSE
SPECIFICATION HandlerSpec
INVARIANTS
    Registrations
    SnapshotIndexesAsScan
    GraphReadWhole
PROPERTIES
    SnapshotsFrozen
    RoundTrip
