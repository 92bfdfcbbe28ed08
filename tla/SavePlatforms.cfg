CONSTANTS
    Paths = {p1, p2}
    Graphs = {empty, g1, g2}
    EmptyGraph = empty
    NoFile = NoFile
    Torn = Torn
    Platforms <- AllPlatforms
SPECIFICATION Spec
SYMMETRY Symmetry
INVARIANTS
    TypeOK
    SavedIsOnDisk
    CopyKept
    FailureKeepsTarget
PROPERTIES
    UntouchedUntilWritten
    ImplementsAtomicFile
