CONSTANTS
    NodeIds = {1, 2, 3, 4, 5}
    Links <- RingLinks
    Hops = {2}
SPECIFICATION Spec
INVARIANTS
    TypeOK
    LiveCorrect
    SnapshotCorrect
    EnginesAgree
PROPERTIES
    Answered
