CONSTANTS
    Labels = {a}
    PropertyKeys = {}
    PropertyValues = {1}
    ScanCap = 2
    MaxNodes = 2
    MaxEdges = 2
    MaxVersion = 4
    MaxSnapshots = 0
SPECIFICATION Spec
INVARIANT TraversalSeesEveryEdge
