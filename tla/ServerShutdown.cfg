CONSTANTS
    MaxCounter = 1
    NoFile = NoFile
    Torn = Torn
    Bad = Bad
    Platforms <- MCPlatforms
    Connections = {c1}
    Signals = {s1, s2}
SPECIFICATION Spec
INVARIANTS
    HandlerOutlivesThreads
