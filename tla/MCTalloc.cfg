CONSTANTS
    NumChunks = 4
    MaxDepth = 3
    MaxCalls = 2
    MaxSteals = 1
SPECIFICATION Spec
INVARIANTS
    TreeSound
PROPERTIES
    FreedLast
    FreesEnd
CHECK_DEADLOCK FALSE
