SPECIFICATION FairSpec
CONSTANTS
    MaxSim = 3
    MaxCalls = 2
    MaxCopies = 1
    MaxPrints = 1
    PipeCap = 2
INVARIANTS InStep StatusIsTrue
PROPERTY EverybodyExits
