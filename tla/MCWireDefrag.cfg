CONSTANTS
    Base = 8
    LongBytes = 4
    LittleEndian = TRUE
    MaxData = 5
    Isn <- MCIsn
    Changes <- MCChanges
    NumFrags = 3
    MaxUses <- MCMaxUses
SPECIFICATION WireSpec
INVARIANTS
    ReassembledWhole
CHECK_DEADLOCK FALSE
