CONSTANTS
    Base = 8
    LongBytes = 4
    LittleEndian = TRUE
    MaxData = 5
    Isn <- MCIsn
    Changes <- MCChanges
    NumFrags = 3
    MaxUses <- MCMaxUses
SPECIFICATION WireSpec
INVARIANTS
    ChecksumsHold
    SessionInStep
    NothingHeldBack
CHECK_DEADLOCK FALSE
