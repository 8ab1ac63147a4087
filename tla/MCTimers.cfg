SPECIFICATION FairSpec
CONSTANTS
    Timer = {t1, t2}
    ListHead = ListHead
    DelSite = {d1, d2}
    FailTest = TRUE
    Delays = {1, 2}
    HZ = 2
    LongSpan = 10
    IntSpan = 10
    MaxAdvance = 2
    MaxBack = 2
INVARIANTS ListsSound ArmingsAnswered NeverAstray
PROPERTIES BackwardsOnlyWhenTold CommandsEnd
CHECK_DEADLOCK FALSE
