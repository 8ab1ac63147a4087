SPECIFICATION FairSpec
CONSTANTS
    line12 = line12
    line123 = line123
    alloc_skb = alloc_skb
    Loc = {line12, alloc_skb}
    OnceLoc = {line12}
    NoReport = {line12}
    Within <- NoneWithin
    MaxLine = 1
    Suppress = {TRUE, FALSE}
    Outcomes = {"success", "scriptfail", "signal"}
    Excessive = 1
    MaxCalls = 3
INVARIANTS TypeOK EveryCombinationTried ReportedOnce FailuresCounted ReplayReproduces
PROPERTY Terminates
CHECK_DEADLOCK FALSE
