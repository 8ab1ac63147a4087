CONSTANTS
    Length <- MCLength
    Bad = {5}
    PageSize = 2
    MaxRecords = 4
    MaxSize = 4
    MaxSeek = 6
    MaxCalls = 4
SPECIFICATION SeqSpec
INVARIANTS
    ReadsTheText
    EofIsTheEnd
