SPECIFICATION Spec
CONSTANTS
    Command = {"gen_ip"}
    Expectable = {"gen_ip", "tcpsession"}
    Pattern = {"send", "any"}
    Line = {"send"}
    Matches <- MCMatches
    MaxRuns = 5
    MaxLines = 2
INVARIANTS PassMeansFulfilled FailureMeansExpected ExpectationsCleared
\* A script may end.
CHECK_DEADLOCK FALSE
