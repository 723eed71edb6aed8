CONSTANTS
    Devices = {a, b}
    Paths <- MCPaths
    Grace = 1
    MaxConflictRetries = 1
    MaxExcluded = 2
    OtherExclusions = {"other"}
    MaxClock = 1
    Beginnings <- MCBeginnings
SPECIFICATION FairSpec
INVARIANT NothingUnreachable
PROPERTY BackupsSettle
CHECK_DEADLOCK FALSE
