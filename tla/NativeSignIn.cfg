SPECIFICATION FairSpec
CONSTANTS
    MaxAttempts = 2
    MaxPending = 1
    Ttl = 2
    HandoffTtl = 1
    MaxTime = 4
    MaxHandoffs = 3
    MaxFaults = 2
CHECK_DEADLOCK FALSE
INVARIANT RedemptionIsRight
PROPERTY AttemptEnds
