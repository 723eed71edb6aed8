CONSTANTS
    a = a
    b = b
    Devices = {a, b}
    Variants <- MCVariants
    DeviceRank <- MCDeviceRank
    BootstrapRank = 5
    DigestRank = 4
    RecoveryRank = 3
    Operations <- EditsOnA
    MaxChanges = 2
    WriteAttempts = 2
    Beginnings <- Meetings

SPECIFICATION Spec

INVARIANTS
    AcknowledgedIsMerged
    MergeKeepsOneOwner

PROPERTIES
    ReturnsOnlyKnowingly
