CONSTANTS
    a = a
    b = b
    Devices = {a, b}
    Variants <- MCVariants
    DeviceRank <- MCDeviceRank
    BootstrapRank = 5
    DigestRank = 4
    RecoveryRank = 3
    Operations <- Reimports
    MaxChanges = 2
    WriteAttempts = 2
    Beginnings <- OneTogether

SPECIFICATION Spec

INVARIANTS
    ReimportIsSynchronized
