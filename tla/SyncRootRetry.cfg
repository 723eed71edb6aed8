SPECIFICATION Spec
CONSTANTS
    Devices = {d1}
    Providers = {"github", "mega"}
    MaxFailures = 1
    MaxEdits = 1
    MaxPasses = 2
INVARIANT
    RetryAccepted
CHECK_DEADLOCK FALSE
