SPECIFICATION Spec
CONSTANTS
    Providers = {"git"}
    QuietDelay = 1
    RetryDelay = 2
    PollDelay = 2
    MaxChanges = 1
    MaxTroubles = 2
PROPERTIES NoEarlyRetry ChangesAreSent
INVARIANTS SingleFlight StatusIsBacked
