SPECIFICATION Spec
CONSTANTS
    Devices = {1, 2}
    Creator = 1
    BookRemovers = {2}
    MaxTime = 2
    MaxFailures = 1
    MaxConflictRetries = 1
INVARIANT
    AcknowledgedIsRemote
PROPERTIES
    RemoteNeverRegresses
    Convergence
