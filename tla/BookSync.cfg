SPECIFICATION FairSpec
CONSTANTS
    Devices = {phone, laptop}
    MaxEvents = 3
    MaxConflictRetries = 1
    MaxFailures = 1
INVARIANT
    RemovedStaysRemoved
PROPERTY
    BooksSettle
