\* One component of the gateway at a time: two or three calls by two callers.
CONSTANTS
    Null = Null
    c1 = c1
    c2 = c2
    i1 = i1
    i2 = i2
    q1 = q1
    q2 = q2
    git = git
    mega = mega
    doc = doc
    book = book
    a = a
    b = b
    x = x
    y = y
    Absent = Absent
    Unchecked = Unchecked
    Clients = {c1, c2}
    Paths <- MCPaths
    Contents = {a, b}
    Pointers = {x, y}
    Requests <- MCRequests
    Lines = {l1}
    MaxCalls = 2
    MaxAttempts = 2
SPECIFICATION PartsSpec
SYMMETRY Symmetry
CHECK_DEADLOCK FALSE
INVARIANTS
    LfsIsSound
    GrantsAreSound
    RepliesAreTrue
    NothingIsHeld
    AuthorityIsTrue
    SettingsSettle
PROPERTIES
    StoreKept ImplementsMap
