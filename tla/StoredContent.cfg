\* One component at a time: two devices with one pass each over the previous
\* root, or a few calls with their faults.
CONSTANTS
    c1 = c1
    c2 = c2
    d1 = d1
    d2 = d2
    doc = doc
    book = book
    note = note
    a = a
    b = b
    x = x
    y = y
    NoFile = NoFile
    Null = Null
    Unchecked = Unchecked
    Divergent = Divergent
    Devices = {d1, d2}
    Providers = {"github", "mega"}
    MaxFailures = 1
    MaxEdits = 2
    MaxPasses = 2
SPECIFICATION PartsSpec
CHECK_DEADLOCK FALSE
INVARIANTS
    MigrationIsSafe
    BytesAreSound
    DocumentsAreKept
    
PROPERTIES
    SchemaNeverFalls ArchivesAreSound
