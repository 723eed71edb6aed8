SPECIFICATION Spec
CONSTANTS
    books = books
    progress = progress
    bookmarks = bookmarks
    Domains = {books, progress, bookmarks}
    ReadingDomains = {progress, bookmarks}
    Stage <- StageOrder
    Own = {1, 2}
    Others = {3}
    MaxFailures = 1
    AppendMayFail = FALSE
INVARIANT CheckpointIsMerged
PROPERTIES JournalledIsSafe Converges
