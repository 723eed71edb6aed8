\* One component of the reader at a time: a book with two annotations, two
\* places and a few moves; two devices with a few saves and runs, or with one edit
\* of two preferences.
CONSTANTS
    Null = Null
    Forward = Forward
    Backward = Backward
    a1 = a1
    a2 = a2
    f1 = f1
    f2 = f2
    p1 = p1
    p2 = p2
    b1 = b1
    b2 = b2
    underline = underline
    text = text
    plain = plain
    large = large
    k1 = k1
    k2 = k2
    Devices = {1, 2}
    MaxTime = 2
    MaxPlace = 1
    MaxConflictRetries = 1
    Budgets <- SmallBudgets
SPECIFICATION PartsSpec
CHECK_DEADLOCK FALSE
INVARIANTS
    EditorIsSound
    PageIsSound
    EngineIsSound
    TurnsAreMeant
    PdfIsSound
    PreferencesKept
    PageAgrees
PROPERTY
    ProgressIsKept
