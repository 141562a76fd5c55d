\* A backup may be taken before the first push.
CONSTANTS
    a = a
    b = b
    d1 = d1
    noDevice = noDevice
    NoFile = NoFile
    NoteIds = {1, 2}
    Bodies = {a, b}
    Devices = {d1}
    BlankDevice = noDevice
    MaxTime = 2
    PushedChanges <- FewChanges
    MaxBatch = 2
    MaxRevision = 5
    BackupFiles = {f1}
    BackUpEmptyStore = TRUE
    MaxCrashes = 0
    MaxErrors = 0
    Blank = Blank
    Refused = Refused
    CategoryOf <- Categories
    FoundBy <- Searches
    TitleOf <- Titles
    IdOf <- Ids
    LowerCase <- Ascii
    Digits <- Numbers
    MaxPageSize = 200
    MaxOffset = 1000

SPECIFICATION Spec
\* The bounds on revisions, crashes and errors may leave nothing to do.
CHECK_DEADLOCK FALSE

PROPERTIES NothingBelowCursors
