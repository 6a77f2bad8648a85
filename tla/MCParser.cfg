SPECIFICATION Spec
CONSTANTS
    Blocks <- MCBlocks
    StoredLanes <- MCStoredLanes
    MaxLogEntries = 2
    MaxTrace = 6
    Retrack = TRUE
    MaxOpen = 1
    MaxCrashes = 1
    MaxCrashTrace = 4
    DeleteInput = TRUE
INVARIANTS
    NeverRaises
    ListsAgree
    StoresKept
    FilesExact
CHECK_DEADLOCK FALSE
