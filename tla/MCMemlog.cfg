SPECIFICATION MCSpec
CONSTANTS
    Payloads = {0, 8, 16}
    ArenaLo = 0
    ArenaHi = 24
    Sizes = {0, 8, 12}
    Regions <- MCRegions
    Stores <- MCStores
    MinBlockSize = 8
    MaxLogEntries = 2
    ReallocZeroBytesFrees = FALSE
    Usable <- MCUsable
    MaxEvents = 4
INVARIANTS
    BufferHasRoom
    Consistent
    LookupExact
    ReallocCopiesBlock
PROPERTY
    ImplementsEventLog
CHECK_DEADLOCK FALSE
