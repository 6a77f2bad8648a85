SPECIFICATION Spec
CONSTANTS
    Superblocks <- MCScalars
    Addrs = {0, 1, 2, 3, 4, 5, 6, 7, 8, 9, 10, 11}
    Faulting = {0, 8}
    MaxSuperblocks = 3
INVARIANTS
    ReplayGivesMemory
CHECK_DEADLOCK FALSE
