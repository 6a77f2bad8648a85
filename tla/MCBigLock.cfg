SPECIFICATION Spec
CONSTANTS
    N = 3
    MaxTicket = 3
    FutexCount = 2
INVARIANTS
    LockPassedInOrder
    AssertionsHold
    NoLostWakeup
    FiniIsLast
PROPERTY Served
CHECK_DEADLOCK FALSE
