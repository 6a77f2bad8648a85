SPECIFICATION Spec
CONSTANTS
    Order <- MCOrder
    Members = 3
    BatchRows = 2
    PipeCap = 1
    MaxClock = 2
    MaxVersion = 3
INVARIANTS
    SkippedIsCurrent
    AllStoresReadable
PROPERTIES
    WholeOrRaised
    RunEnds
