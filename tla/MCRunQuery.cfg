SPECIFICATION Spec
CONSTANTS
    Order <- MCOrder
    PerBench = {"per"}
    Directives <- MCDirectives
    Benches = {"a", "b", "c"}
    FirstBenches = {"a", "b"}
    NoRows = {"a"}
    MaxRuns = 3
INVARIANTS
    StampedIsWhole
    OwnSettings
    Watched
    ZeroMeansDone
PROPERTIES
    ResumeKeeps
    RunawayStopped
CHECK_DEADLOCK FALSE
