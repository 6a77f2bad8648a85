SPECIFICATION Spec
CONSTANTS
    Jobs <- MCJobs
    Width <- MCWidth
    MaxWorkers = 2
    MaxKills = 1
INVARIANTS
    ResultsOwn
    AllDone
PROPERTY
    DoneIsFinal
