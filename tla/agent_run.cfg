SPECIFICATION Spec
CONSTANTS
    MaxSteps = 2
    MaxRetries = 2
    MaxCalls = 2
    MaxCompactions = 1
    ChanCap = 2
    Tools = {"image", "denied"}
    Ids <- MCIds
    Budget = 3
    Weight <- MCWeight
    MaxRate = 1
    Errors <- MCErrors
INVARIANTS
    HistoryAgrees
    CompactionCovers
PROPERTY
    CancelEnds
