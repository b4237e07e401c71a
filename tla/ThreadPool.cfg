CONSTANTS
    Submitters = {s1, s2}
    WorkerIds = {w1, w2, w3, w4}
    Core = 1
    MaxPool = 4
    Size = 2
    Destroyed = TRUE
    MaxSeq = 3
SPECIFICATION FairSpec
INVARIANTS
    PoolSizeExact
    CoreStays
    EraseInRange
    StuckOnOwnToken
    ShutdownDrains
PROPERTIES
    EventuallyRun
    SubmitReturns
    ShutdownTerminates
CHECK_DEADLOCK FALSE
