CONSTANTS
    Submitters = {s1}
    WorkerIds = {w1, w2, w3}
    Core = 1
    MaxPool = 3
    Size = 2
    Destroyed = FALSE
    MaxSeq = 3
SPECIFICATION FairSpec
PROPERTIES
    AddedWorkersRetire
CHECK_DEADLOCK FALSE
