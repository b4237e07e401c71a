CONSTANTS
    LoopCount = 2
    QueueSize = 2
    MaxFd = 6
SPECIFICATION FairSpec
INVARIANTS
    ExactlyOnePlace
    NoLostWakeup
PROPERTIES
    EventuallyWatched
CHECK_DEADLOCK FALSE
