CONSTANTS
    Workers = {w1, w2, w3}
    Size = 2
    EventFdMax = 2
    MaxSeq = 4
SPECIFICATION FairSpec
INVARIANTS
    NoBytesRace
    NoLostWakeup
    IndInv
PROPERTIES
    EventuallyDrained
CHECK_DEADLOCK FALSE
