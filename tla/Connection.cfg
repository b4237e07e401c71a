CONSTANTS
    NumConns = 2
    Fds = {3, 4}
    Workers = {w1}
    Lengths = {1, 2, 3}
    InitSize = 1
    Limit = 3
    Bits = 3
    TaskSlots = 1
    ResponseSlots = 1
    ShortReads = {2}
    ShortWrites = {1}
    MaxCalls = 2
    MaxLeavers = 1
    None = None
    Junk = Junk
SPECIFICATION FairSpec
INVARIANTS
    RequestOnce
    AnswersOwn
PROPERTIES
    CallReturns
    LeaverClosed
CHECK_DEADLOCK FALSE
