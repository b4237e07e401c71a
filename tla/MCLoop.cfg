CONSTANTS
    t1 = t1  t2 = t2  t3 = t3  t4 = t4
    Timers = {t1, t2, t3, t4}
    DHEAD = 2
    Afters = {0, 2}
    Repeats = {0, 1}
    MaxTime = 3
    MaxStarts = 4
    TagMod = 4
    CtlMayFail = TRUE
    Hangups = TRUE
SYMMETRY TimerSymmetry
SPECIFICATION LoopSpec
INVARIANTS
    TagMatches
    NothingMissed
    NoCallbackAfterStop
    HeapPositions
    ActiveCountExact
    NeverEarly
