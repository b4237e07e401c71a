CONSTANTS
    TagMod = 4
    CtlMayFail = FALSE
    Hangups = TRUE
SPECIFICATION Spec
INVARIANTS
    PreviousRecorded
