CONSTANTS
    Values = {v1, v2}
    Size = 4
    Width = 16
SPECIFICATION Spec
INVARIANTS
    NoSlotRace
PROPERTIES
    ImplementsFifo
