CONSTANTS
    InitialSize = 4
    MaxConsumeOffset = 3
    HeaderLength = 2
    BodyLengths = {1, 4, 7}
    Bits = 8
    MaxProduced = 30
SPECIFICATION BufferSpec
INVARIANTS
    BufferTypeOK
    InOrder
CHECK_DEADLOCK FALSE
