SPECIFICATION Spec
CONSTANTS
    Bytes = {b1, b2}
    Limit = 3
    Buffers <- SmallBuffers
    MaxTotal = 7
INVARIANTS
    KeepsBeginning
    TruncationReported
CHECK_DEADLOCK FALSE
