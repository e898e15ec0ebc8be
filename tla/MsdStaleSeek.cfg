SPECIFICATION Spec
CONSTANTS
    CardBlocks = 4
    ByteSpace = 4
    MaxChunk = 2
    Counts = {1, 3}
INVARIANT BlocksLandWhereAsked
CHECK_DEADLOCK FALSE
