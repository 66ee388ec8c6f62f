CONSTANTS
    Sessions = {s1}
    MaxWrites = 2
    MaxChunks = 1
    ChunkLen = 2
    BufLens = {1, 3}
SPECIFICATION StreamSpec
CHECK_DEADLOCK FALSE
INVARIANTS
    WireInWriteOrder
