CONSTANTS
    Sessions = {s1}
    MaxWrites = 1
    MaxChunks = 1
    ChunkLen = 2
    BufLens = {1, 3}
SPECIFICATION StreamFairSpec
CHECK_DEADLOCK FALSE
PROPERTIES
    ChannelIsRead
