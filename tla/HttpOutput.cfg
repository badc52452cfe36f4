SPECIFICATION FairSpec
CONSTANTS
    BufLen = 11
    Header = 2
    PrefixLen <- MCPrefixLen
    Trailer = 2
    Reserve = 2
    CHUNK_LOW = 2
    FileBuf = 3
    Sizes = {0, 1, 5, 10, 13}
CHECK_DEADLOCK FALSE
INVARIANTS RingsInPlace ChunkFits WireInOrder NothingElseLost WaitsForSocket
PROPERTIES ImplementsStream AnswerEnds
