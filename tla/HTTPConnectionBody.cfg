SPECIFICATION ServerSpec
CONSTANTS
    Secure = FALSE
    Accepted = TRUE
    MaxBytes = 2
    MarkAt <- MCHeaders
    MaxReads = 0
    MaxWrites = 0
    MaxLength = 1
    ChunkSize = 1
    MaxSets = 0
    Throwing = FALSE
    NoKeepAlive = FALSE
    ContentLengths = {0, 1}
    Expects = TRUE
CHECK_DEADLOCK FALSE
INVARIANT BodyFindsRequest
