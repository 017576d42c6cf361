SPECIFICATION FairClientSpec
CONSTANTS
    Secure = TRUE
    Accepted = FALSE
    MaxBytes = 5
    MarkAt <- MCLines
    MaxReads = 0
    MaxWrites = 1
    MaxLength = 1
    ChunkSize = 1
    MaxSets = 0
    Throwing = FALSE
    ConnectTimeout = TRUE
    RequestTimeout = TRUE
    BodyLengths = {0, 1, 2}
    ChunkLengths = {1, 2}
CHECK_DEADLOCK FALSE
INVARIANTS
    AnswerCloses
    NoStrayTimer
PROPERTIES
    CalledOnce
    FetchEnds
