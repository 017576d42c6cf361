SPECIFICATION FairSpec
CONSTANTS
    Secure = FALSE
    Accepted = TRUE
    MaxBytes = 1
    MarkAt <- MCDelim
    MaxReads = 2
    MaxWrites = 1
    MaxLength = 1
    ChunkSize = 1
    MaxSets = 1
    Throwing = FALSE
CHECK_DEADLOCK FALSE
PROPERTIES
    CloseCallbackDelivered
