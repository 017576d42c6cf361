SPECIFICATION FairSpec
CONSTANTS
    Secure = TRUE
    Accepted = FALSE
    MaxBytes = 1
    MarkAt <- MCDelim
    MaxReads = 2
    MaxWrites = 1
    MaxLength = 1
    ChunkSize = 1
    MaxSets = 1
    Throwing = FALSE
CHECK_DEADLOCK FALSE
INVARIANTS
    NoForgottenRead
PROPERTY
    CloseCallbackDeliveredAfterAborts
