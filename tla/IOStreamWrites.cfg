SPECIFICATION Spec
CONSTANTS
    Secure = FALSE
    Accepted = FALSE
    MaxBytes = 1
    MarkAt <- MCDelim
    MaxReads = 1
    MaxWrites = 2
    MaxLength = 2
    ChunkSize = 1
    MaxSets = 1
    Throwing = TRUE
CHECK_DEADLOCK FALSE
INVARIANTS
    PendingIsPosted
    NoForgottenWrite
    WrittenMeansSent
    BrokenOnlyWhenClosed
