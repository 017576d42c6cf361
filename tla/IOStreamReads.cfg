SPECIFICATION Spec
CONSTANTS
    Secure = FALSE
    Accepted = TRUE
    MaxBytes = 3
    MarkAt <- MCDelimAndRegex
    MaxReads = 2
    MaxWrites = 1
    MaxLength = 1
    ChunkSize = 1
    MaxSets = 2
    Throwing = TRUE
CHECK_DEADLOCK FALSE
INVARIANTS
    TypeOK
    OneOperation
    BytesInOrder
    AnsweredOnce
    CloseComesLast
    NeverDeaf
PROPERTY
    Delivers
