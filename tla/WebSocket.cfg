SPECIFICATION FairWebSocketSpec
CONSTANTS
    Secure = FALSE
    Accepted = TRUE
    MaxBytes = 4
    MarkAt <- MCRequest
    MaxReads = 0
    MaxWrites = 1
    MaxLength = 1
    ChunkSize = 1
    MaxSets = 0
    Throwing = FALSE
    Drafts = {13, 76}
    FieldSize = 1
    MaxPayload = 1
CHECK_DEADLOCK FALSE
INVARIANTS
    MessagesWhole
    WaitsForFrames
    NoStrayWaiting
PROPERTIES
    SeesSession
    CloseEnds
