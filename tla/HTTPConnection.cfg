SPECIFICATION FairServerSpec
CONSTANTS
    Secure = FALSE
    Accepted = TRUE
    MaxBytes = 3
    MarkAt <- MCHeaders
    MaxReads = 0
    MaxWrites = 2
    MaxLength = 1
    ChunkSize = 1
    MaxSets = 0
    Throwing = TRUE
    NoKeepAlive = FALSE
    ContentLengths = {0, 1}
    Expects = TRUE
CHECK_DEADLOCK FALSE
INVARIANTS
    OneAtATime
    AnswerLeftFirst
    CompletionIsCurrent
PROPERTIES
    DisconnectsAfterAnswer
    NoRequestAfterLast
    FinishEnds
