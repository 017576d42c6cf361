SPECIFICATION CodecsSpec
CONSTANTS
    Headers <- MCHeaders
    Joins <- MCJoins
    Frames <- MCFrames
    MaxValue = 4
    MaxSegments = 4
CHECK_DEADLOCK FALSE
INVARIANTS
    ParamsParsed
    JoinResolves
    FramesUnderstood
