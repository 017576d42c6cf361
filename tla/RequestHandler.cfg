SPECIFICATION HandlerSpec
CONSTANTS
    MinLength = 2
    Codes = {304, 500}
    MaxBody = 3
    MaxFlushes = 2
    MaxCallbacks = 2
CHECK_DEADLOCK FALSE
INVARIANTS
    WellFramed
    NoneUnanswered
