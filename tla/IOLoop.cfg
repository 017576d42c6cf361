SPECIFICATION FairSpec
CONSTANTS
    MaxTimers = 2
    MaxQueue = 2
    MaxStarts = 2
    Signals = {"int", "usr"}
    Interrupts = {"int"}
    Throws <- MCThrows
INVARIANTS
    TypeOK
    StopIsHeard
    OneHandlerPerTimer
    KeepsTicking
    OneChainPerStart
    SignalsAreHeard
PROPERTY
    DeadlineReturns
