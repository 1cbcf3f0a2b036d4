SPECIFICATION FairSpec
CONSTANTS
    Single <- MCSingle
    Several <- MCSeveral
    Few = 2
    Many = 3
    AhbRole <- MCAhbRole
    AxiRole <- MCAxiRole
    MaxFrames = 2
    MaxTouches = 2
    Fifo = 2
    Burst = 3
    MaxBytes = 2
INVARIANTS
    TypeOK
    OkIsTrue
    Traced
PROPERTIES
    Answered
CHECK_DEADLOCK FALSE
