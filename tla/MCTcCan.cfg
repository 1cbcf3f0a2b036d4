\* Two threads that do not synchronise really may stop for ever.
SPECIFICATION FairSpec
CONSTANT MaxFrames = 4
INVARIANTS
    TypeOK
    NeverBlocks
    Faithful
    WillWake
PROPERTIES
    InOrder
    Answered
CHECK_DEADLOCK FALSE
