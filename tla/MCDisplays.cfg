SPECIFICATION FairSpec
CONSTANT None = None
INVARIANTS
    TypeOK
    WaitsVsync
    TearBounded
PROPERTIES
    Answered
    ImplementsDoubleBuffer
