SPECIFICATION Spec
CONSTANTS
    tx = tx
    rx = rx
    Slots <- MCSlots
    M2PSlots <- MCM2PSlots
    Chunks = 2
    Timeout = 1
    MaxXfers = 3
INVARIANTS
    TypeOK
    NoLostWakeup
    PayloadIntact
    ReadFresh
    AtMostOneLate
PROPERTIES
    MixupNeedsTimeout
    ImplementsChannel
