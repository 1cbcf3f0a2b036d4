SPECIFICATION FairSpec
CONSTANTS
    tx = tx
    rx = rx
    Slots <- MCSlots
    M2PSlots <- MCM2PSlots
    Chunks = 2
    Timeout = 1
    MaxXfers = 2
PROPERTIES
    Served
