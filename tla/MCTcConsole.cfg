SPECIFICATION FairSpec
CONSTANTS
    c1 = c1
    c2 = c2
    Nobody = Nobody
    Clients <- MCClients
    LineLens <- MCLineLens
    ChunkMax = 2
    LogSize = 4
    FifoSize = 2
    AckDrops = TRUE
    Prompt = TRUE
    MaxLines = 2
INVARIANTS
    TypeOK
    Delivered
    LogIsStream
    ToldOfSpace
PROPERTY
    Printed
