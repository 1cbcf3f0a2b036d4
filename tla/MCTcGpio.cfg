SPECIFICATION FairSpec
CONSTANTS
    p1 = p1
    p2 = p2
    p3 = p3
    fall = fall
    rise = rise
    None = None
    Pins <- MCPins
    NChans = 2
    ChanOf <- MCChanOf
    EdgeSets <- MCEdge
    MaxSubs = 2
    AckDrops = FALSE
INVARIANTS
    TypeOK
    FlagKept
    WillScan
    NoStray
PROPERTIES
    LostByArming
    Signalled
