SPECIFICATION Spec
CONSTANTS
    p1 = p1
    p2 = p2
    p3 = p3
    fall = fall
    rise = rise
    None = None
    Pins <- MCShared
    NChans = 2
    ChanOf <- MCSharedChanOf
    EdgeSets <- MCEdgeSets
    MaxSubs = 2
    AckDrops = TRUE
INVARIANT StaysArmed
