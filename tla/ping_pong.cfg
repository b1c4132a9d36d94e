SPECIFICATION FairSpec
CONSTANTS
    QueuePairs = 3
    MaxFaults = 1
    PortGid <- MCPortGid
    MessageNum = 3
    RingMessages = 2
INVARIANTS
    TypeOK
    Paired
    PeerReady
    NothingUsedIsFreed
    AbortsOnlyHalfConnected
    OnlyOrphansLeft
    LockStep
    OnlyLastLost
PROPERTIES
    Constructed
    ClientEnds
CHECK_DEADLOCK FALSE
