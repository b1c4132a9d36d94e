SPECIFICATION Spec
CONSTANTS
    QueuePairs = 3
    MaxFaults = 1
    PortGid <- MCPortGid
    MessageNum = 1
    RingMessages = 2
INVARIANTS
    QpnReceived
CHECK_DEADLOCK FALSE
