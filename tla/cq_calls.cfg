SPECIFICATION FairSpec
CONSTANTS
    t1 = t1
    t2 = t2
    Nobody = Nobody
    Thread <- Threads
    Waits <- AllWaits
    Polls <- AllPolls
    CallsFail = TRUE
    MaxFaults = 1
    CQ_SIZE = 2
    MaxCompletions = 3
INVARIANTS
    TypeOK
    NoLostWakeup
    ExactlyOnce
    EventDiscipline
PROPERTIES
    WaitOrder
    Served
CHECK_DEADLOCK FALSE
