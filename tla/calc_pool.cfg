SPECIFICATION FairSpec
CONSTANTS
    t1 = t1
    t2 = t2
    Nobody = Nobody
    Library = Library
    Thread <- Threads
    MaxInflight = 2
    Listed = {1, 2}
    K = 1
    M = 1
    Requests <- SomeRequests
    AsyncErrors = TRUE
    Spurious = FALSE
    MaxJobs = 3
INVARIANTS
    TypeOK
    PoolIntact
    Synchronous
    JobKept
    EmptyTakesAsManyCalls
    SignalToCome
PROPERTIES
    EveryCallReturns
CHECK_DEADLOCK FALSE
