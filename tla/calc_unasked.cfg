SPECIFICATION Spec
CONSTANTS
    t1 = t1
    t2 = t2
    Nobody = Nobody
    Library = Library
    Thread <- Threads
    MaxInflight = 3
    Listed = {1, 2, 3}
    K = 1
    M = 1
    Requests <- OnlyEncode
    AsyncErrors = FALSE
    Spurious = TRUE
    MaxJobs = 4
INVARIANTS
    Synchronous
CHECK_DEADLOCK FALSE
