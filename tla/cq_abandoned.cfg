SPECIFICATION Spec
CONSTANTS
    t1 = t1
    t2 = t2
    Nobody = Nobody
    Thread <- Threads
    Waits <- AllWaits
    Polls <- NoPolls
    CallsFail = FALSE
    MaxFaults = 1
    CQ_SIZE = 2
    MaxCompletions = 3
SYMMETRY ThreadSymmetry
INVARIANT SleepJustified
CHECK_DEADLOCK FALSE
