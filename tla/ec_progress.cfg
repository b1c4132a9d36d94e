SPECIFICATION FairSpec
CONSTANTS
    Size = 8
    K = 2
    M = 1
    BlockSize = 1
    Period = 3
    Coded = 2
    Base = 5
    Pad = 3
    Validity = 4
    Message <- OnePayload
    MaxMessages = 6
    MaxSendWr = 5
    MaxCalcErrors = 1
    Breakable <- NoQueuePairs
    Byte <- MCByte
    Parity <- MCParity
    Recover <- MCRecover
INVARIANTS
    QueuesSuffice
PROPERTIES
    ImplementsFairChannel
    EverySendReturns
CHECK_DEADLOCK FALSE
