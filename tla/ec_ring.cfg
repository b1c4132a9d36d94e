SPECIFICATION Spec
CONSTANTS
    Size = 16
    K = 2
    M = 1
    BlockSize = 2
    Period = 3
    Coded = 2
    Base = 5
    Pad = 3
    Validity = 4
    Message <- Payloads
    MaxMessages = 3
    MaxSendWr = 3
    MaxCalcErrors = 1
    Breakable <- SomeQueuePairs
    Byte <- MCByte
    Parity <- MCParity
    Recover <- MCRecover
INVARIANTS
    TypeOK
    PendingKept
    ValidIsCurrent
PROPERTIES
    ImplementsChannel
CHECK_DEADLOCK FALSE
