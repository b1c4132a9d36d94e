SPECIFICATION Spec
CONSTANTS
    Size = 8
    K = 2
    M = 2
    BlockSize = 1
    Period = 1
    Coded = 1
    Base = 5
    Pad = 3
    Validity = 4
    Message <- OnePayload
    MaxMessages = 2
    MaxSendWr = 8
    MaxCalcErrors = 0
    Breakable <- NoQueuePairs
    Byte <- MCByte
    Parity <- MCParity
    Recover <- MCRecover
INVARIANTS
    RightSize
