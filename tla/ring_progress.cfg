SPECIFICATION FairSpec
CONSTANTS
    Size = 4
    WordLen = 1
    Base = 6
    ValidityWord = 5
    Message <- Short
    MaxMessages = 4
    MaxSendWr = 4
    Breakable = FALSE
    MaxSizes = {}
    Byte <- MCByte
    Encode <- MCEncode
    Decode <- MCDecode
    Validity <- MCValidity
INVARIANTS
    SendQueueSuffices
PROPERTIES
    ImplementsFairChannel
    EverySendReturns
