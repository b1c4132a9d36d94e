SPECIFICATION Spec
CONSTANTS
    Size = 8
    WordLen = 2
    Base = 3
    ValidityWord = 5
    Message <- Long
    MaxMessages = 3
    MaxSendWr = 2
    Breakable = TRUE
    MaxSizes = {0}
    Byte <- MCByte
    Encode <- MCEncode
    Decode <- MCDecode
    Validity <- MCValidity
INVARIANTS
    TypeOK
    NoOverrun
    UnacknowledgedKept
    AheadIsZero
    HasDataSound
PROPERTIES
    ImplementsChannel
