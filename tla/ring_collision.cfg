SPECIFICATION Spec
CONSTANTS
    Size = 8
    WordLen = 1
    Base = 10
    ValidityWord = 9
    Message <- Colliding
    MaxMessages = 1
    MaxSendWr = 6
    Breakable = FALSE
    MaxSizes = {}
    Byte <- MCByte
    Encode <- MCEncode
    Decode <- MCDecode
    Validity <- MCValidity
PROPERTIES
    ImplementsChannel
