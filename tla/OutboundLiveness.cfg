SPECIFICATION FairSpec
CONSTANTS
    Data = {a}
    Capacity = 1
    MaxAttempts = 2
    WriterDepth = 1
    WireDepth = 1
    MaxMessages = 2
    MaxChannels = 2
    MaxStalls = 1
    NoSender = NoSender
    NoMessage = NoMessage
PROPERTIES
    SendReturns
    EventuallyDelivered
CHECK_DEADLOCK FALSE
