SPECIFICATION FairSpec
CONSTANTS
    Data = {a}
    Replies = {}
    Capacity = 1
    WriterDepth = 1
    WireDepth = 2
    MaxMessages = 3
    MaxChannels = 1
PROPERTY EventuallyAcked
CHECK_DEADLOCK FALSE
