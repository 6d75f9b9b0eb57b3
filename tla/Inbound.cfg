SPECIFICATION FairSpec
CONSTANTS
    Data = {a, r}
    Replies = {r}
    Capacity = 1
    WriterDepth = 1
    WireDepth = 1
    MaxMessages = 3
    MaxChannels = 2
INVARIANTS
    AckedOutputIsKept
PROPERTIES
    ReliableInOrder
    EventuallyProcessed
CHECK_DEADLOCK FALSE
