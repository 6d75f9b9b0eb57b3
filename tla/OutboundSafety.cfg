SPECIFICATION RttSpec
CONSTANTS
    Data = {a, b}
    Capacity = 2
    MaxAttempts = 2
    WriterDepth = 1
    WireDepth = 1
    MaxMessages = 3
    MaxChannels = 2
    MaxStalls = 0
    NoSender = NoSender
    NoMessage = NoMessage
    INITIAL_RTT = 100
    INITIAL_RTO = 200
    MIN_RTO = 50
    MAX_RTO = 30000
    RttSamples = {1, 49, 60000}
INVARIANTS
    NothingLost
    OldestFirst
    NumberedIsWrittenFirst
    EstimateWithinSamples
PROPERTIES
    ReliableInOrder
CHECK_DEADLOCK FALSE

SYMMETRY Symmetry
