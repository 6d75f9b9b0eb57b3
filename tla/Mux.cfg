SPECIFICATION FairSpec
CONSTANTS
    Streams = {s1}
    Keepalive = TRUE
    FrameDepth = 1
    StreamDepth = 1
    OutputDepth = 1
    MaxPush = 2
    MaxFaults = 1
INVARIANTS
    GapFree
    EvictionIsTold
PROPERTIES
    ReadsEnd
    TasksStop
CHECK_DEADLOCK FALSE
