SPECIFICATION FairSpec
CONSTANTS
    Closers = {k1, k2}
    CloseWaiters = {w}
    SendWaiters = {v}
    Subscribers = {s}
    QueueDepth = 1
    MaxOutput = 2
    NoReason = NoReason
    MaxPayload = 3
    WireSamples = {0, 128, 255, 256, 65536}
INVARIANTS
    GapFree
    WokenCanReadReason
    WireRoundTrip
PROPERTIES
    WaitersReturn
    StreamsEnd
CHECK_DEADLOCK FALSE
