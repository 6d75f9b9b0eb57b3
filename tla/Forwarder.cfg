SPECIFICATION FairSpec
CONSTANTS
    Clients = {c1, c2}
    max_connections = 1
    StreamDepth = 1
    MaxRequest = 1
    MaxReply = 2
INVARIANTS
    PermitsBalance
PROPERTIES
    HalfCloseKeepsReply
    RequestsEnd
    TunnelStops
CHECK_DEADLOCK FALSE
