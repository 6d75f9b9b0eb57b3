SPECIFICATION FairSpec
CONSTANTS
    Handles = {h1}
    MaxAttempts = 2
    MaxSessions = 2
INVARIANTS
    AtMostOneLive
    OutputSpansSessions
    SendsToCurrent
PROPERTIES
    RecoversOrEnds
    SupervisorStops
CHECK_DEADLOCK FALSE
