SPECIFICATION FairSpec
CONSTANTS
    Calls = {c1, c2}
    Targets = {t1, t2}
    ConnectAttempts = 2
    MaxSessions = 1
    AllowDuplicates = FALSE
INVARIANTS
    LimitHeld
    TrackedWhileLive
    NoneForgotten
    FreshCredential
PROPERTY CallsReturn
CHECK_DEADLOCK FALSE
