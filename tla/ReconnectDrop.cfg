SPECIFICATION FairSpec
CONSTANTS
    Handles = {h1}
    MaxAttempts = 2
    MaxSessions = 2
PROPERTY FinalDropTearsDown
CHECK_DEADLOCK FALSE
