SPECIFICATION ShellFairSpec
CONSTANTS
    send_initial_size = TRUE
    OutputDepth = 1
    EventDepth = 1
    MaxOutput = 2
    MaxKeys = 2
    MaxSize = 2
PROPERTIES
    TypedIsSent
    ResizeFollows
    ShellReturns
CHECK_DEADLOCK FALSE
