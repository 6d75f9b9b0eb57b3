SPECIFICATION FairSpec
CONSTANTS
    Actions = {"SessionType", "BadSessionType", "KMSEncryption"}
    MaxOutput = 1
    MaxInput = 1
    MaxRepeats = 1
    MaxChannels = 2
INVARIANTS
    ShownIsPlain
    Agreement
    AnsweredOnce
PROPERTY HandshakeSettles
CHECK_DEADLOCK FALSE
