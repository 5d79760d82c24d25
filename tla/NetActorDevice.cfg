SPECIFICATION RoutersFairSpec
CONSTANTS
    MaxIncoming = 2
    MaxHirerSends = 1
    ClientBuffer = 1
    UnknownActors = TRUE
    EncodeErrors = TRUE
INVARIANTS
    NobodyLeftAtChannel
PROPERTIES
    ShutdownReturns
    SendReturns
CHECK_DEADLOCK FALSE
