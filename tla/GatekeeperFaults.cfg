SPECIFICATION FairSpec
CONSTANTS
    Clients = {c1, c2}
    Devices = {d1, d2}
    NoClient = NoClient
    NoDevice = NoDevice
    MaxHellos = 1
    EarlyDisconnect = TRUE
    Overlap = TRUE
    DeleteDevices = TRUE
INVARIANTS
    AgencyKnowsOnlyRunning
PROPERTIES
    GoodbyeCompletes
CHECK_DEADLOCK FALSE
