SPECIFICATION Spec
CONSTANTS
    Clients = {c1, c2}
    Devices = {d1}
    NoClient = NoClient
    NoDevice = NoDevice
    MaxHellos = 1
    EarlyDisconnect = FALSE
    Overlap = TRUE
    DeleteDevices = FALSE
INVARIANTS
    ConnectedIsServed
CHECK_DEADLOCK FALSE
