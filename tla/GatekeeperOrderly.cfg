SPECIFICATION Spec
CONSTANTS
    Clients = {c1, c2}
    Devices = {d1, d2}
    NoClient = NoClient
    NoDevice = NoDevice
    MaxHellos = 2
    EarlyDisconnect = FALSE
    Overlap = FALSE
    DeleteDevices = TRUE
INVARIANTS
    GoneIsForgotten
    ConnectedIsServed
PROPERTIES
    ImplementsDeviceService
CHECK_DEADLOCK FALSE
