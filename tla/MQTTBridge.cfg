SPECIFICATION FairSpec
CONSTANTS
    MQTTDevices = {d1, d2}
    MaxBoots = 2
    MQTTBuffer = 1
INVARIANTS
    OneBridge
    RunsAsRemembered
PROPERTIES
    HandlerReturns
    SilentGoesOffline
CHECK_DEADLOCK FALSE
