SPECIFICATION FairSpec
CONSTANTS
    Types = {t1, t2}
    Firers = {}
    MaxHires = 3
    MaxTokens = 1
    MaxSends = 1
INVARIANTS
    DisconnectedIsCancelled
    DeviceSeesEngagements
    DeviceAgrees
PROPERTIES
    ContractEndsOnRequest
    EndIsComplete
CHECK_DEADLOCK FALSE
