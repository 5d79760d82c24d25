SPECIFICATION Spec
CONSTANTS
    Servers = {s1, s2}
    Last = 3
    MaxFaults = 2
INVARIANTS
    UpIsMigrated
    StrandedNeedsFault
CHECK_DEADLOCK FALSE
