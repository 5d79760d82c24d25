SPECIFICATION FairSpec
CONSTANTS
    Keys = {k1}
    Providers = {p1}
    NoProvider = NoProvider
    Managers = {m1}
    Operators = {o1}
    Switches = {s1}
    MaxFixtures = 1
INVARIANTS
    OnePublication
    NoUpdateLost
PROPERTIES
    UpdateIsPublished
CHECK_DEADLOCK FALSE
