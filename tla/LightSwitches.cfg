SPECIFICATION FairSpec
CONSTANTS
    p1 = p1
    p2 = p2
    Providers = {p1, p2}
    NoProvider = NoProvider
    Keys = {k1}
    Fixtures = {f1}
    Handlers = {h1}
    MaxRows = 2
    MaxOffers <- MCMaxOffers
    MaxUpdates = 2
INVARIANTS
    RegistryIsExact
    ActiveAgreesWithStore
    TogglesAssigned
PROPERTY GoneGoesOffline
CHECK_DEADLOCK FALSE
