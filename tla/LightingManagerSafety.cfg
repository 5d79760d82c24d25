SPECIFICATION Spec
CONSTANTS
    Keys = {k1, k2}
    Providers = {p1, p2}
    NoProvider = NoProvider
    Managers = {m1}
    Operators = {}
    Switches = {}
    MaxFixtures = 2
SYMMETRY Symmetry
INVARIANTS
    FixtureIsUnique
    GoodbyeIsComplete
    TakenIsKept
CHECK_DEADLOCK FALSE
