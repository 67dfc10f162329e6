SPECIFICATION Spec
CONSTANTS
    e1 = e1
    e2 = e2
    r1 = r1
    boiler = boiler
    Legacy <- TwoLegacy
    Configured <- TwoLegacy
    Room <- NoRoom
    Boiler <- boiler
    CallTimeout = 0
    RefreshWait = 0
SYMMETRY LegacySymmetry
INVARIANTS
    HandedOverIsJournaled
PROPERTIES
    RollbackReturnsAll
