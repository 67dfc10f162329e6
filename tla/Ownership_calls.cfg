SPECIFICATION FairSpec
CONSTANTS
    e1 = e1
    e2 = e2
    r1 = r1
    boiler = boiler
    Legacy <- OneLegacy
    Configured <- OneLegacy
    Room <- OneRoom
    Boiler <- boiler
    CallTimeout = 1
    RefreshWait = 1
INVARIANTS
    TypeOK
    NoReturnDuringCall
    LiveIsSaved
    Progress
PROPERTIES
    ImplementsSingleWriter
    LockReleased
