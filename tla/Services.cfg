SPECIFICATION SuiteSpec
CONSTANTS
    None = None
    Rooms = {a, b}
    Interval = 1
    Cap = 2
    Failures = 1
    MaxEvents = 2
    MaxSaveFailures = 2
    MaxRecorded = 3
    Gateways = {g1, g2}
    Threshold = 2
    Grace = 2
    Settle = 1
    Longest = 5
    Items = {u1, u2}
    MaxCrashes = 1
    MaxForeign = 1
    Targets = {2}
    Scheduled = 1
    MaxTags = 3
    MaxHands = 1
CHECK_DEADLOCK FALSE
INVARIANTS
    SuiteTypeOK
    TransfersAreOrderly
    NothingIsMissed
PROPERTIES
    BeliefsAreEarned
