SPECIFICATION SuiteSpec
CONSTANTS
    None = None
    Normal = Normal
    High = High
    Other = Other
    DayLength = 3
    Opens = 1
    Shuts = 2
    Settle = 1
    Confirm = 1
    Slow = 2
    Grace = 1
    Quick = 1
    MaxAttempts = 2
    Bounds <- Everything
    Hold = 3
    RenewBefore = 1
    MaxHold = 6
    Echo = 1
    Stops = 2
    Wait = 1
    Entities = {e1}
    Periods <- Lengths
    Wanted <- Minutes
    Shows = 1
    OffWait = 1
    TryAgain = 2
    MaxFaults = 1
    MaxChanges = 2
INVARIANTS
    SuiteTypeOK
    ChangesAreRecorded
    OneRaisePerDay
    StopsAreBounded
PROPERTIES
    NeverRaised
