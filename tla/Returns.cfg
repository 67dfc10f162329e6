SPECIFICATION FairSuite
CONSTANTS
    None = None
    Normal = Normal
    High = High
    Other = Other
    e1 = e1
    a = a
    u1 = u1
    DayLength = 3
    Opens = 1
    Shuts = 2
    Settle = 1
    Confirm = 1
    Slow = 2
    Grace = 1
    Quick = 1
    MaxAttempts = 1
    Bounds <- Ends
CHECK_DEADLOCK FALSE
PROPERTIES
    RestoresEnd
    TransfersEnd
