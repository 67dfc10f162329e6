SPECIFICATION SuiteSpec
CONSTANTS
    None = None
    Horizon = 6
    Switchpoints = {4, 6}
    Heatings = {0, 2}
    Boosted <- Half
    MaxLead = 3
    Margin = 1
    Grace = 1
    Near = 1
    ScoreAfter = 1
    Charges = {1, 2}
    ChargeTimes = {2}
    Modes = {"active"}
    MaxEdits = 1
    MaxRestarts = 1
    MaxFailures = 1
    Tasks = {"daily"}
    FollowUp = "followup"
    Day = 2
    Hour = {1}
    MaxCalls = 2
    MaxReports = 1
    Until = 3
    Decades = {10, 100}
    Capacity = 100
    Shown = {8, 98}
    Amounts = {1}
    Units = {"kWh", "Wh", None}
    SaveEvery = 2
    MaxUsed = 2
    MaxChanges = 1
    MaxStarts = 2
    Startup = 2
    FreshFor = 1
    MaxGap = 1
    Silence = 2
    Lag = 3
    Longest = 3
    MaxBurns = 2
CHECK_DEADLOCK FALSE
INVARIANTS
    SuiteTypeOK
    CallsAreBudgeted
    RecordsAreTrue
PROPERTIES
    PlansHold
