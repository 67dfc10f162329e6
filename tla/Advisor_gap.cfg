SPECIFICATION Spec
CONSTANTS
    None = None
    Tasks = {"daily"}
    FollowUp = "followup"
    Day = 2
    Hour = {1}
    MaxCalls = 2
    MaxReports = 1
    Horizon = 3
    MaxRestarts = 0
    MaxFailures = 0
CHECK_DEADLOCK FALSE
INVARIANTS
    CallsKeepTheGap
