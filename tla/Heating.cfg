SPECIFICATION SuiteSpec
CONSTANTS
    None = None
    a = a
    b = b
    Rooms = {a, b}
    Houses <- WarmupReadings
    Configs <- WarmupConfigs
    Top = 3
    CatchTop = 2
    PlanFlow = 2
    StartAt = 1
    FullAt = 2
    TrimStart = 3
    TrimFull = 8
    NeedFull = 5
    FillLow = 1
    FillHigh = 2
    Fade = 5
    Rise = 1
    Decay = 1
    FillHold = 1
    CatchStart = 3
    CatchEnd = 1
    CatchFull = 8
    CatchSustain = 2
    Recovers = 1
    Returns <- TrimsReadings
    TrimSustain = 2
    Period = 2
    MaxSteps = 2
    MaxTrim = 3
    LongestStep = 2
    Settle = 1
    Window = 1
    Gap = 3
    Scenes <- BoilerReadings
    Dials = {3, 4}
    Native <- NativeRange
    Heating <- HeatingRange
    Water <- WaterRange
    Fallback = 4
    Delta = 1
    Margin = 1
    HotFlow = None
    Hysteresis = 2
    MinHold = 1
    ManualHold = 2
    Sustain = 1
    Progress = 1
    Timeout = 2
    LateCalls = FALSE
    MaxFaults = 1
    MaxChanges = 1
INVARIANTS
    SuiteTypeOK
PROPERTIES
    HandsAreRespected
    WithinWhatIsNeeded
    UpliftIsGentle
    UpliftIsEarned
