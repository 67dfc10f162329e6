SPECIFICATION FairSuite
CONSTANTS
    None = None
    Follow = Follow
    t1 = t1
    owner = owner
    Trial <- OneTrial
    Owner <- owner
    Value <- TwoValues
    MaxStep = 1
    MaxAttempts = 1
    Bounds <- Leavers
PROPERTIES
    TrialEnds
    HoldEnds
