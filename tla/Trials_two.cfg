SPECIFICATION Spec
CONSTANTS
    t1 = t1
    t2 = t2
    owner = owner
    Trial <- TwoTrials
    Owner <- owner
    Value <- TwoValues
    MaxStep = 1
    MaxAttempts = 1
    Bounds <- Nothing
SYMMETRY TrialSymmetry
INVARIANTS
    AtMostOneActive
    NoUnsupervisedValue
