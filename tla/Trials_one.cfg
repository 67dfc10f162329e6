SPECIFICATION Spec
CONSTANTS
    t1 = t1
    t2 = t2
    owner = owner
    Trial <- OneTrial
    Owner <- owner
    Value <- TwoValues
    MaxStep = 1
    MaxAttempts = 2
    Bounds <- WritersOrLeavers
INVARIANTS
    TypeOK
    NoUnsupervisedValue
    DoneIsDurable
PROPERTIES
    ReplacesWhatItRestores
