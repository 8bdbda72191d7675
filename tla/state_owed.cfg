CONSTANTS
    a = a
    b = b
    c = c
    d = d
    NoVal = NoVal
    Vals <- MCVals
    Refused <- MCNone
    First = a
    RetryFast = 1
    MaxGen = 2
    MaxRev = 3
    MaxEpoch = 2
    MaxStrays = 1
SPECIFICATION Spec
CHECK_DEADLOCK FALSE
INVARIANT
    OwedUntilCovered
