CONSTANTS
    a = a
    b = b
    c = c
    d = d
    NoVal = NoVal
    Vals <- MCVals
    Refused <- MCRefused
    First = a
    RetryFast = 0
    MaxGen = 2
    MaxRev = 3
    MaxEpoch = 2
    MaxStrays = 1
SPECIFICATION Spec
SYMMETRY Alike
CHECK_DEADLOCK FALSE
INVARIANTS
    MemoryIsDurable
    RestsInStep
PROPERTIES
    IntentsAreOrdered
