SPECIFICATION Spec
CONSTANTS
    None = None
    All = All
    ka = ka
    kb = kb
    kc = kc
    x = x
    y = y
    z = z
    s1 = s1
    s2 = s2
    w1 = w1
    w2 = w2
    w3 = w3
    w4 = w4
    c1 = c1
    c2 = c2
    c3 = c3
    c4 = c4
    k1 = k1
    k2 = k2
    k3 = k3
SYMMETRY AnyWindow
INVARIANTS
    NothingToHeal
PROPERTIES
    FrontIsSeen
    AdoptLosesNothing
    ReturnsToItsColumn
    ActsOnTheNamed
    AgreesInTheEnd
CHECK_DEADLOCK FALSE
