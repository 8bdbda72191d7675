CONSTANTS
    c1 = c1
    c2 = c2
    p1 = p1
    p2 = p2
    s1 = s1
    s2 = s2
    s3 = s3
    r1 = r1
    NoClient = NoClient
    NoSocket = NoSocket
    Clients <- MCClients
    Pages <- MCPages
    ClientOf <- MCClientOf
    Sockets <- MCSockets
    PageOf <- MCPageOf
    Calls <- MCCalls
    MaxClick = 1
    MaxPing = 1
SPECIFICATION Spec
CHECK_DEADLOCK FALSE
CONSTRAINT OneRequest
SYMMETRY TwoDials
INVARIANTS
    HolderIsKnown
PROPERTIES
    PageNeverGoesBack
    RelayAnswersAreTrue
