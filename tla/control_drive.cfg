CONSTANTS
    w1 = w1
    e1 = e1
    e2 = e2
    s1 = s1
    s2 = s2
    c1 = c1
    NoClient = NoClient
    NoEntry = NoEntry
    Nobody = Nobody
    Windows <- MCWindows
    Entries <- MCEntries
    Sockets <- MCSockets
    Clients <- MCClients
    WindowOf <- MCWindowOf
    ClientOf <- MCClientOf
    MaxGen = 3
    MaxClick = 3
SPECIFICATION Spec
SYMMETRY MCSymmetry
INVARIANTS
    TypeOK
    SocketsRestOnTheTruth
    GrantNeverOutlivesSocket
    OnlyTheLiveEntryIsControlled
PROPERTIES
    GenerationsOrder
    DriveRightsHold
