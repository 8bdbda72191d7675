CONSTANTS
    w1 = w1
    e1 = e1
    e2 = e2
    s1 = s1
    s2 = s2
    c1 = c1
    NoClient = NoClient
    NoEntry = NoEntry
    Nobody = Nobody
    Windows <- MCWindows
    Entries <- MCOneEntry
    Sockets <- MCSockets
    Clients <- MCClients
    WindowOf <- MCOneWindowOf
    ClientOf <- MCClientOf
    MaxGen = 2
    MaxClick = 0
SPECIFICATION LiveSpec
PROPERTIES
    EveryChangeIsPublished
    EveryAttachIsAnswered
