SPECIFICATION MCSpec
CONSTANTS
    a = a
    b = b
    x = x
    y = y
    l1 = l1
    l2 = l2
    f1 = f1
    None = None
    home = home
    peer = peer
    m0 = m0
    m1 = m1
    m2 = m2
  MaxChains = 2
  Flushes <- MCFlushes
  Bad = {}
  Noop = {}
  ChainOptions <- MCOptions
  PeerOptions <- MCOptions
  Budget = 1
  RingSize = 2
  MaxSaves = 2
  MaxRev = 3
  MaxStrays = 1
  MaxLeases = 1
INVARIANTS
    TeardownsComeInOrder
    SecretsStayOutOfTheRing
    DoneProvesReboot
PROPERTIES
    ChoicesSurvive
    WinnersSurvive
    EveryFlushResolves
    EveryWaitEnds
CHECK_DEADLOCK FALSE
