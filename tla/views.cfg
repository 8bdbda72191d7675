CONSTANTS
  None = None
  Anon = Anon
  d1 = d1
  d2 = d2
  c1 = c1
  c2 = c2
  peer = peer
  home = home
  m1 = m1
  m2 = m2
  Host <- MCHost
  Local = home
  Machine <- MCMachine
  Home <- MCHome
  Build <- MCBuild
  Realm = {}
  MaxWrites = 2
  MaxReads = 1
  MaxEdits = 0
  MaxOutside = 0
SPECIFICATION MCSpec
CHECK_DEADLOCK FALSE
INVARIANTS
  StandingWriteIsNewest
  GrantsAreCurrent
PROPERTIES
  YieldsToTheOwner
  TakesBackOnlyFromTheGone
  ComesBack
  NeverShowsOlder
  RestsOnTheTruth
