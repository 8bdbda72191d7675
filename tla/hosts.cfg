CONSTANTS
  None = None
  NoRun = NoRun
  Local = Local
  Home = Home
  h1 = h1
  h2 = h2
  k1 = k1
  k2 = k2
  r1 = r1
  r2 = r2
  ha = ha
  hb = hb
  hc = hc
  px = px
  o1 = o1
  o2 = o2
  Hosts = {ha}
  Peers = {px}
  Origins = {o1, o2}
  Shared = {o2}
  Slots = {1, 2}
  Starts <- TokenStarts
  Budget <- TokenBudget
SPECIFICATION MCSpec
CHECK_DEADLOCK FALSE
INVARIANTS
  MutexIsOwned
  TokenReachesItsMachine
  AsksOnlyForABadPassword
PROPERTIES
  SweepsAreJustified
  CatchUpMerges
  NewPasswordKept
