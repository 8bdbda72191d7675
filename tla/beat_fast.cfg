SPECIFICATION Spec
CONSTANTS
  h1 = h1
  h2 = h2
  k1 = k1
  k2 = k2
  r1 = r1
  r2 = r2
  Hosts = {h1}
  Keys = {k1, k2}
  HostOf <- OneHost
  Runs = {r1}
  NoRun = NoRun
  MissClose = 3
  Living = {k1}
  Late = {}
  Terms = {k1}
  Budget <- BudgetFast
PROPERTIES
  GraceOutlivesRestart
CHECK_DEADLOCK FALSE
