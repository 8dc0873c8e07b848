SPECIFICATION FairSpec
CONSTANTS
  c1 = c1
  c2 = c2
  c3 = c3
  p1 = p1
  p2 = p2
  a = a
  b = b
  large = large
  Calls = {c1, c2, c3}
  Procs = {p1, p2}
  Keys = {a, b, large}
  Size <- MCSize
  MaxItems = 2
  MaxBytes = 2
  Retries = 1
  Workloads <- MCWorkloads
  Stored = {{}, {a}}
  MaxFaults = 1
  None = None
INVARIANTS
  VectorsMatchTexts
  InflightIsShared
  DeniedStayLocal
  CacheIsHonest
PROPERTIES
  EveryCallEnds
CHECK_DEADLOCK FALSE
