SPECIFICATION FairLockSpec
CONSTANTS
  Procs = {p1, p2, p3}
  Pids = {i1, i2}
  Hosts = {m1, m2}
  Nobody = Nobody
INVARIANTS
  MutualExclusion
  StaleOwnerIsGone
PROPERTIES
  LockIsGivenBack
CHECK_DEADLOCK FALSE
