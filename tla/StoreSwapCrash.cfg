SPECIFICATION Spec
CONSTANTS
  Heads = {h1, h2}
  Records = {r1, r2}
  Legacy = {r2}
  Older = {}
  Unplaced = {}
  Txns = {t1, t2}
  Contracts = {c1}
  None = None
  MaxFaults = 1
INVARIANTS
  SnapshotsStayServed
CHECK_DEADLOCK FALSE
