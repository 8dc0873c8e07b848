SPECIFICATION ReadersSpec
CONSTANTS
  Heads = {h1}
  Records = {r1, r2}
  Legacy = {r2}
  Older = {r1}
  Unplaced = {}
  Txns = {t1}
  Contracts = {c1, c2}
  None = None
  MaxFaults = 2
  MaxReadFaults = 1
SYMMETRY Symmetry
INVARIANTS
  NothingLost
  RebuiltStoreIsUnion
  AnswersAreComplete
  NoFalseAlarm
PROPERTIES
  PendingSurvives
CHECK_DEADLOCK FALSE
