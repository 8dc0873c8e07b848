SPECIFICATION FairSpec
CONSTANTS
  h1 = h1
  h2 = h2
  h3 = h3
  d1 = d1
  d2 = d2
  x = x
  y = y
  z = z
  None = None
  Heads = {h1}
  Docs = {d1}
  Blobs = {x, y, z}
  Unsupported = {z}
  Artifacts = {a1}
  Txns = {t1, t2}
  Tree <- OneTree
  Parent <- OneParent
  Ancestors <- OneAncestors
  MaxEdits = 2
  MaxFaults = 2
INVARIANTS
  AnnouncedIsFinal
  BindingAfterPublication
  BacklogSettledFirst
PROPERTIES
  CommitPointIsFinal
  CommittedIsFinalized
CHECK_DEADLOCK FALSE
