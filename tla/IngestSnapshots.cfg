SPECIFICATION Spec
CONSTANTS
  h1 = h1
  h2 = h2
  h3 = h3
  d1 = d1
  d2 = d2
  x = x
  y = y
  z = z
  None = None
  Heads = {h1, h2, h3}
  Docs = {d1, d2}
  Blobs = {x, y, z}
  Unsupported = {z}
  Artifacts = {}
  Txns = {t1, t2, t3}
  Tree <- ForkTree
  Parent <- ForkParent
  Ancestors <- ForkAncestors
  MaxEdits = 0
  MaxFaults = 1
SYMMETRY Symmetry
INVARIANTS
  PublishedReadable
  ChunksFollowDocuments
  SnapshotsStayOnBranch
PROPERTIES
  ImplementsPublication
