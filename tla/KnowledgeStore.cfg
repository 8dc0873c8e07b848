SPECIFICATION Spec
CONSTANTS
  Procs = {p1, p2}
  Commands <- MCCommands
  Reviewed <- MCReviewed
  Risk <- MCRisk
  SuiteTitle <- MCSuiteTitle
  Enforce = TRUE
  Sentinel = "[BLOCKED]"
  NoRecord = NoRecord
  MaxCommands = 3
  MaxCrashes = 1
  MaxEdits = 1
SYMMETRY Symmetry
INVARIANTS
  EventsFollowFacts
  RecallIsAnchored
  EventsAreUnique
  PromotionIsBacked
  AnnouncedDocsAreIndexed
CHECK_DEADLOCK FALSE
