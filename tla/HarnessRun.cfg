SPECIFICATION Spec
CONSTANTS
  Initial <- MCInitial
  Recaptures <- MCRecaptures
  Inputs <- MCInputs
  Outputs <- MCOutputs
  Codes = {0, 1}
  NoValue = NoValue
  Enforce = TRUE
  MaxRuns = 1
  MaxRecaptures = 1
  MaxCrashes = 1
INVARIANTS
  VerdictsAreEarned
  EvidenceIsComplete
PROPERTIES
  EveryRunEnds
CHECK_DEADLOCK FALSE
