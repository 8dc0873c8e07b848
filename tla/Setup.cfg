SPECIFICATION Spec
CONSTANTS
  Paths <- MCPaths
  PathType <- MCPathType
  PathRoles <- MCPathRoles
  Slugs <- MCSlugs
  Drafts <- MCDrafts
  CreateInputs <- MCCreateInputs
  RefreshInputs <- MCRefreshInputs
  Repositories <- MCRepositories
  InitOptions <- MCInitOptions
  Settings <- MCSettings
  HandSettings <- MCHandSettings
  MaxEdits = 1
  MaxCommands = 3
  MaxStops = 1
INVARIANTS
  InitSettles
  DocsConform
PROPERTIES
  UserChoicesSurvive
CHECK_DEADLOCK FALSE
