SPECIFICATION Spec
CHECK_DEADLOCK FALSE
CONSTANTS
    FirstTree <- MCFirstTree
    Trees <- MCTrees
    Batches <- MCBatches
    Sessions <- MCSessions
    IngestPaths <- MCIngestPaths
    ShaRank <- MCShaRank
    PathsRef <- MCPathsRef
    RepairOptions <- MCRepairOptions
    Window = 2
    TopKs <- MCTopKs
    PackHits <- MCPackHits
    MaxHits = 5
    Budgets <- MCBudgets
    Maxima <- MCMaxima
    RecallTopK = 3
    Queries <- MCQueries
    Scopes <- MCScopes
    Null = Null
    MaxCommits = 3
    MaxMoves = 6
    MaxOpen = 3
INVARIANTS
    RepairIndexesHead
    PackIsDiverse
    LineageReplays
    LogAgreesWithNarrative
    OverlaysAgree
    WorstShownFirst
    DetailFollowsChoice
