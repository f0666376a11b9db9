SPECIFICATION FairSpec
CONSTANTS
    Artifacts = {a, b}
    Jobs = {j}
    Routes <- MCRoutes
    MaxAsks = 3
    MaxCrashes = 1
    Nothing = nothing
INVARIANTS
    TypeOK
    WorkIsExclusive
    NotForgotten
PROPERTIES
    QueueDrains
