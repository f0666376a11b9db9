SPECIFICATION Spec
CONSTANTS
    Artifacts = {a, b}
    Jobs = {j}
    Routes <- MCRoutes
    MaxAsks = 3
    MaxCrashes = 0
    Nothing = nothing
INVARIANTS
    CancelIsFinal
