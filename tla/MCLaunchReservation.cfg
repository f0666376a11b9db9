SPECIFICATION FairSpec
CONSTANTS
    Launch = {l1, l2}
    Caller = {c1, c2}
    Game = {g1}
INVARIANTS
    CancelFindsPreparing
    CancelledNeverRuns
    CancelledIsStopped
    OneSession
PROPERTIES
    CancelEndsLaunch
