SPECIFICATION FairSpec
CONSTANTS
    Launch = {l1, l2}
    Caller = {c1}
    Game = {g1}
    Client = {k1}
    Nobody = Nobody
    MaxFaults = 1
    MaxCrashes = 1
INVARIANTS
    TypeOK
    SessionAgrees
PROPERTIES
    LateStopIsHarmless
    ReservationContract
    SessionSettles
