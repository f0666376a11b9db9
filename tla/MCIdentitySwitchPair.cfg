SPECIFICATION Spec
CONSTANTS
    Call = {s1, s2}
    Person = {ann, ben}
    Player = {}
    Client = {tv}
    FirstDevice = d0
    FirstOwner = ann
    Boot = boot
    None = none
    MaxConcurrent = 2
    MaxFaults = 0
    MaxCrashes = 1
    MaxDeletes = 1
    MaxTorn = 1
INVARIANTS
    LiveIsOwned
\* The calls run out.
CHECK_DEADLOCK FALSE
