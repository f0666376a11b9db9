SPECIFICATION Spec
CONSTANTS
    Call = {s1, s2}
    Person = {ann, ben}
    Player = {}
    Client = {}
    FirstDevice = d0
    FirstOwner = ann
    Boot = boot
    None = none
    MaxConcurrent = 2
    MaxFaults = 0
    MaxCrashes = 0
    MaxDeletes = 0
    MaxTorn = 0
INVARIANTS
    CommitIsRecoverable
\* The calls run out.
CHECK_DEADLOCK FALSE
