SPECIFICATION FairSpec
CONSTANTS
    Call = {s1, s2}
    Person = {ann, ben}
    Player = {ann}
    Client = {}
    FirstDevice = d0
    FirstOwner = ann
    Boot = boot
    None = none
    MaxConcurrent = 1
    MaxFaults = 1
    MaxCrashes = 1
    MaxDeletes = 1
    MaxTorn = 1
INVARIANTS
    TypeOK
    CommitSurvives
    SwitchIsWhole
PROPERTIES
    OwnerContract
    JournalResolves
