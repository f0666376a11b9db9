SPECIFICATION FairSpec
CONSTANTS
    Launch = {l1, l2}
    Anonymous = {l2}
    Saving = {l1}
    Steps = 2
    MaxFaults = 2
    MaxCrashes = 2
INVARIANTS
    TypeOK
    PlayExactlyOnce
    CompletionIsHonest
    NoOrphanUnit
PROPERTIES
    JournalDrains
