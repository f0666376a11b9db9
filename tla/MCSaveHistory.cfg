SPECIFICATION Spec
CONSTANTS
    Devices = {a, b}
    Purposes = {"Replicate"}
    Keep = 1
    MaxRecords = 3
    MaxContents = 2
    WildContents = {1}
    MaxSyncs = 1
SYMMETRY DeviceSymmetry
INVARIANTS
    TypeOK
    PayloadsSurvive
    ReceiptsHold
    WalkIsWhole
    ProgressSurvives
