SPECIFICATION Spec
CONSTANTS
    Devices = {a, b}
    Purposes = {"Replicate"}
    Keep = 1
    MaxRecords = 2
    MaxContents = 2
    WildContents = {1, 2}
    MaxSyncs = 1
PROPERTY
    FirstFilesEnter
