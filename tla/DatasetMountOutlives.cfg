SPECIFICATION Spec
CONSTANTS
    Datasets = {d1, d2}
    EmptyBuckets = {d2}
    Passwd = passwd
    MaxCrashes = 0
    MaxFaults = 0
    MaxEdits = 0
    MaxRestarts = 0
INVARIANTS
    NoMountOutlivesPod
