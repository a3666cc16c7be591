SPECIFICATION Spec
CONSTANTS
    Datasets = {d1, d2}
    EmptyBuckets = {d2}
    Passwd = passwd
    MaxCrashes = 2
    MaxFaults = 0
    MaxEdits = 1
    MaxRestarts = 0
INVARIANTS
    TypeOK
    MountsNeedCredentials
PROPERTY
    ServingMountsAreKept
