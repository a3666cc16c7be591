SPECIFICATION Spec
CONSTANTS
    Datasets = {d1, d2}
    EmptyBuckets = {}
    Passwd = passwd
    MaxCrashes = 0
    MaxFaults = 0
    MaxEdits = 1
    MaxRestarts = 1
PROPERTIES
    HealthyMountsAreKept
