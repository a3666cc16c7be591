SPECIFICATION FairSpec
CONSTANTS
    Datasets = {d1, d2}
    EmptyBuckets = {d2}
    Passwd = passwd
    MaxCrashes = 1
    MaxFaults = 1
    MaxEdits = 0
    MaxRestarts = 1
PROPERTIES
    CompletePodHasDatasets
    TeardownCompletes
    RepairHeals
