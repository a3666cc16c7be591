SPECIFICATION Spec
CONSTANTS
    Nodes = {n1, n2}
    Everyone = everyone
    Retries = 2
    PollTime = 0
    BackOffTime = 1
    KeepTime = 1
    CreateBy = 0
    MaxClock = 1
    MaxFaults = 0
    MaxRestarts = 0
SYMMETRY NodeSymmetry
INVARIANTS
    CompleteMeansRepaired
