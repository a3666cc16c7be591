SPECIFICATION FairSpec
CONSTANTS
    Nodes = {n1}
    Everyone = everyone
    Retries = 2
    PollTime = 0
    BackOffTime = 0
    KeepTime = 1
    CreateBy = 0
    MaxClock = 3
    MaxFaults = 1
    MaxRestarts = 1
PROPERTIES
    NoAnswerAfterRestart
    VerdictSettles
    CheckExpires
