SPECIFICATION FairSpec
CONSTANTS
    Nodes = {n1, n2}
    Everyone = everyone
    Retries = 5
    PollTime = 0
    BackOffTime = 1
    KeepTime = 0
    CreateBy = 0
    MaxClock = 1
    MaxFaults = 0
    MaxRestarts = 0
INVARIANTS
    TypeOK
    VerdictCountsAnswers
    RetriesSuffice
PROPERTIES
    AnswersSurvive
    VerdictIsFinal
    EveryNodeAnswers
    ImplementsBoard
