SPECIFICATION FairSpec
CONSTANTS
    Datasets = {d1, d2}
    Specs <- MCSpecs
    Malformed = {}
    Alphabet <- MCAlphabet
    Nil = nil
    None = none
    Eventful = {d1}
    MaxUid = 2
    MaxEdits = 1
    MaxTroubles = 1
INVARIANTS
    TypeOK
    ConditionsAreAMap
PROPERTIES
    EditsSurvive
    ClaimFollowsDatasets
    DatasetsConverge
    OperatorComesToRest
    UndisturbedChangeIsChecked
CHECK_DEADLOCK FALSE
