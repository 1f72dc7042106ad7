SPECIFICATION Spec
CONSTANTS
    r1 = r1
    r2 = r2
    r3 = r3
    k1 = k1
    k2 = k2
    NoAnswer = NoAnswer
    NoKey = NoKey
    Request <- MCRequest
    Key <- MCKey
    Chain = 1
    MaxRetries = 1
    HasTimeout = TRUE
    Python = FALSE
    Mode = "auto"
    MaxStops = 2
SYMMETRY ReplaySymmetry
INVARIANTS
    TriesInOrder
    ResultIsOfTheLastTry
    OnlyTimedOutCallsRunOn
    CassetteIsSaved
PROPERTIES
    AnswersReproduce
CHECK_DEADLOCK FALSE
