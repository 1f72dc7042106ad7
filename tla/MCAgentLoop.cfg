SPECIFICATION FairSpec
CONSTANTS
    a1 = a1
    a2 = a2
    search = search
    NoCall = NoCall
    NoKey = NoKey
    Agent <- MCAgent
    Tool = {search}
    Gated = {search}
    MaxToolCalls = 2
    MaxTurns = 2
    MaxCallsPerTurn = 2
    MaxTokens = 2
    MaxUsage = 1
    UniqueIds = FALSE
    FailureThreshold = 2
INVARIANTS
    TypeOK
    OvershootIsBounded
    BudgetedCallsAreExecuted
    UnflaggedMeansClean
PROPERTIES
    AgentsEnd
CHECK_DEADLOCK FALSE
