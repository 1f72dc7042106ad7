SPECIFICATION FairSpec
CONSTANTS
    r1 = r1
    r2 = r2
    r3 = r3
    Outside = Outside
    Request <- MCRequest
    MaxRequests = 1
    WindowMs = 2
    Atomic = TRUE
    MaxTime = 4
    MaxDelegationDepth = 2
    StatedDepths <- MCStatedDepths
INVARIANTS
    ServedWithinLimit
    RejectedOnlyAtTheLimit
    ChainsAreBounded
PROPERTIES
    RequestsAreAnswered
CHECK_DEADLOCK FALSE
