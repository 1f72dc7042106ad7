SPECIFICATION Spec
CONSTANTS
    r1 = r1
    r2 = r2
    r3 = r3
    r4 = r4
    r5 = r5
    Request <- MCRequest
    MaxRequests = 2
    WindowMs = 3
    Atomic = FALSE
    MaxTime = 7
SYMMETRY RequestSymmetry
INVARIANTS
    NeverOverLimit
CHECK_DEADLOCK FALSE
