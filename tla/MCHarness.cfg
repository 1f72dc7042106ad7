SPECIFICATION FairSpec
CONSTANTS
    c1 = c1
    c2 = c2
    c3 = c3
    k1 = k1
    k2 = k2
    k3 = k3
    k4 = k4
    plain = plain
    gated = gated
    absent = absent
    NoCall = NoCall
    NoKey = NoKey
    Call <- MCCall
    Key <- MCKey
    Tool <- MCTool
    ToolOf <- MCToolOf
    Scope <- MCScope
    Registered = {plain, gated}
    Gated = {gated}
    MayRaise = {"approvals", "sanitize", "audit_sink"}
    FailureThreshold = 2
    WindowMs = 2
    CooldownMs = 2
    MaxTime = 2
INVARIANTS
    NoFailureStaysCached
    OutcomesAreOfExecutions
    AuditMissesOnlyFaults
PROPERTIES
    EveryCallReturns
    KeepsIdempotencyPromise
CHECK_DEADLOCK FALSE
