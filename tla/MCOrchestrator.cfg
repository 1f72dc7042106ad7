SPECIFICATION FairSpec
CONSTANTS
    t1 = t1
    t2 = t2
    Task <- MCTask
    SubagentRetries = 2
    MaxSubagents = 2
    MaxDelegationDepth = 1
    Depths <- MCDepths
    Runtimes <- BothRuntimes
    StoreFailsIn <- OnlyPython
    MaxSpawns = 2
    MaxCrashes = 2
INVARIANTS
    CompletedOnceAndKept
    OnlyOkIsCheckpointed
    CompleteIsDurable
    WorkersAreBounded
PROPERTIES
    SpawnReturns
CHECK_DEADLOCK FALSE
