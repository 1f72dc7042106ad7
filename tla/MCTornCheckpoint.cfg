SPECIFICATION Spec
CONSTANTS
    t1 = t1
    t2 = t2
    Task <- MCTask
    SubagentRetries = 2
    MaxSubagents = 2
    MaxDelegationDepth = 1
    Depths <- MCDepths
    Runtimes <- OnlyPython
    StoreFailsIn <- Nowhere
    MaxSpawns = 2
    MaxCrashes = 1
INVARIANTS
    CrashCostsOnlyTheUnfinished
CHECK_DEADLOCK FALSE
