SPECIFICATION Spec
CONSTANTS
    c1 = c1
    c2 = c2
    Call <- MCCall
    FailureThreshold = 3
    WindowMs = 3
    CooldownMs = 2
    MaxTime = 6
SYMMETRY CallSymmetry
INVARIANTS
    OpensExactlyOnBursts
