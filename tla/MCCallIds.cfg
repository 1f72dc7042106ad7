SPECIFICATION Spec
CONSTANTS
    Sub <- MCSub
    Script <- MockScript
    NumSeeds = 2
    UniqueIds = FALSE
    NoCall = NoCall
INVARIANTS
    OwnFindings
CHECK_DEADLOCK FALSE
