SPECIFICATION Spec
CONSTANTS
    Sub <- MCSub
    Script <- MCScript
    NumSeeds = 2
    UniqueIds = TRUE
    NoCall = NoCall
INVARIANTS
    OwnFindings
    OrphansAreFlagged
PROPERTIES
    SuiteEnds
CHECK_DEADLOCK FALSE
