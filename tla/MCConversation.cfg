SPECIFICATION Spec
CONSTANTS
    Request <- MCRequest
    Chain = 2
    MaxRetries = 0
    HasTimeout = TRUE
    Python = TRUE
    MaxTurns = 4
    Configured <- MCConfigured
    Roles <- MCRoles
    KeepRecents <- MCKeepRecents
    ToolNames <- MCToolNames
    Asks <- MCAsks
INVARIANTS
    TypeOK
    TranscriptIsKept
    CallsAreAnswered
    CallIdsComeBack
    TruncationIsKnown
PROPERTIES
    AgentEnds
CHECK_DEADLOCK FALSE
