SPECIFICATION Spec
CONSTANTS
    PauseRapDuringSuspend = FALSE
    SignalTransitions = TRUE
    AsyncItems = TRUE
    SyncRap = TRUE
    MaxDecisions = 3
    MaxRaps = 2
    MaxItems = 2
INVARIANTS
    DecisionInForce
    SignalsBracketData
PROPERTIES
    ReleasedUnderGrant
CHECK_DEADLOCK FALSE
