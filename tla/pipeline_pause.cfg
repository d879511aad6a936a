SPECIFICATION Spec
CONSTANTS
    PauseRapDuringSuspend = TRUE
    SignalTransitions = TRUE
    AsyncItems = FALSE
    SyncRap = FALSE
    MaxDecisions = 5
    MaxRaps = 5
    MaxItems = 2
INVARIANTS
    TypeOK
    NoLeakedSubscription
    RapFollowsAccess
PROPERTIES
    EnforcedByPlanInForce
    ImplementsContract
CHECK_DEADLOCK FALSE
