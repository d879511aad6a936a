SPECIFICATION Spec
CONSTANTS
    MaxSubscriptions = 2
    Verbs = {"PERMIT", "SUSPEND", "DENY"}
    MaxPlans = 4
INVARIANTS TypeOK EndIsEnforced FirstDecisionGated FollowsTable
CHECK_DEADLOCK FALSE
