SPECIFICATION Spec
CONSTANTS
    Provider = {"p1", "p2"}
    Constraint = {"c1", "c2"}
    Answers <- MCAnswers
    Obligations <- MCObligations
    Advice <- MCAdvice
INVARIANTS
    TypeOK
    MethodRunsOnlyIfPermitted
    ReturnsOnlyIfDischarged
    DeniedForAReason
    BestEffort
    MappersApply
    EffectsOnlyIfReturned
CHECK_DEADLOCK FALSE
