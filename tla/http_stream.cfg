SPECIFICATION Spec
CONSTANTS
    Ids = {a, b}
    Verdicts = {permit, deny, indeterminate}
    Indeterminate = indeterminate
    Malformed = malformed
    NoDecision = none
    Timeout = 1
    Inactivity = 2
    BufferSize = 2
    FailureCap = 2
INVARIANTS TypeOK NoStaleDecision
PROPERTIES BackoffReflectsOutage HalfOpenNoticed ImplementsFeed
