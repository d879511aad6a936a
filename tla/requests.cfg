SPECIFICATION Spec
CONSTANTS
    a = a
    b = b
    permit = permit
    Requests = {r1, r2}
    Ids = {a, b}
    TheId = a
    Verdicts = {permit, indeterminate}
    Indeterminate = indeterminate
    Malformed = malformed
    Snapshots <- MCSnapshots
    MaxTokens = 2
INVARIANTS TypeOK
PROPERTIES SnapshotsUnambiguous RefusedTokenNotReused EveryRequestSettles
