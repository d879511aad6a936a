SPECIFICATION Spec
CONSTANTS
    MaxCalls = 2
    Overlap = FALSE
    Row = {1, 2, 3}
    Obligations <- MCObligations
    Queries <- MCQueries
INVARIANTS
    TypeOK
    ObligedQueriesAreNarrowed
