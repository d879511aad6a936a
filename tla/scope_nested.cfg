SPECIFICATION Spec
CONSTANTS
    MaxCalls = 2
    Overlap = TRUE
    Row = {1, 2, 3}
    Obligations <- MCObligations
    Queries <- MCQueries
INVARIANTS
    ObligedQueriesAreNarrowed
