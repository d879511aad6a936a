SPECIFICATION Spec
CONSTANTS
    Streams = {s1, s2}
    OneShots = {r1}
    IdSeq <- MCIdSeq
    a = a
    b = b
    Verdicts = {permit, indeterminate}
    Indeterminate = indeterminate
    Foreign = foreign
    NoDecision = none
    Sockets = 2
INVARIANTS TypeOK NoStaleDecision NoSocketLost
PROPERTIES FirstDecisionOrOutage OneShotSettles ImplementsFeed
