--------------------------- MODULE MCRequestScope ---------------------------
(***************************************************************************)
(* Three rows, two columns, and obligations of every form for RequestScope.*)
(***************************************************************************)
EXTENDS RequestScope

Leaf(rows)  == [kind |-> "leaf", rows |-> rows]
Unsupported == [kind |-> "unsupported"]

Obligation(criteria, conditions, columns) ==
    [criteria |-> criteria, conditions |-> conditions, columns |-> columns]

Either == [kind |-> "or", of |-> {Leaf({1}), Leaf({3})}]
Both   == [kind |-> "and", of |-> {Leaf({1, 2}), Leaf({2, 3})}]

FirstTwo   == Obligation({Leaf({1, 2})}, {}, {})
OneOfTwo   == Obligation({Leaf({1, 2}), Either}, {}, {{"id"}})
NoCriteria == Obligation({}, {}, {{"id"}})
WithJson   == Obligation({Both}, {Leaf({1, 2})}, {})
Malformed  == Obligation({[kind |-> "or", of |-> {Leaf({1}), Unsupported}]}, {}, {})
NotJson    == Obligation({Leaf({1})}, {Unsupported}, {})

MCObligations ==
    [mongo_query |-> {{}, {WithJson}, {NotJson}},
     sql_query   |-> {{}, {OneOfTwo}, {WithJson}, {Malformed}, {FirstTwo, NoCriteria}}]

MCQueries ==
    { [filter |-> {1, 2, 3}, select |-> {"id", "mail"}], [filter |-> {2, 3}, select |-> {"mail"}] }

=============================================================================
