------------------------------ MODULE PdpFeed ------------------------------
(***************************************************************************)
(* What a PDP client promises the subscriber of a streaming decision       *)
(* (lib/transport/PdpClient.ts): the stream never ends by itself, what the *)
(* subscriber was last told is what the PDP said on the connection that is *)
(* up, and INDETERMINATE from the moment a connection is lost until a new  *)
(* one speaks.                                                             *)
(***************************************************************************)
CONSTANTS
    Ids,            \* subscription ids a call may ask about
    Verdicts,       \* decisions of the PDP, INDETERMINATE among them
    Indeterminate,  \* the decision emitted across an outage
    NoDecision      \* nothing emitted yet

VARIABLES
    ids,            \* the ids this stream is about
    link,           \* "idle" (nobody subscribed), "down" or "up"
    shown           \* what the subscriber was last told about each id

feedVars == <<ids, link, shown>>

Nothing == [id \in ids |-> NoDecision]
Outage  == [id \in ids |-> Indeterminate]

Init ==
    /\ ids \in (SUBSET Ids) \ {{}}
    /\ link = "idle"
    /\ shown = Nothing

Subscribe ==
    /\ link = "idle"
    /\ link' = "down"
    /\ UNCHANGED <<ids, shown>>

Connect ==
    /\ link = "down"
    /\ link' = "up"
    /\ UNCHANGED <<ids, shown>>

(* The PDP decides about some of the ids: only a connection that is up     *)
(* brings a decision.                                                      *)
Deliver ==
    /\ link = "up"
    /\ \E S \in (SUBSET ids) \ {{}} : \E news \in [S -> Verdicts] :
          shown' = [id \in ids |-> IF id \in S THEN news[id] ELSE shown[id]]
    /\ UNCHANGED <<ids, link>>

(* A connection is lost, or could not be made: the subscriber learns it    *)
(* with the loss, for every id.                                            *)
Lose ==
    /\ link # "idle"
    /\ link' = "down"
    /\ shown' = Outage
    /\ UNCHANGED ids

Unsubscribe ==
    /\ link # "idle"
    /\ link' = "idle"
    /\ shown' = Nothing
    /\ UNCHANGED ids

Next == Subscribe \/ Connect \/ Deliver \/ Lose \/ Unsubscribe

Feed == Init /\ [][Next]_feedVars
=============================================================================
