--------------------------- MODULE StreamContract ---------------------------
(***************************************************************************)
(* What the subscriber of an enforced stream is promised, whatever the     *)
(* machinery behind it (the contract in the comments of                    *)
(* lib/streaming/StreamingPipeline.ts and MealyMachine.ts):                *)
(*  - data arrives only while the most recent PDP decision grants access,  *)
(*    in the order the protected source produced it, each item having been *)
(*    through the constraints of that very decision;                       *)
(*  - a boundary signal arrives when, and only when, access changes side;  *)
(*  - a decision that neither grants nor suspends ends the stream with an  *)
(*    error, and nothing arrives after the end.                            *)
(***************************************************************************)
EXTENDS Naturals, Sequences

CONSTANTS
    SignalTransitions,  \* are boundary signals part of the feed?
    Sources,            \* numbers of the subscriptions to the protected source
    Places              \* numbers of the items of one subscription

VARIABLES
    latest,     \* the most recent PDP decision
    decisions,  \* how many decisions so far; the number names the one in force
    feed,       \* everything delivered on `next`, in order
    status      \* "open", then one of "errored", "completed", "cancelled"

vars == << latest, decisions, feed, status >>

Verbs      == {"PERMIT", "SUSPEND", "DENY", "INDETERMINATE", "NOT_APPLICABLE"}
NoDecision == [verb |-> "NONE", failed |-> FALSE]

(* The side of the boundary a decision puts the stream on.  `failed` tells *)
(* that an obligation of the decision itself could not be fulfilled.       *)
Access(d) ==
    CASE d.verb = "NONE"                 -> "none"
      [] d.verb = "PERMIT" /\ ~d.failed  -> "granted"
      [] d.verb = "SUSPEND"              -> "withheld"
      [] OTHER                           -> "refused"

Item(r, i, d) == [kind |-> "item", rap |-> r, seq |-> i, plan |-> d]
Signal(side)  == [kind |-> "signal", side |-> side]

(* Items are ordered by source subscription, then by their place in it.    *)
Later(x, y) == x.rap > y.rap \/ (x.rap = y.rap /\ x.seq > y.seq)

InOrder(item) == \A n \in DOMAIN feed : feed[n].kind = "item" => Later(item, feed[n])

Init ==
    /\ latest = NoDecision
    /\ decisions = 0
    /\ feed = << >>
    /\ status = "open"

(* The subscriber may leave at any time, from within a delivery too.       *)
Stay == status' = status \/ status' = "cancelled"

Decide ==
    /\ status = "open"
    /\ latest' \in [verb : Verbs, failed : BOOLEAN]
    /\ decisions' = decisions + 1
    /\ IF Access(latest') = "refused"
         THEN status' = "errored" /\ feed' = feed
         ELSE IF SignalTransitions /\ Access(latest') # Access(latest)
         THEN Stay /\ feed' = Append(feed, Signal(Access(latest')))
         ELSE UNCHANGED << feed, status >>

Release ==
    /\ status = "open"
    /\ Access(latest) = "granted"
    /\ \E r \in Sources, i \in Places :
         /\ InOrder(Item(r, i, decisions))
         /\ feed' = Append(feed, Item(r, i, decisions))
    /\ Stay
    /\ UNCHANGED << latest, decisions >>

End ==
    /\ status = "open"
    /\ status' \in {"errored", "completed", "cancelled"}
    /\ UNCHANGED << latest, decisions, feed >>

Next == Decide \/ Release \/ End

Spec == Init /\ [][Next]_vars
=============================================================================
