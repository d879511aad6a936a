----------------------------- MODULE MealyTable -----------------------------
(***************************************************************************)
(* The transition table kept beside the code as its oracle                 *)
(* (test/streaming/mealy-table.csv), and what it means for a step to       *)
(* agree with it.                                                          *)
(***************************************************************************)
EXTENDS MealyMachine, Naturals

(* The row heading of an event: its type, for an item with its outcome.     *)
Heading(e) ==
    IF e.type # "RapItem" THEN e.type
    ELSE IF e.enforcementResult.failureState THEN "Failed"
    ELSE e.enforcementResult.value.type

(* Two blocks of the table, one line per heading and one column per source *)
(* state that has not terminated: the target state and the emission.       *)
Columns(pending, permitting, suspended) ==
    [Pending |-> pending, Permitting |-> permitting, Suspended |-> suspended]

Target(h) ==
    CASE h = "PdpPermit"  -> Columns("Permitting", "Permitting", "Permitting")
      [] h = "PdpSuspend" -> Columns("Suspended", "Suspended", "Suspended")
      [] h \in {"Present", "Absent"} -> Columns("Pending", "Permitting", "Suspended")
      [] OTHER            -> Columns("Terminated", "Terminated", "Terminated")

Output(h) ==
    CASE h = "PdpPermit"   -> Columns("Granted", "Silent", "Granted")
      [] h = "PdpSuspend"  -> Columns("Suspended", "Suspended", "Silent")
      [] h = "Present"     -> Columns("Silent", "Emit", "Silent")
      [] h = "RapComplete" -> Columns("EmitComplete", "EmitComplete", "EmitComplete")
      [] h \in {"Absent", "Cancel"} -> Columns("Silent", "Silent", "Silent")
      [] OTHER             -> Columns("EmitError", "EmitError", "EmitError")

(* A terminated machine stays put, silently.                                *)
Row(from, e) ==
    IF from.type = "Terminated" THEN [to |-> "Terminated", emits |-> "Silent"]
    ELSE [to |-> Target(Heading(e))[from.type], emits |-> Output(Heading(e))[from.type]]

Label(emissions) ==
    IF emissions = << >> THEN "Silent"
    ELSE IF emissions[1].type = "EmitTransition" THEN emissions[1].reason
    ELSE emissions[1].type

(* A step agrees with the table, keeps at most one emission, carries the   *)
(* plan of the newest permit and the value of the item it emits, and calls *)
(* an error a denial exactly when the PDP or a failed obligation refused.  *)
Agrees(from, e, to, emissions) ==
    /\ to.type = Row(from, e).to
    /\ Label(emissions) = Row(from, e).emits
    /\ Len(emissions) <= 1
    /\ to.type = "Permitting" => to = IF e.type = "PdpPermit" THEN PermittingState(e.plan) ELSE from
    /\ Label(emissions) = "Emit" => emissions = << Emit(e.enforcementResult.value.value) >>
    /\ Label(emissions) = "EmitError" =>
         emissions[1].kind = IF Heading(e) \in {"PdpDeny", "Failed"} THEN "AccessDenied" ELSE "Upstream"

(* From this state, step() takes every event as the 40 rows prescribe.      *)
FollowsRows(from, Plans, Values) ==
    \A e \in Event(Plans, Values) :
        Agrees(from, e, Step(from, e).newState, Step(from, e).emissions)
=============================================================================
