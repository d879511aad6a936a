-------------------------- MODULE StreamLifecycle ---------------------------
(***************************************************************************)
(* The aspect around an enforced stream (lib/streaming/                    *)
(* StreamEnforceAspect.ts): the obligations of the lifecycle signals       *)
(* subscribe, error, complete, cancel and termination, which fire against  *)
(* the plan of the most recent decision.  That plan, and whether the       *)
(* subscribe signal has fired, belong to the call of the method; the       *)
(* Observable it returns may be subscribed to more than once.              *)
(*                                                                         *)
(* The runner is reduced to its transition function (MealyMachine); module *)
(* StreamingPipeline has the rest of it.                                   *)
(***************************************************************************)
EXTENDS Naturals, SequencesExt, MealyTable

CONSTANTS
    MaxSubscriptions,   \* bound: subscriptions to the Observable of one call
    Verbs,              \* decisions the PDP may send
    MaxPlans            \* bound: decisions, each of which gets a plan

ASSUME LifecycleAssumption == MaxSubscriptions \in Nat /\ MaxPlans \in Nat

VARIABLES
    currentPlan,        \* plan of the most recent decision, 0 for none
    firstPlanApplied,   \* has the subscribe signal fired?
    first,              \* the decision it fired for, and whose subscription that was
    gate,               \* its outcome: "unfired", "passed" or "failed"
    state,              \* the runner's state, by subscription
    opened,             \* has the protected source been subscribed to?
    seen,               \* "none", "open", "errored", "denied", "completed", "cancelled"
    received,           \* has an item come through?
    decided,            \* history: plan of the newest decision it was under when it was open
    ending,             \* where its end is, see Endings
    fired               \* lifecycle signals fired at the end, with plan and outcome

vars == <<currentPlan, firstPlanApplied, first, gate, state, opened, seen, received,
          decided, ending, fired>>
closure == <<currentPlan, firstPlanApplied, first, gate>>

Subscriptions == 1..MaxSubscriptions

(* "callback": tap has fired the end signal and the subscriber's own error *)
(* or complete runs, while the runner still listens to decisions; or it    *)
(* does no more ("released").  Then finalize.                              *)
Endings == {"no", "callback", "released", "finalized"}

Init ==
    /\ currentPlan = 0 /\ firstPlanApplied = FALSE
    /\ first = [verb |-> "none", at |-> 0] /\ gate = "unfired"
    /\ state = [x \in Subscriptions |-> PendingState]
    /\ opened = [x \in Subscriptions |-> FALSE]
    /\ seen = [x \in Subscriptions |-> "none"]
    /\ received = [x \in Subscriptions |-> FALSE]
    /\ decided = [x \in Subscriptions |-> 0]
    /\ ending = [x \in Subscriptions |-> "no"]
    /\ fired = [x \in Subscriptions |-> <<>>]

Subscribe(x) ==
    /\ seen[x] = "none" /\ \A y \in 1..(x - 1) : seen[y] # "none"
    /\ seen' = [seen EXCEPT ![x] = "open"]
    /\ UNCHANGED <<closure, state, opened, received, decided, ending, fired>>

(* A signal of the aspect, discharged against the plan `p`.                *)
Fired(signal, p, failed) == [signal |-> signal, plan |-> p, failed |-> failed]

(* What the subscriber sees: enforceSignalOrThrow replaces an error or a   *)
(* completion by its own error.                                            *)
Outcome(end, failed) ==
    IF failed THEN "denied" ELSE IF end = "error" THEN "errored" ELSE "completed"

(* tap discharges the end signal; without a plan nothing fires.  Then the  *)
(* subscriber's callback runs.                                             *)
Tap(x, end, next) ==
    /\ state' = [state EXCEPT ![x] = TerminatedState]
    /\ ending' = [ending EXCEPT ![x] = next]
    /\ \E failed \in IF currentPlan' = 0 THEN {FALSE} ELSE BOOLEAN :
        /\ seen' = [seen EXCEPT ![x] = Outcome(end, failed)]
        /\ fired' = IF currentPlan' = 0 THEN fired
                    ELSE [fired EXCEPT ![x] = <<Fired(end, currentPlan', failed)>>]

(* Mutant: the plan is read when the Observable is built: there is none.   *)
PlanAtLastUnread == 0

PlanAtLast == currentPlan

(* finalize reads the plan again: the callback may have subscribed once    *)
(* more, or had a decision sent.                                           *)
Finalize(x) ==
    /\ ending[x] \in {"callback", "released"}
    /\ ending' = [ending EXCEPT ![x] = "finalized"]
    /\ \E failed \in BOOLEAN :
        fired' = IF PlanAtLast = 0 THEN fired
                 ELSE [fired EXCEPT ![x] = Append(@, Fired("termination", PlanAtLast, failed))]
    /\ UNCHANGED <<closure, state, opened, seen, received, decided>>

(* Mutant: the plan of the decision before.                                *)
EventOfOldPlan(verb, failed, p) ==
    CASE verb = "PERMIT"  -> IF failed THEN PdpDeny ELSE PdpPermit(p - 1)
      [] verb = "SUSPEND" -> PdpSuspend
      [] OTHER            -> PdpDeny

(* classify: the event of a decision with plan `p`.                        *)
EventOf(verb, failed, p) ==
    CASE verb = "PERMIT"  -> IF failed THEN PdpDeny ELSE PdpPermit(p)
      [] verb = "SUSPEND" -> PdpSuspend
      [] OTHER            -> PdpDeny

(* Mutant: the outcome of the subscribe signal is not kept.                *)
DeniesNever(failed, subscribeDenied) == failed
Denies(failed, subscribeDenied) == failed \/ subscribeDenied

Decision(x, verb) ==
    /\ seen[x] = "open" /\ currentPlan < MaxPlans
    /\ currentPlan' = currentPlan + 1
    /\ firstPlanApplied' = TRUE
    /\ \E failed \in BOOLEAN, subscribeDenied \in IF firstPlanApplied THEN {FALSE} ELSE BOOLEAN :
        /\ IF firstPlanApplied THEN UNCHANGED <<first, gate>>
           ELSE /\ first' = [verb |-> verb, at |-> x]
                /\ gate' = IF subscribeDenied THEN "failed" ELSE "passed"
        /\ LET step == Step(state[x], EventOf(verb, Denies(failed, subscribeDenied), currentPlan'))
           IN IF IsTerminal(step) THEN Tap(x, "error", "callback")
              ELSE state' = [state EXCEPT ![x] = step.newState] /\ UNCHANGED <<seen, ending, fired>>
    /\ opened' = [opened EXCEPT ![x] = @ \/ state'[x].type = "Permitting"]
    /\ decided' = [decided EXCEPT ![x] = currentPlan']
    /\ UNCHANGED received

(* A decision that the subscriber's callback has sent: the runner has ended *)
(* but is not `terminated` yet, so it plans, changes no state, and lets go *)
(* of the decisions.                                                       *)
LateDecision(x) ==
    /\ ending[x] = "callback" /\ currentPlan < MaxPlans
    /\ currentPlan' = currentPlan + 1
    /\ ending' = [ending EXCEPT ![x] = "released"]
    /\ UNCHANGED <<firstPlanApplied, first, gate, state, opened, seen, received, decided, fired>>

(* executePerItem fails, drops the item or lets a value through.           *)
Results == {[failureState |-> TRUE, value |-> Absent],
            [failureState |-> FALSE, value |-> Absent],
            [failureState |-> FALSE, value |-> Present("item")]}

Item(x) ==
    /\ seen[x] = "open" /\ state[x].type = "Permitting"
    /\ \E result \in Results :
        LET step == Step(state[x], RapItem(result))
        IN /\ received' = [received EXCEPT ![x] = @ \/ Emit("item") \in ToSet(step.emissions)]
           /\ IF IsTerminal(step)
              THEN UNCHANGED currentPlan /\ Tap(x, "error", "callback")
              ELSE UNCHANGED <<currentPlan, state, seen, ending, fired>>
    /\ UNCHANGED <<firstPlanApplied, first, gate, opened, decided>>

Ends(x, end, next) ==
    /\ seen[x] = "open"
    /\ UNCHANGED <<closure, opened, received, decided>>
    /\ Tap(x, end, next)

SourceCompletes(x) == opened[x] /\ Ends(x, "complete", "callback")
SourceFails(x) == opened[x] /\ Ends(x, "error", "callback")
DecisionsFail(x) == Ends(x, "error", "released")

(* No callback of the subscriber runs between the two signals.             *)
Unsubscribe(x) ==
    /\ seen[x] = "open"
    /\ state' = [state EXCEPT ![x] = TerminatedState]
    /\ seen' = [seen EXCEPT ![x] = "cancelled"]
    /\ ending' = [ending EXCEPT ![x] = "finalized"]
    /\ \E failed, failedAtLast \in BOOLEAN :
        fired' = IF currentPlan = 0 THEN fired
                 ELSE [fired EXCEPT ![x] = <<Fired("cancel", currentPlan, failed),
                                             Fired("termination", currentPlan, failedAtLast)>>]
    /\ UNCHANGED <<closure, opened, received, decided>>

Next ==
    \E x \in Subscriptions :
        \/ Subscribe(x) \/ Item(x) \/ SourceCompletes(x) \/ SourceFails(x)
        \/ DecisionsFail(x) \/ Unsubscribe(x) \/ LateDecision(x) \/ Finalize(x)
        \/ \E verb \in Verbs : Decision(x, verb)

Spec == Init /\ [][Next]_vars

-----------------------------------------------------------------------------
LifecycleSignal == [signal : {"error", "complete", "cancel", "termination"},
                    plan : 1..MaxPlans, failed : BOOLEAN]

TypeOK ==
    /\ currentPlan \in 0..MaxPlans /\ firstPlanApplied \in BOOLEAN
    /\ first \in [verb : Verbs \cup {"none"}, at : {0} \cup Subscriptions]
    /\ gate \in {"unfired", "passed", "failed"}
    /\ state \in [Subscriptions -> State(1..MaxPlans)]
    /\ seen \in [Subscriptions -> {"none", "open", "errored", "denied", "completed", "cancelled"}]
    /\ opened \in [Subscriptions -> BOOLEAN] /\ received \in [Subscriptions -> BOOLEAN]
    /\ decided \in [Subscriptions -> 0..MaxPlans] /\ ending \in [Subscriptions -> Endings]
    /\ fired \in [Subscriptions -> Seq(LifecycleSignal)]

(* A stream that came under a decision ends under enforcement: its end     *)
(* signal and then the termination signal are discharged, once each, and   *)
(* neither against a plan older than the decision it was under, nor the    *)
(* second against one older than the first, whichever other subscription   *)
(* of the call gets decisions between the two; while the stream is open,   *)
(* none is ("lifecycle signals fire against the most recent plan", tap and *)
(* finalize in wrap).                                                      *)
EndIsEnforced ==
    \A x \in Subscriptions :
        LET end == {i \in DOMAIN fired[x] : fired[x][i].signal # "termination"} IN
        /\ ending[x] = "no" => fired[x] = <<>>
        /\ \A i \in DOMAIN fired[x] : fired[x][i].plan >= decided[x]
        /\ \A i, j \in DOMAIN fired[x] : i < j => fired[x][i].plan <= fired[x][j].plan
        /\ decided[x] # 0 /\ ending[x] \in {"callback", "released"} => end = {1} /\ Len(fired[x]) = 1
        /\ decided[x] # 0 /\ ending[x] = "finalized" => end = {1} /\ Len(fired[x]) = 2

(* "The subscribe signal gates before any data flows: an obligation        *)
(* failure here denies the stream rather than being swallowed."  Of that   *)
(* the code keeps: a first decision that would open the source opens it    *)
(* only for a subscriber whose subscribe obligations were discharged,      *)
(* whatever decisions follow and whoever else subscribes.  A stream that   *)
(* starts suspended is set apart: SUSPEND uses up the failure, and the     *)
(* next PERMIT delivers data (planner in wrap).                            *)
FirstDecisionGated ==
    \A x \in Subscriptions :
        received[x] /\ first.at = x /\ first.verb # "SUSPEND" => gate = "passed"

(* In every state a stream comes to, step() takes every event as the 40    *)
(* rows of mealy-table.csv prescribe (step and its handlers).              *)
FollowsTable == \A x \in Subscriptions : FollowsRows(state[x], 1..MaxPlans, {"item"})
=============================================================================
