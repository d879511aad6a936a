-------------------------- MODULE StreamingPipeline --------------------------
(***************************************************************************)
(* The runner behind one subscription to an enforced stream                *)
(* (lib/streaming/StreamingPipeline.ts), between three parties it does not *)
(* control: the PDP's decision stream, the protected source (RAP), which   *)
(* is subscribed to on the first permit, and the subscriber.               *)
(*                                                                         *)
(* JavaScript runs a callback to completion, so a callback is one action,  *)
(* with two exceptions the model keeps.  The subscriber may unsubscribe    *)
(* from within `next`, which runs dispose() inside processEvent(); and a   *)
(* source may emit before its subscribe() call returns, so the call and    *)
(* its return are two steps and `subscribing` is the stack of calls that   *)
(* have not returned.                                                      *)
(*                                                                         *)
(* The n-th decision gets plan n.  An item is named by its RAP             *)
(* subscription, its place there and the plan that enforced it.            *)
(***************************************************************************)
EXTENDS Naturals, Sequences, MealyMachine

CONSTANTS
    PauseRapDuringSuspend,  \* flag of the stream: unsubscribe the RAP while suspended
    SignalTransitions,      \* flag of the stream: deliver boundary signals
    AsyncItems,             \* may a plan's executePerItem return a Promise?
    SyncRap,                \* may the RAP emit before its subscribe() returns?
    MaxDecisions,           \* bound: decisions the PDP sends
    MaxRaps,                \* bound: subscriptions to the RAP
    MaxItems                \* bound: items of one RAP subscription

ASSUME FlagAssumption == /\ PauseRapDuringSuspend \in BOOLEAN
                         /\ SignalTransitions \in BOOLEAN
                         /\ AsyncItems \in BOOLEAN
                         /\ SyncRap \in BOOLEAN

ASSUME BoundAssumption == MaxDecisions \in Nat /\ MaxRaps \in Nat /\ MaxItems \in Nat

VARIABLES
    \* fields of the runner
    state,            \* state of the Mealy machine
    terminated,       \* no event is processed any more
    rapSubscription,  \* the RAP subscription held, 0 for null
    pdpSubscription,  \* is a PDP subscription held?
    \* the RAP
    opened,           \* number of times rapSupplier was invoked
    live,             \* RAP subscriptions that can still deliver
    subscribing,      \* stack of RAP subscribe() calls that have not returned
    produced,         \* items each RAP subscription has delivered to the runner
    inFlight,         \* items whose executePerItem promise has not settled
    \* the PDP and the subscriber
    pdpOpen,          \* the decision stream has neither completed nor failed
    latest,           \* the most recent decision
    decisions,        \* number of decisions so far
    feed,             \* what the subscriber got on `next`
    downstream        \* "open", "errored", "completed" or "cancelled"

runnerVars == << state, terminated, rapSubscription, pdpSubscription >>
rapVars    == << opened, live, subscribing >>
itemVars   == << produced, inFlight >>
pdpVars    == << pdpOpen, latest, decisions >>
outVars    == << feed, downstream >>
vars       == << runnerVars, rapVars, itemVars, pdpVars, outVars >>

Contract == INSTANCE StreamContract
              WITH Sources <- 1..MaxRaps, Places <- 1..MaxItems, status <- downstream

DataItem == [kind : {"item"}, rap : 1..MaxRaps, seq : 1..MaxItems, plan : 1..MaxDecisions]

Decision == [verb : Contract!Verbs, failed : BOOLEAN]

Init ==
    /\ state = PendingState
    /\ terminated = FALSE
    /\ rapSubscription = 0
    /\ pdpSubscription = TRUE
    /\ opened = 0
    /\ live = {}
    /\ subscribing = << >>
    /\ produced = [r \in 1..MaxRaps |-> 0]
    /\ inFlight = {}
    /\ pdpOpen = TRUE
    /\ latest = Contract!NoDecision
    /\ decisions = 0
    /\ feed = << >>
    /\ downstream = "open"

-----------------------------------------------------------------------------
(* Processing one event.                                                   *)

(* Deliberately wrong: the plan of the decision before, a failed            *)
(* decision-scoped obligation overlooked, an outage taken for a suspension. *)
ClassifyWithOldPlan(d, p) ==
    CASE d.verb = "PERMIT"  -> IF d.failed THEN PdpDeny ELSE PdpPermit(p - 1)
      [] d.verb = "SUSPEND" -> PdpSuspend
      [] OTHER              -> PdpDeny

ClassifyIgnoringFailure(d, p) ==
    CASE d.verb = "PERMIT"  -> PdpPermit(p)
      [] d.verb = "SUSPEND" -> PdpSuspend
      [] OTHER              -> PdpDeny

ClassifyOutageAsSuspension(d, p) ==
    CASE d.verb = "PERMIT"  -> IF d.failed THEN PdpDeny ELSE PdpPermit(p)
      [] d.verb \in {"SUSPEND", "INDETERMINATE"} -> PdpSuspend
      [] OTHER              -> PdpDeny

(* Strict fail-closed routing of a decision whose plan has number p.       *)
Classify(d, p) ==
    CASE d.verb = "PERMIT"  -> IF d.failed THEN PdpDeny ELSE PdpPermit(p)
      [] d.verb = "SUSPEND" -> PdpSuspend
      [] OTHER              -> PdpDeny

Top == subscribing[Len(subscribing)]

(* Deliberately wrong: the handle is cleared and the source stays attached. *)
DisposeRapForgetfully ==
    /\ rapSubscription' = 0
    /\ UNCHANGED rapVars

DisposeRap ==
    /\ rapSubscription' = 0
    /\ live' = live \ {rapSubscription}
    /\ UNCHANGED << opened, subscribing >>

(* `gone` is the RAP subscription that ended by itself in this step.        *)
ReleaseInnerSubscriptions(gone) ==
    /\ rapSubscription' = 0
    /\ live' = live \ ({rapSubscription} \cup gone)
    /\ pdpSubscription' = FALSE
    /\ UNCHANGED << opened, subscribing >>

(* Calls rapSupplier().subscribe(); rapSubscription is only assigned when   *)
(* the call returns.                                                        *)
EnsureRapSubscribed ==
    IF rapSubscription # 0
      THEN UNCHANGED << rapSubscription, rapVars >>
      ELSE /\ opened < MaxRaps
           /\ opened' = opened + 1
           /\ live' = live \cup {opened + 1}
           /\ subscribing' = Append(subscribing, opened + 1)
           /\ UNCHANGED rapSubscription

ManageRapSubscription(newState) ==
    IF PauseRapDuringSuspend /\ newState.type = "Suspended" /\ state.type # "Suspended"
      THEN DisposeRap
      ELSE IF newState.type = "Permitting"
      THEN EnsureRapSubscribed
      ELSE UNCHANGED << rapSubscription, rapVars >>

Settle(newState, gone) ==
    /\ state' = newState
    /\ IF newState.type = "Terminated"
         THEN /\ terminated' = TRUE
              /\ ReleaseInnerSubscriptions(gone)
         ELSE /\ ManageRapSubscription(newState)
              /\ UNCHANGED << terminated, pdpSubscription >>

(* What an emission list (at most one emission) puts on `next` ...          *)
Rendered(emissions) ==
    IF emissions = << >> THEN << >>
    ELSE LET e == emissions[1] IN
         IF e.type = "Emit" THEN << e.value >>
         ELSE IF e.type = "EmitTransition" /\ SignalTransitions
         THEN << Contract!Signal(IF e.reason = "Granted" THEN "granted" ELSE "withheld") >>
         ELSE << >>

(* ... and how it leaves the subscriber.                                    *)
EndedBy(emissions) ==
    IF emissions = << >> THEN downstream
    ELSE CASE emissions[1].type = "EmitError"    -> "errored"
           [] emissions[1].type = "EmitComplete" -> "completed"
           [] OTHER                              -> downstream

(* Deliberately wrong: after a reentrant unsubscribe the RAP is managed by   *)
(* the step's new state instead of this.state.                             *)
ProcessEventByStepState(event, gone) ==
    LET st  == Step(state, event)
        out == IF downstream = "open" THEN Rendered(st.emissions) ELSE << >>
    IN  /\ feed' = feed \o out
        /\ \/ /\ downstream' = IF downstream = "open" THEN EndedBy(st.emissions) ELSE downstream
              /\ Settle(st.newState, gone)
           \/ /\ out # << >>
              /\ downstream' = "cancelled"
              /\ state' = TerminatedState
              /\ terminated' = TRUE
              /\ pdpSubscription' = FALSE
              /\ ManageRapSubscription(st.newState)

(* In the second disjunct the subscriber unsubscribes from within `next`:  *)
(* dispose() runs Cancel to its end before processEvent goes on, and what  *)
(* processEvent then reads is this.state, no longer the step's new state.  *)
ProcessEvent(event, gone) ==
    LET st  == Step(state, event)
        out == IF downstream = "open" THEN Rendered(st.emissions) ELSE << >>
    IN  /\ feed' = feed \o out
        /\ \/ /\ downstream' = IF downstream = "open" THEN EndedBy(st.emissions) ELSE downstream
              /\ Settle(st.newState, gone)
           \/ /\ out # << >>
              /\ downstream' = "cancelled"
              /\ Settle(TerminatedState, gone)

-----------------------------------------------------------------------------
(* PDP side.                                                               *)

Idle == subscribing = << >>

PdpDelivers == Idle /\ pdpSubscription /\ pdpOpen

HandlePdpDecision(d) ==
    /\ PdpDelivers
    /\ ~terminated
    /\ decisions < MaxDecisions
    /\ decisions' = decisions + 1
    /\ latest' = d
    /\ ProcessEvent(Classify(d, decisions + 1), {})
    /\ UNCHANGED << pdpOpen, itemVars >>

HandlePdpError ==
    /\ PdpDelivers
    /\ ~terminated
    /\ pdpOpen' = FALSE
    /\ ProcessEvent(PdpError, {})
    /\ UNCHANGED << latest, decisions, itemVars >>

(* A decision stream that ends empty counts as one DENY; a later completion *)
(* is ignored, the last decision stays in force.                            *)
PdpCompletes ==
    /\ PdpDelivers
    /\ pdpOpen' = FALSE
    /\ IF decisions = 0
         THEN /\ decisions < MaxDecisions
              /\ decisions' = 1
              /\ latest' = [verb |-> "DENY", failed |-> FALSE]
              /\ ProcessEvent(Classify(latest', 1), {})
         ELSE UNCHANGED << latest, decisions, runnerVars, rapVars, outVars >>
    /\ UNCHANGED itemVars

-----------------------------------------------------------------------------
(* RAP side.                                                               *)

RapDelivers(r) ==
    /\ r \in live
    /\ Idle \/ (~Idle /\ SyncRap /\ r = Top)

(* The call rapSupplier().subscribe() returns.                              *)
RapSubscribed ==
    /\ ~Idle
    /\ rapSubscription' = Top
    /\ subscribing' = SubSeq(subscribing, 1, Len(subscribing) - 1)
    /\ UNCHANGED << state, terminated, pdpSubscription, opened, live, itemVars, pdpVars, outVars >>

Dropped  == [failureState |-> FALSE, value |-> Absent]
Failed   == [failureState |-> TRUE, value |-> Absent]
Passed(v) == [failureState |-> FALSE, value |-> Present(v)]

NextItem(r) == Contract!Item(r, produced[r] + 1, state.plan)

TakeItem(r) ==
    /\ RapDelivers(r)
    /\ produced[r] < MaxItems
    /\ produced' = [produced EXCEPT ![r] = @ + 1]

(* Outside Permitting the plan is bypassed and the machine drops the item.  *)
HandleRapValueUnenforced(r) ==
    /\ TakeItem(r)
    /\ state.type # "Permitting"
    /\ IF terminated
         THEN UNCHANGED << runnerVars, rapVars, outVars >>
         ELSE ProcessEvent(RapItem(Dropped), {})
    /\ UNCHANGED << inFlight, pdpVars >>

HandleRapValueSync(r) ==
    /\ TakeItem(r)
    /\ ~terminated
    /\ state.type = "Permitting"
    /\ \E result \in {Dropped, Failed, Passed(NextItem(r))} : ProcessEvent(RapItem(result), {})
    /\ UNCHANGED << inFlight, pdpVars >>

HandleRapValueAsync(r) ==
    /\ AsyncItems
    /\ TakeItem(r)
    /\ ~terminated
    /\ state.type = "Permitting"
    /\ inFlight' = inFlight \cup {NextItem(r)}
    /\ UNCHANGED << runnerVars, rapVars, pdpVars, outVars >>

(* A promise of executePerItem settles; a rejection counts as a failure.    *)
PerItemSettles(v) ==
    /\ Idle
    /\ v \in inFlight
    /\ inFlight' = inFlight \ {v}
    /\ IF terminated
         THEN UNCHANGED << runnerVars, rapVars, outVars >>
         ELSE \E result \in {Dropped, Failed, Passed(v)} : ProcessEvent(RapItem(result), {})
    /\ UNCHANGED << produced, pdpVars >>

RapEnds(r, event) ==
    /\ RapDelivers(r)
    /\ IF terminated
         THEN /\ live' = live \ {r}
              /\ UNCHANGED << runnerVars, opened, subscribing, outVars >>
         ELSE ProcessEvent(event, {r})
    /\ UNCHANGED << itemVars, pdpVars >>

HandleRapError(r)    == RapEnds(r, RapError)
HandleRapComplete(r) == RapEnds(r, RapComplete)

-----------------------------------------------------------------------------
(* The subscriber unsubscribes between two callbacks.                       *)
Dispose ==
    /\ Idle
    /\ downstream = "open"
    /\ downstream' = "cancelled"
    /\ Settle(Step(state, Cancel).newState, {})
    /\ UNCHANGED << feed, itemVars, pdpVars >>

Next ==
    \/ \E d \in Decision : HandlePdpDecision(d)
    \/ HandlePdpError
    \/ PdpCompletes
    \/ RapSubscribed
    \/ \E r \in live : \/ HandleRapValueUnenforced(r)
                       \/ HandleRapValueSync(r)
                       \/ HandleRapValueAsync(r)
                       \/ HandleRapError(r)
                       \/ HandleRapComplete(r)
    \/ \E v \in inFlight : PerItemSettles(v)
    \/ Dispose

Spec == Init /\ [][Next]_vars
-----------------------------------------------------------------------------
(* Properties.                                                             *)

Delivery == DataItem \cup [kind : {"signal"}, side : {"granted", "withheld"}]

(* Every field keeps a value of its type; the runner never holds a plan of *)
(* a decision that was not made (fields of StreamingPipelineRunner).       *)
TypeOK ==
    /\ state \in State(1..MaxDecisions)
    /\ terminated \in BOOLEAN
    /\ rapSubscription \in 0..MaxRaps
    /\ pdpSubscription \in BOOLEAN
    /\ opened \in 0..MaxRaps
    /\ live \subseteq 1..MaxRaps
    /\ subscribing \in Seq(1..MaxRaps)
    /\ produced \in [1..MaxRaps -> 0..MaxItems]
    /\ inFlight \subseteq DataItem
    /\ pdpOpen \in BOOLEAN
    /\ latest \in Decision \cup {Contract!NoDecision}
    /\ decisions \in 0..MaxDecisions
    /\ feed \in Seq(Delivery)
    /\ downstream \in {"open", "errored", "completed", "cancelled"}

(* While the stream runs, the machine is where the most recent decision    *)
(* puts it, under that decision's own plan; a decision that refuses, or    *)
(* whose obligations failed, has ended it with an error (classify and      *)
(* processEvent).                                                          *)
DecisionInForce ==
    LET access == Contract!Access(latest) IN
    /\ access = "refused" => terminated /\ downstream = "errored"
    /\ ~terminated => CASE access = "none"     -> state = PendingState
                        [] access = "granted"  -> state = PermittingState(decisions)
                        [] access = "withheld" -> state = SuspendedState
                        [] OTHER               -> FALSE

(* The runner holds every subscription it opened, and none once the        *)
(* stream has ended, whichever side ended it (disposeRap,                  *)
(* releaseInnerSubscriptions and the reentrant dispose()).                 *)
NoLeakedSubscription ==
    Idle => /\ live = IF rapSubscription = 0 THEN {} ELSE {rapSubscription}
            /\ terminated => rapSubscription = 0 /\ ~pdpSubscription
            /\ terminated <=> downstream # "open"

(* The RAP is attached exactly while it should be: throughout a grant;     *)
(* with pauseRapDuringSuspend never during a suspension, and without the   *)
(* flag through it (manageRapSubscription, ensureRapSubscribed).           *)
RapFollowsAccess ==
    Idle => /\ state.type = "Permitting" => rapSubscription # 0
            /\ state.type = "Pending" => rapSubscription = 0
            /\ state.type = "Suspended" /\ PauseRapDuringSuspend => live = {}
            /\ state.type = "Suspended" /\ ~PauseRapDuringSuspend /\ opened > 0 => rapSubscription # 0

(* With signals on, the feed tells the subscriber which side it is on:     *)
(* every item comes after a grant signal with no suspension in between,    *)
(* signals alternate, and the last one is the access now in force          *)
(* (handlePermit, handleSuspend, renderTransition).                        *)
IsSignal(n) == feed[n].kind = "signal"

Governs(m, n) == m < n /\ IsSignal(m) /\ \A k \in (m + 1)..(n - 1) : ~IsSignal(k)

SignalsBracketData ==
    SignalTransitions =>
      /\ \A n \in DOMAIN feed :
           IF IsSignal(n)
             THEN \A m \in 1..n : Governs(m, n) => feed[m].side # feed[n].side
             ELSE \E m \in 1..n : Governs(m, n) /\ feed[m].side = "granted"
      /\ state.type \in {"Permitting", "Suspended"} =>
           \E m \in DOMAIN feed : /\ Governs(m, Len(feed) + 1)
                                  /\ feed[m].side = Contract!Access(latest)

(* An item reaches the subscriber only in a step taken under a decision    *)
(* that grants access, whatever callback releases it (permittingItem).     *)
ReleasedUnderGrant ==
    [][feed' # feed /\ feed'[Len(feed')].kind = "item"
         => Contract!Access(latest) = "granted" /\ downstream = "open"]_vars

(* An item reaches the subscriber only after the plan of the decision then *)
(* in force has enforced it (handleRapValue, permittingItem).              *)
EnforcedByPlanInForce ==
    [][feed' # feed /\ feed'[Len(feed')].kind = "item"
         => feed'[Len(feed')].plan = decisions]_vars

(* The pipeline implements the subscriber's contract.                      *)
ImplementsContract == Contract!Spec
=============================================================================
