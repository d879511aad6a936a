---------------------------- MODULE MealyMachine ----------------------------
(***************************************************************************)
(* The streaming PEP's transition function (lib/streaming/MealyMachine.ts):*)
(* a pure, total step from a state and an event to a state and an ordered  *)
(* list of emissions.  A decision is represented by the plan built from it *)
(* (each decision gets one plan), a reason text is left out, and an error  *)
(* only keeps whether it denies access.  The sets of plans and of payload  *)
(* values are parameters of the type definitions.                          *)
(***************************************************************************)
EXTENDS Sequences

(* States.  Only Permitting carries a payload, the plan in force. *)
PendingState       == [type |-> "Pending"]
SuspendedState     == [type |-> "Suspended"]
TerminatedState    == [type |-> "Terminated"]
PermittingState(p) == [type |-> "Permitting", plan |-> p]

State(Plans) ==
    {PendingState, SuspendedState, TerminatedState}
      \cup [type : {"Permitting"}, plan : Plans]

(* Outcome of enforcing one item: a failure flag and a possibly absent value. *)
Absent     == [type |-> "Absent"]
Present(v) == [type |-> "Present", value |-> v]

EnforcementResult(Values) ==
    [failureState : BOOLEAN, value : {Absent} \cup [type : {"Present"}, value : Values]]

(* Events. *)
PdpPermit(p)    == [type |-> "PdpPermit", plan |-> p]
PdpSuspend      == [type |-> "PdpSuspend"]
PdpDeny         == [type |-> "PdpDeny"]
PdpError        == [type |-> "PdpError"]
RapItem(result) == [type |-> "RapItem", enforcementResult |-> result]
RapError        == [type |-> "RapError"]
RapComplete     == [type |-> "RapComplete"]
Cancel          == [type |-> "Cancel"]

Event(Plans, Values) ==
    {PdpSuspend, PdpDeny, PdpError, RapError, RapComplete, Cancel}
      \cup [type : {"PdpPermit"}, plan : Plans]
      \cup [type : {"RapItem"}, enforcementResult : EnforcementResult(Values)]

(* Emissions. *)
Emit(v)           == [type |-> "Emit", value |-> v]
EmitError(kind)   == [type |-> "EmitError", kind |-> kind]
EmitComplete      == [type |-> "EmitComplete"]
EmitTransition(r) == [type |-> "EmitTransition", reason |-> r]

ErrorKinds == {"AccessDenied", "Upstream"}

Emission(Values) ==
    {EmitComplete}
      \cup [type : {"Emit"}, value : Values]
      \cup [type : {"EmitError"}, kind : ErrorKinds]
      \cup [type : {"EmitTransition"}, reason : {"Granted", "Suspended"}]

-----------------------------------------------------------------------------
StepTo(newState, emissions) == [newState |-> newState, emissions |-> emissions]

(* Deliberately wrong: a repeated permit is signalled again, or keeps the   *)
(* plan of the earlier one.                                                *)
HandlePermitAlwaysSignals(state, plan) ==
    StepTo(PermittingState(plan), << EmitTransition("Granted") >>)

HandlePermitKeepsPlan(state, plan) ==
    IF state.type = "Permitting" THEN StepTo(state, << >>)
    ELSE StepTo(PermittingState(plan), << EmitTransition("Granted") >>)

(* A permit while Permitting only swaps the plan; any other source grants. *)
HandlePermit(state, plan) ==
    StepTo(PermittingState(plan),
           IF state.type = "Permitting" THEN << >> ELSE << EmitTransition("Granted") >>)

(* Deliberately wrong: a repeated suspension is signalled again.           *)
HandleSuspendAlwaysSignals(state) ==
    StepTo(SuspendedState, << EmitTransition("Suspended") >>)

HandleSuspend(state) ==
    StepTo(SuspendedState,
           IF state.type = "Suspended" THEN << >> ELSE << EmitTransition("Suspended") >>)

HandleDeny == StepTo(TerminatedState, << EmitError("AccessDenied") >>)

PermittingItem(state, result) ==
    StepTo(state, IF result.value.type = "Present" THEN << Emit(result.value.value) >>
                                                   ELSE << >>)

(* Deliberately wrong: an item is emitted whatever the state.              *)
HandleItemInAnyState(state, result) ==
    IF result.failureState THEN HandleDeny ELSE PermittingItem(state, result)

(* A failed item terminates from every state; a good one is emitted only   *)
(* while Permitting and dropped elsewhere.                                 *)
HandleItem(state, result) ==
    IF result.failureState THEN HandleDeny
    ELSE IF state.type = "Permitting" THEN PermittingItem(state, result)
    ELSE StepTo(state, << >>)

Step(state, event) ==
    IF state.type = "Terminated" THEN StepTo(state, << >>)
    ELSE CASE event.type = "Cancel"      -> StepTo(TerminatedState, << >>)
           [] event.type = "RapComplete" -> StepTo(TerminatedState, << EmitComplete >>)
           [] event.type \in {"RapError", "PdpError"} ->
                  StepTo(TerminatedState, << EmitError("Upstream") >>)
           [] event.type = "PdpDeny"     -> HandleDeny
           [] event.type = "PdpPermit"   -> HandlePermit(state, event.plan)
           [] event.type = "PdpSuspend"  -> HandleSuspend(state)
           [] event.type = "RapItem"     -> HandleItem(state, event.enforcementResult)

IsTerminal(st) == st.newState.type = "Terminated"
=============================================================================
