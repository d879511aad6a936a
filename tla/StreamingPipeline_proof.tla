----------------------- MODULE StreamingPipeline_proof -----------------------
(***************************************************************************)
(* Theorems about the streaming runner, for every setting of its flags and *)
(* every bound: its types; what each event does to a running stream, the   *)
(* inductive invariant built on it, and the safety that follows; and that  *)
(* it implements the subscriber's contract.                                *)
(***************************************************************************)
EXTENDS StreamingPipeline, TLAPS, SequenceTheorems

-----------------------------------------------------------------------------
(* The machine, its transition function and its cases.                     *)

(* What one event does to a machine that has not terminated: the           *)
(* alternatives of the switch in step(), one by one.                       *)
LEMMA StepCases ==
    ASSUME NEW s, s.type # "Terminated"
    PROVE  /\ Step(s, Cancel) = StepTo(TerminatedState, << >>)
           /\ Step(s, RapComplete) = StepTo(TerminatedState, << EmitComplete >>)
           /\ Step(s, RapError) = StepTo(TerminatedState, << EmitError("Upstream") >>)
           /\ Step(s, PdpError) = StepTo(TerminatedState, << EmitError("Upstream") >>)
           /\ Step(s, PdpDeny) = HandleDeny
           /\ Step(s, PdpSuspend) = HandleSuspend(s)
           /\ \A p : Step(s, PdpPermit(p)) = HandlePermit(s, p)
           /\ \A r : Step(s, RapItem(r)) = HandleItem(s, r)
<1> USE DEF Step
<1>1. Step(s, Cancel) = StepTo(TerminatedState, << >>)
  BY DEF Cancel
<1>2. Step(s, RapComplete) = StepTo(TerminatedState, << EmitComplete >>)
  BY DEF RapComplete
<1>3. Step(s, RapError) = StepTo(TerminatedState, << EmitError("Upstream") >>)
  BY DEF RapError
<1>4. Step(s, PdpError) = StepTo(TerminatedState, << EmitError("Upstream") >>)
  BY DEF PdpError
<1>5. Step(s, PdpDeny) = HandleDeny
  BY DEF PdpDeny
<1>6. Step(s, PdpSuspend) = HandleSuspend(s)
  BY DEF PdpSuspend
<1>7. \A p : Step(s, PdpPermit(p)) = HandlePermit(s, p)
  BY DEF PdpPermit
<1>8. \A r : Step(s, RapItem(r)) = HandleItem(s, r)
  BY DEF RapItem
<1>. QED BY <1>1, <1>2, <1>3, <1>4, <1>5, <1>6, <1>7, <1>8

(* Every event is one of the constructors above.                           *)
LEMMA EventCases ==
    ASSUME NEW Plans, NEW Values, NEW e \in Event(Plans, Values)
    PROVE  \/ e \in {Cancel, RapComplete, RapError, PdpError, PdpDeny, PdpSuspend}
           \/ \E p \in Plans : e = PdpPermit(p)
           \/ \E r \in EnforcementResult(Values) : e = RapItem(r)
  BY DEF Event, PdpPermit, RapItem

(* A step never leaves the state set, and emits at most one emission of    *)
(* the output alphabet (step in MealyMachine.ts is total).                 *)
LEMMA StepType ==
    ASSUME NEW Plans, NEW Values, NEW s \in State(Plans), NEW e \in Event(Plans, Values)
    PROVE  /\ Step(s, e).newState \in State(Plans)
           /\ Step(s, e).emissions \in Seq(Emission(Values))
           /\ Len(Step(s, e).emissions) <= 1
<1> DEFINE Good(st) == /\ st.newState \in State(Plans)
                       /\ st.emissions \in Seq(Emission(Values))
                       /\ Len(st.emissions) <= 1
<1>1. /\ \A t \in State(Plans) : Good(StepTo(t, << >>))
      /\ \A t \in State(Plans), m \in Emission(Values) : Good(StepTo(t, << m >>))
  BY DEF StepTo
<1> HIDE DEF Good
<1>2. /\ {PendingState, SuspendedState, TerminatedState} \subseteq State(Plans)
      /\ \A p \in Plans : PermittingState(p) \in State(Plans)
      /\ \A k \in ErrorKinds : EmitError(k) \in Emission(Values)
      /\ EmitComplete \in Emission(Values)
      /\ EmitTransition("Granted") \in Emission(Values)
      /\ EmitTransition("Suspended") \in Emission(Values)
      /\ \A v \in Values : Emit(v) \in Emission(Values)
  BY DEF State, PermittingState, Emission, EmitError, EmitTransition, Emit
<1>3. Good(HandleDeny)
  BY <1>1, <1>2 DEF HandleDeny, ErrorKinds
<1>4. ASSUME s.type = "Terminated" PROVE Good(Step(s, e))
  BY <1>1, <1>4 DEF Step
<1>5. ASSUME s.type # "Terminated" PROVE Good(Step(s, e))
  <2>1. Good(HandleSuspend(s))
    BY <1>1, <1>2 DEF HandleSuspend
  <2>2. ASSUME e \in {Cancel, RapComplete, RapError, PdpError, PdpDeny, PdpSuspend}
        PROVE  Good(Step(s, e))
    BY <1>1, <1>2, <1>3, <1>5, <2>1, <2>2, StepCases DEF ErrorKinds
  <2>3. ASSUME NEW p \in Plans, e = PdpPermit(p)
        PROVE  Good(Step(s, e))
    BY <1>1, <1>2, <1>5, <2>3, StepCases DEF HandlePermit
  <2>4. ASSUME NEW r \in EnforcementResult(Values), e = RapItem(r)
        PROVE  Good(Step(s, e))
    <3>1. Good(PermittingItem(s, r))
      BY <1>1, <1>2 DEF PermittingItem, EnforcementResult, Absent
    <3>2. Good(HandleItem(s, r))
      BY <1>1, <1>3, <3>1 DEF HandleItem
    <3>. QED BY <1>5, <2>4, <3>2, StepCases
  <2>. QED BY <2>2, <2>3, <2>4, EventCases
<1>. QED BY <1>4, <1>5 DEF Good

-----------------------------------------------------------------------------

Plans       == 1..MaxDecisions
RunnerState == State(Plans)
RunnerEvent == Event(Plans, DataItem)
EndStates   == {"open", "errored", "completed", "cancelled"}

-----------------------------------------------------------------------------
(* Type correctness.                                                       *)

(* Settling in a state of the machine keeps the subscription fields typed  *)
(* (manageRapSubscription, ensureRapSubscribed, disposeRap,                *)
(* releaseInnerSubscriptions).                                             *)
LEMMA SettleType ==
    ASSUME TypeOK, NEW t \in RunnerState, NEW gone, Settle(t, gone)
    PROVE  /\ state' = t
           /\ terminated' \in BOOLEAN
           /\ rapSubscription' \in 0..MaxRaps
           /\ pdpSubscription' \in BOOLEAN
           /\ opened' \in 0..MaxRaps
           /\ live' \subseteq 1..MaxRaps
           /\ subscribing' \in Seq(1..MaxRaps)
<1>1. /\ MaxRaps \in Nat
      /\ terminated \in BOOLEAN /\ pdpSubscription \in BOOLEAN
      /\ rapSubscription \in 0..MaxRaps /\ opened \in 0..MaxRaps
      /\ live \subseteq 1..MaxRaps /\ subscribing \in Seq(1..MaxRaps)
  BY BoundAssumption DEF TypeOK
<1>2. state' = t
  BY DEF Settle
<1>3. CASE t.type = "Terminated"
  <2>1. /\ terminated' = TRUE /\ pdpSubscription' = FALSE
        /\ rapSubscription' = 0 /\ opened' = opened /\ subscribing' = subscribing
        /\ live' = live \ ({rapSubscription} \cup gone)
    BY <1>3 DEF Settle, ReleaseInnerSubscriptions
  <2>2. live' \subseteq 1..MaxRaps
    BY <1>1, <2>1
  <2>3. terminated' \in BOOLEAN /\ pdpSubscription' \in BOOLEAN
    BY <2>1, Zenon
  <2>4. rapSubscription' \in 0..MaxRaps
    BY <1>1, <2>1
  <2>. QED BY <1>1, <1>2, <2>1, <2>2, <2>3, <2>4
<1>4. CASE t.type # "Terminated"
  <2>1. terminated' = terminated /\ pdpSubscription' = pdpSubscription /\ ManageRapSubscription(t)
    BY <1>4 DEF Settle
  <2>2. CASE UNCHANGED << rapSubscription, rapVars >>
    BY <1>1, <1>2, <2>1, <2>2 DEF rapVars
  <2>3. CASE DisposeRap
    <3>1. /\ rapSubscription' = 0 /\ opened' = opened /\ subscribing' = subscribing
          /\ live' \subseteq live
      BY <2>3 DEF DisposeRap
    <3>. QED BY <1>1, <1>2, <2>1, <3>1
  <2>4. CASE rapSubscription = 0 /\ EnsureRapSubscribed
    <3>1. /\ opened < MaxRaps /\ opened' = opened + 1 /\ rapSubscription' = rapSubscription
          /\ live' = live \cup {opened + 1} /\ subscribing' = Append(subscribing, opened + 1)
      BY <2>4 DEF EnsureRapSubscribed
    <3>2. opened + 1 \in 1..MaxRaps
      BY <1>1, <3>1
    <3>3. live' \subseteq 1..MaxRaps /\ subscribing' \in Seq(1..MaxRaps) /\ opened' \in 0..MaxRaps
      BY <1>1, <3>1, <3>2
    <3>. QED BY <1>1, <1>2, <2>1, <3>1, <3>3
  <2>. QED BY <2>1, <2>2, <2>3, <2>4 DEF ManageRapSubscription, EnsureRapSubscribed
<1>. QED BY <1>3, <1>4

(* What a step puts on `next` is a delivery, and an end is an end          *)
(* (renderEmission).                                                       *)
LEMMA RenderType ==
    ASSUME NEW s \in RunnerState, NEW e \in RunnerEvent, downstream \in EndStates
    PROVE  /\ Rendered(Step(s, e).emissions) \in Seq(Delivery)
           /\ EndedBy(Step(s, e).emissions) \in EndStates
<1> DEFINE ms == Step(s, e).emissions
<1>1. ms \in Seq(Emission(DataItem)) /\ Len(ms) <= 1
  BY StepType DEF RunnerState, RunnerEvent
<1> HIDE DEF ms
<1>2. ASSUME ms = << >> PROVE Rendered(ms) \in Seq(Delivery) /\ EndedBy(ms) \in EndStates
  BY <1>2 DEF Rendered, EndedBy
<1>3. ASSUME ms # << >> PROVE Rendered(ms) \in Seq(Delivery) /\ EndedBy(ms) \in EndStates
  <2>1. ms[1] \in Emission(DataItem)
    BY <1>1, <1>3
  <2>2. ms[1].type = "Emit" => ms[1].value \in Delivery
    BY <2>1 DEF Emission, EmitComplete, Delivery
  <2>3. Contract!Signal("granted") \in Delivery /\ Contract!Signal("withheld") \in Delivery
    BY DEF Contract!Signal, Delivery
  <2>4. Rendered(ms) \in Seq(Delivery)
    BY <1>3, <2>2, <2>3 DEF Rendered
  <2>5. EndedBy(ms) \in EndStates
    BY <1>3 DEF EndedBy, EndStates
  <2>. QED BY <2>4, <2>5
<1>. QED BY <1>2, <1>3 DEF ms

(* One event, processed to its end, keeps everything typed (processEvent). *)
LEMMA ProcessEventType ==
    ASSUME TypeOK, NEW e \in RunnerEvent, NEW gone, ProcessEvent(e, gone)
    PROVE  /\ state' \in RunnerState
           /\ terminated' \in BOOLEAN
           /\ rapSubscription' \in 0..MaxRaps
           /\ pdpSubscription' \in BOOLEAN
           /\ opened' \in 0..MaxRaps
           /\ live' \subseteq 1..MaxRaps
           /\ subscribing' \in Seq(1..MaxRaps)
           /\ feed' \in Seq(Delivery)
           /\ downstream' \in EndStates
<1> DEFINE st  == Step(state, e)
           out == IF downstream = "open" THEN Rendered(st.emissions) ELSE << >>
<1>1. state \in RunnerState /\ downstream \in EndStates /\ feed \in Seq(Delivery)
  BY DEF TypeOK, RunnerState, Plans, EndStates
<1>2. st.newState \in RunnerState /\ TerminatedState \in RunnerState
  BY <1>1, StepType DEF RunnerState, RunnerEvent, State
<1>3. Rendered(st.emissions) \in Seq(Delivery) /\ EndedBy(st.emissions) \in EndStates
  BY <1>1, RenderType
<1>4. out \in Seq(Delivery)
  BY <1>3
<1>5. /\ feed' = feed \o out
      /\ \/ /\ downstream' = IF downstream = "open" THEN EndedBy(st.emissions) ELSE downstream
            /\ Settle(st.newState, gone)
         \/ /\ downstream' = "cancelled"
            /\ Settle(TerminatedState, gone)
  BY DEF ProcessEvent
<1> HIDE DEF st, out
<1>6. feed' \in Seq(Delivery)
  BY <1>1, <1>4, <1>5
<1>7. downstream' \in EndStates
  BY <1>1, <1>3, <1>5 DEF EndStates
<1>8. PICK t \in RunnerState : Settle(t, gone)
  BY <1>2, <1>5
<1>. QED BY <1>6, <1>7, <1>8, SettleType

(* The events the runner feeds to the machine.                             *)
LEMMA EventType ==
    /\ {PdpDeny, PdpError, PdpSuspend, RapError, RapComplete, Cancel} \subseteq RunnerEvent
    /\ \A p \in Plans : PdpPermit(p) \in RunnerEvent
    /\ \A d : \A p \in Plans : Classify(d, p) \in RunnerEvent
    /\ \A v \in DataItem : \A result \in {Dropped, Failed, Passed(v)} : RapItem(result) \in RunnerEvent
<1>1. {PdpDeny, PdpError, PdpSuspend, RapError, RapComplete, Cancel} \subseteq RunnerEvent
  BY DEF RunnerEvent, Event
<1>2. \A p \in Plans : PdpPermit(p) \in RunnerEvent
  BY DEF RunnerEvent, Event, PdpPermit
<1>3. \A d : \A p \in Plans : Classify(d, p) \in RunnerEvent
  BY <1>1, <1>2 DEF Classify
<1>4. ASSUME NEW v \in DataItem, NEW result \in {Dropped, Failed, Passed(v)}
      PROVE  RapItem(result) \in RunnerEvent
  <2>1. Absent \in {Absent} \cup [type : {"Present"}, value : DataItem]
    OBVIOUS
  <2>2. Present(v) \in {Absent} \cup [type : {"Present"}, value : DataItem]
    BY DEF Present
  <2>3. Dropped \in EnforcementResult(DataItem)
    BY <2>1 DEF Dropped, EnforcementResult
  <2>4. Failed \in EnforcementResult(DataItem)
    BY <2>1 DEF Failed, EnforcementResult
  <2>5. Passed(v) \in EnforcementResult(DataItem)
    BY <2>2 DEF Passed, EnforcementResult
  <2>6. result \in EnforcementResult(DataItem)
    BY <2>3, <2>4, <2>5
  <2>. QED BY <2>6 DEF RapItem, RunnerEvent, Event
<1>. QED BY <1>1, <1>2, <1>3, <1>4

LEMMA NextItemType ==
    ASSUME TypeOK, NEW r \in 1..MaxRaps, produced[r] < MaxItems, state.type = "Permitting"
    PROVE  NextItem(r) \in DataItem
<1>1. state.plan \in 1..MaxDecisions
  BY DEF TypeOK, State, PendingState, SuspendedState, TerminatedState
<1>2. produced[r] + 1 \in 1..MaxItems
  BY BoundAssumption DEF TypeOK
<1>. QED BY <1>1, <1>2 DEF NextItem, Contract!Item, DataItem

(* Every step keeps every field typed.                                    *)
LEMMA NextType == TypeOK /\ [Next]_vars => TypeOK'
<1> SUFFICES ASSUME TypeOK, [Next]_vars PROVE TypeOK'
  OBVIOUS
<1>0. /\ decisions \in 0..MaxDecisions /\ latest \in Decision \cup {Contract!NoDecision}
      /\ pdpOpen \in BOOLEAN /\ live \subseteq 1..MaxRaps
      /\ produced \in [1..MaxRaps -> 0..MaxItems] /\ inFlight \subseteq DataItem
      /\ MaxDecisions \in Nat /\ MaxItems \in Nat /\ MaxRaps \in Nat
  BY BoundAssumption DEF TypeOK
<1> DEFINE Core == /\ state \in RunnerState
                   /\ terminated \in BOOLEAN
                   /\ rapSubscription \in 0..MaxRaps
                   /\ pdpSubscription \in BOOLEAN
                   /\ opened \in 0..MaxRaps
                   /\ live \subseteq 1..MaxRaps
                   /\ subscribing \in Seq(1..MaxRaps)
                   /\ feed \in Seq(Delivery)
                   /\ downstream \in EndStates
           Env  == /\ produced \in [1..MaxRaps -> 0..MaxItems]
                   /\ inFlight \subseteq DataItem
                   /\ pdpOpen \in BOOLEAN
                   /\ latest \in Decision \cup {Contract!NoDecision}
                   /\ decisions \in 0..MaxDecisions
<1>a. TypeOK <=> Core /\ Env
  BY DEF TypeOK, RunnerState, Plans, EndStates
<1>b. ASSUME NEW e \in RunnerEvent, NEW gone, ProcessEvent(e, gone) PROVE Core'
  BY <1>b, ProcessEventType
<1>c. UNCHANGED << runnerVars, rapVars, outVars >> => Core'
  BY <1>a DEF runnerVars, rapVars, outVars
<1>d. UNCHANGED << itemVars, pdpVars >> => Env'
  BY <1>a DEF itemVars, pdpVars
<1>e. TypeOK' <=> Core' /\ Env'
  BY DEF TypeOK, RunnerState, Plans, EndStates
<1> HIDE DEF Core
<1>1. ASSUME NEW d \in Decision, HandlePdpDecision(d) PROVE TypeOK'
  <2>1. decisions + 1 \in Plans
    BY <1>0, <1>1 DEF HandlePdpDecision, Plans
  <2>2. Classify(d, decisions + 1) \in RunnerEvent
    BY <2>1, EventType
  <2>4. Core'
    BY <1>1, <1>b, <2>2 DEF HandlePdpDecision
  <2>3. Env'
    BY <1>0, <1>1, <2>1 DEF HandlePdpDecision, Plans, itemVars
  <2>. QED BY <1>e, <2>3, <2>4
<1>2. ASSUME HandlePdpError PROVE TypeOK'
  <2>1. Core'
    BY <1>2, <1>b, EventType DEF HandlePdpError
  <2>2. Env'
    BY <1>0, <1>2 DEF HandlePdpError, itemVars
  <2>. QED BY <1>e, <2>1, <2>2
<1>3. ASSUME PdpCompletes PROVE TypeOK'
  <2>1. pdpOpen' \in BOOLEAN /\ produced' = produced /\ inFlight' = inFlight
    BY <1>3, Zenon DEF PdpCompletes, itemVars
  <2>2. CASE decisions = 0
    <3>1. 1 \in Plans /\ decisions' = 1 /\ latest' = [verb |-> "DENY", failed |-> FALSE]
      BY <1>0, <1>3, <2>2 DEF PdpCompletes, Plans
    <3>2. latest' \in Decision
      BY <3>1 DEF Decision, Contract!Verbs
    <3>3. Env'
      BY <1>0, <2>1, <3>1, <3>2 DEF Plans
    <3>4. Classify(latest', 1) \in RunnerEvent
      BY <3>1, EventType
    <3>5. Core'
      BY <1>3, <1>b, <2>2, <3>4 DEF PdpCompletes
    <3>. QED BY <1>e, <3>3, <3>5
  <2>3. CASE decisions # 0
    <3>1. UNCHANGED << latest, decisions, runnerVars, rapVars, outVars >>
      BY <1>3, <2>3 DEF PdpCompletes
    <3>2. Env'
      BY <1>0, <2>1, <3>1
    <3>. QED BY <1>c, <1>e, <3>1, <3>2
  <2>. QED BY <2>2, <2>3
<1>4. ASSUME RapSubscribed PROVE TypeOK'
  <2>0. subscribing \in Seq(1..MaxRaps) /\ subscribing # << >>
    BY <1>4 DEF RapSubscribed, Idle, TypeOK
  <2>1. Len(subscribing) \in Nat /\ Len(subscribing) > 0
    BY <2>0
  <2>2. Top \in 1..MaxRaps
    <3>1. Len(subscribing) \in 1..Len(subscribing)
      BY <2>1
    <3>. QED BY <2>0, <3>1, ElementOfSeq DEF Top
  <2>3. SubSeq(subscribing, 1, Len(subscribing) - 1) \in Seq(1..MaxRaps)
    <3>1. \A i \in 1..(Len(subscribing) - 1) : subscribing[i] \in 1..MaxRaps
      <4>1. TAKE i \in 1..(Len(subscribing) - 1)
      <4>2. i \in 1..Len(subscribing)
        BY <2>1
      <4>. QED BY <2>0, <4>2, ElementOfSeq
    <3>2. 1 \in Int /\ Len(subscribing) - 1 \in Int
      BY <2>1
    <3>. QED BY <3>1, <3>2, SubSeqProperties
  <2>4. Core'
    BY <1>4, <1>0, <1>a, <2>2, <2>3 DEF RapSubscribed, outVars, Core
  <2>5. Env'
    BY <1>4, <1>d DEF RapSubscribed
  <2>. QED BY <1>e, <2>4, <2>5
<1>5. ASSUME NEW r \in live, HandleRapValueUnenforced(r) PROVE TypeOK'
  <2>1. Env'
    BY <1>0, <1>5 DEF HandleRapValueUnenforced, TakeItem, pdpVars
  <2>2. RapItem(Dropped) \in RunnerEvent
    BY DEF RapItem, Dropped, Absent, RunnerEvent, Event, EnforcementResult
  <2>3. Core'
    BY <1>5, <1>b, <1>c, <2>2 DEF HandleRapValueUnenforced
  <2>. QED BY <1>e, <2>1, <2>3
<1>6. ASSUME NEW r \in live, HandleRapValueSync(r) PROVE TypeOK'
  <2>1. Env'
    BY <1>0, <1>6 DEF HandleRapValueSync, TakeItem, pdpVars
  <2>2. NextItem(r) \in DataItem
    BY <1>0, <1>6, NextItemType DEF HandleRapValueSync, TakeItem
  <2>3. Core'
    BY <1>6, <1>b, <2>2, EventType DEF HandleRapValueSync
  <2>. QED BY <1>e, <2>1, <2>3
<1>7. ASSUME NEW r \in live, HandleRapValueAsync(r) PROVE TypeOK'
  <2>1. NextItem(r) \in DataItem
    BY <1>0, <1>7, NextItemType DEF HandleRapValueAsync, TakeItem
  <2>2. Env'
    BY <1>0, <1>7, <2>1 DEF HandleRapValueAsync, TakeItem, pdpVars
  <2>. QED BY <1>7, <1>c, <1>e, <2>2 DEF HandleRapValueAsync
<1>8. ASSUME NEW r \in live, NEW e \in RunnerEvent, RapEnds(r, e) PROVE TypeOK'
  <2>1. Env'
    BY <1>8, <1>d DEF RapEnds
  <2>2. CASE terminated
    BY <1>8, <1>a, <1>e, <2>1, <2>2 DEF RapEnds, Core, runnerVars, outVars
  <2>3. CASE ~terminated
    BY <1>8, <1>b, <1>e, <2>1, <2>3 DEF RapEnds
  <2>. QED BY <2>2, <2>3
<1>9. ASSUME NEW v \in inFlight, PerItemSettles(v) PROVE TypeOK'
  <2>1. Env'
    BY <1>0, <1>9 DEF PerItemSettles, pdpVars
  <2>2. Core'
    BY <1>0, <1>9, <1>b, <1>c, EventType DEF PerItemSettles
  <2>. QED BY <1>e, <2>1, <2>2
<1>10. ASSUME Dispose PROVE TypeOK'
  <2>1. Env'
    BY <1>10, <1>d DEF Dispose
  <2>2. Step(state, Cancel).newState \in RunnerState
    BY StepType, EventType DEF TypeOK, RunnerState, RunnerEvent, Plans
  <2>3. Core'
    BY <1>10, <1>a, <2>2, SettleType DEF Dispose, Core, EndStates
  <2>. QED BY <1>e, <2>1, <2>3
<1>11. CASE UNCHANGED vars
  BY <1>11, <1>c, <1>d, <1>e DEF vars
<1>. QED BY <1>1, <1>2, <1>3, <1>4, <1>5, <1>6, <1>7, <1>8, <1>9, <1>10, <1>11, EventType
         DEF Next, HandleRapError, HandleRapComplete

(* Every reachable value of every field has its type.                      *)
THEOREM TypeCorrect == Spec => []TypeOK
<1>1. Init => TypeOK
  <2> SUFFICES ASSUME Init PROVE TypeOK
    OBVIOUS
  <2>1. /\ state \in State(1..MaxDecisions)
        /\ rapSubscription \in 0..MaxRaps /\ opened \in 0..MaxRaps
        /\ live \subseteq 1..MaxRaps /\ inFlight \subseteq DataItem
        /\ decisions \in 0..MaxDecisions
    BY BoundAssumption DEF Init, State
  <2>2. produced \in [1..MaxRaps -> 0..MaxItems]
    BY BoundAssumption DEF Init
  <2>3. subscribing \in Seq(1..MaxRaps) /\ feed \in Seq(Delivery)
    BY DEF Init
  <2>4. terminated \in BOOLEAN /\ pdpSubscription \in BOOLEAN /\ pdpOpen \in BOOLEAN
    BY Zenon DEF Init
  <2>5. /\ latest \in Decision \cup {Contract!NoDecision}
        /\ downstream \in {"open", "errored", "completed", "cancelled"}
    BY DEF Init
  <2>. QED BY <2>1, <2>2, <2>3, <2>4, <2>5 DEF TypeOK
<1>. QED BY <1>1, NextType, PTL DEF Spec

-----------------------------------------------------------------------------
(* Safety.                                                                 *)

(* The four effects one event can have on a running stream.                *)
Runs(t) ==
    /\ state' = t
    /\ terminated' = terminated
    /\ pdpSubscription' = pdpSubscription
    /\ downstream' = downstream
    /\ ManageRapSubscription(t)

Stops(how, gone) ==
    /\ state' = TerminatedState
    /\ terminated' = TRUE
    /\ downstream' = how
    /\ ReleaseInnerSubscriptions(gone)

Silently(t) == feed' = feed /\ Runs(t)

Delivers(x, t, gone) == feed' = Append(feed, x) /\ (Runs(t) \/ Stops("cancelled", gone))

Ends(how, gone) == feed' = feed /\ Stops(how, gone)

Running == ~terminated /\ state.type # "Terminated" /\ downstream = "open"

-----------------------------------------------------------------------------
(* Rendering of each emission (renderEmission, renderTransition).          *)
LEMMA Renderings ==
    /\ Rendered(<< >>) = << >> /\ EndedBy(<< >>) = downstream
    /\ \A v : Rendered(<< Emit(v) >>) = << v >> /\ EndedBy(<< Emit(v) >>) = downstream
    /\ \A k : Rendered(<< EmitError(k) >>) = << >> /\ EndedBy(<< EmitError(k) >>) = "errored"
    /\ Rendered(<< EmitComplete >>) = << >> /\ EndedBy(<< EmitComplete >>) = "completed"
    /\ \A r : EndedBy(<< EmitTransition(r) >>) = downstream
    /\ Rendered(<< EmitTransition("Granted") >>) =
         IF SignalTransitions THEN << Contract!Signal("granted") >> ELSE << >>
    /\ Rendered(<< EmitTransition("Suspended") >>) =
         IF SignalTransitions THEN << Contract!Signal("withheld") >> ELSE << >>
<1>1. \A x : << x >> # << >> /\ << x >>[1] = x
  OBVIOUS
<1>2. Rendered(<< >>) = << >> /\ EndedBy(<< >>) = downstream
  BY DEF Rendered, EndedBy
<1>3. ASSUME NEW v PROVE Rendered(<< Emit(v) >>) = << v >> /\ EndedBy(<< Emit(v) >>) = downstream
  <2>1. Emit(v).type = "Emit" /\ Emit(v).value = v
    BY DEF Emit
  <2>2. Rendered(<< Emit(v) >>) = << v >>
    BY <1>1, <2>1 DEF Rendered
  <2>3. EndedBy(<< Emit(v) >>) = downstream
    BY <1>1, <2>1, Zenon DEF EndedBy
  <2>. QED BY <2>2, <2>3
<1>4. ASSUME NEW k PROVE Rendered(<< EmitError(k) >>) = << >> /\ EndedBy(<< EmitError(k) >>) = "errored"
  <2>1. EmitError(k).type = "EmitError"
    BY DEF EmitError
  <2>2. Rendered(<< EmitError(k) >>) = << >>
    BY <1>1, <2>1 DEF Rendered
  <2>3. EndedBy(<< EmitError(k) >>) = "errored"
    BY <1>1, <2>1, Zenon DEF EndedBy
  <2>. QED BY <2>2, <2>3
<1>5. Rendered(<< EmitComplete >>) = << >> /\ EndedBy(<< EmitComplete >>) = "completed"
  <2>1. EmitComplete.type = "EmitComplete"
    BY DEF EmitComplete
  <2>2. Rendered(<< EmitComplete >>) = << >>
    BY <1>1, <2>1 DEF Rendered
  <2>3. EndedBy(<< EmitComplete >>) = "completed"
    BY <1>1, <2>1, Zenon DEF EndedBy
  <2>. QED BY <2>2, <2>3
<1>6. ASSUME NEW r PROVE EndedBy(<< EmitTransition(r) >>) = downstream
  <2>1. EmitTransition(r).type = "EmitTransition"
    BY DEF EmitTransition
  <2>. QED BY <1>1, <2>1, Zenon DEF EndedBy
<1>7. Rendered(<< EmitTransition("Granted") >>) =
         IF SignalTransitions THEN << Contract!Signal("granted") >> ELSE << >>
  <2>1. /\ EmitTransition("Granted").type = "EmitTransition"
        /\ EmitTransition("Granted").reason = "Granted"
    BY DEF EmitTransition
  <2>. QED BY <1>1, <2>1 DEF Rendered
<1>8. Rendered(<< EmitTransition("Suspended") >>) =
         IF SignalTransitions THEN << Contract!Signal("withheld") >> ELSE << >>
  <2>1. /\ EmitTransition("Suspended").type = "EmitTransition"
        /\ EmitTransition("Suspended").reason = "Suspended"
    BY DEF EmitTransition
  <2>. QED BY <1>1, <2>1 DEF Rendered
<1>. QED BY <1>2, <1>3, <1>4, <1>5, <1>6, <1>7, <1>8

(* Settling in a terminated or another state (processEvent).               *)
LEMMA Settled ==
    ASSUME NEW t, NEW gone, Settle(t, gone)
    PROVE  /\ t.type # "Terminated" /\ downstream' = downstream => Runs(t)
           /\ t = TerminatedState => Stops(downstream', gone)
<1>1. t.type # "Terminated" /\ downstream' = downstream => Runs(t)
  BY DEF Settle, Runs
<1>2. t = TerminatedState => Stops(downstream', gone)
  BY DEF Settle, Stops, TerminatedState
<1>. QED BY <1>1, <1>2

(* A step whose emissions render to nothing, and one that delivers x.      *)
LEMMA StepEffect ==
    ASSUME TypeOK, Running, NEW e, NEW gone, ProcessEvent(e, gone),
           NEW t, NEW ms, Step(state, e) = StepTo(t, ms)
    PROVE  /\ Rendered(ms) = << >> => /\ feed' = feed /\ downstream' = EndedBy(ms)
                                      /\ Settle(t, gone)
           /\ \A x : Rendered(ms) = << x >> =>
                /\ feed' = Append(feed, x)
                /\ \/ downstream' = EndedBy(ms) /\ Settle(t, gone)
                   \/ downstream' = "cancelled" /\ Settle(TerminatedState, gone)
<1>1. Step(state, e).emissions = ms /\ Step(state, e).newState = t
  BY DEF StepTo
<1>2. feed \in Seq(Delivery) /\ downstream = "open"
  BY DEF TypeOK, Running
<1>3. /\ feed' = feed \o Rendered(ms)
      /\ \/ downstream' = EndedBy(ms) /\ Settle(t, gone)
         \/ Rendered(ms) # << >> /\ downstream' = "cancelled" /\ Settle(TerminatedState, gone)
  BY <1>1, <1>2 DEF ProcessEvent
<1>4. feed \o << >> = feed
  BY <1>2
<1>5. \A x : feed \o << x >> = Append(feed, x)
  BY <1>2
<1>. QED BY <1>3, <1>4, <1>5

-----------------------------------------------------------------------------
(* What each event of the machine's alphabet does to a running stream.     *)
LEMMA Effects ==
    ASSUME TypeOK, Running, NEW gone
    PROVE  /\ \A p : ProcessEvent(PdpPermit(p), gone) =>
                IF state.type = "Permitting" \/ ~SignalTransitions
                  THEN Silently(PermittingState(p))
                  ELSE Delivers(Contract!Signal("granted"), PermittingState(p), gone)
           /\ ProcessEvent(PdpSuspend, gone) =>
                IF state.type = "Suspended" \/ ~SignalTransitions
                  THEN Silently(SuspendedState)
                  ELSE Delivers(Contract!Signal("withheld"), SuspendedState, gone)
           /\ \A e \in {PdpDeny, PdpError, RapError} : ProcessEvent(e, gone) => Ends("errored", gone)
           /\ ProcessEvent(RapComplete, gone) => Ends("completed", gone)
           /\ \A r : ProcessEvent(RapItem(r), gone) =>
                IF r.failureState THEN Ends("errored", gone)
                ELSE IF state.type = "Permitting" /\ r.value.type = "Present"
                THEN Delivers(r.value.value, state, gone)
                ELSE Silently(state)
<1>0. state.type # "Terminated" /\ downstream = "open"
  BY DEF Running
<1>a. ASSUME NEW e, ProcessEvent(e, gone), NEW t, t.type # "Terminated",
             Step(state, e) = StepTo(t, << >>)
      PROVE  Silently(t)
  <2>1. feed' = feed /\ downstream' = downstream /\ Settle(t, gone)
    BY <1>a, StepEffect, Renderings
  <2>. QED BY <1>a, <2>1, Settled DEF Silently
<1>b. ASSUME NEW e, ProcessEvent(e, gone), NEW t, t.type # "Terminated", NEW m, NEW x,
             Step(state, e) = StepTo(t, << m >>),
             Rendered(<< m >>) = << x >>, EndedBy(<< m >>) = downstream
      PROVE  Delivers(x, t, gone)
  <2>1. /\ feed' = Append(feed, x)
        /\ \/ downstream' = downstream /\ Settle(t, gone)
           \/ downstream' = "cancelled" /\ Settle(TerminatedState, gone)
    BY <1>b, StepEffect
  <2>2. Runs(t) \/ Stops("cancelled", gone)
    BY <1>b, <2>1, Settled
  <2>. QED BY <2>1, <2>2 DEF Delivers
<1>c. ASSUME NEW e, ProcessEvent(e, gone), NEW t, t.type # "Terminated", NEW m,
             Step(state, e) = StepTo(t, << m >>),
             Rendered(<< m >>) = << >>, EndedBy(<< m >>) = downstream
      PROVE  Silently(t)
  <2>1. feed' = feed /\ downstream' = downstream /\ Settle(t, gone)
    BY <1>c, StepEffect
  <2>. QED BY <1>c, <2>1, Settled DEF Silently
<1>d. ASSUME NEW e, ProcessEvent(e, gone), NEW m, NEW how,
             Step(state, e) = StepTo(TerminatedState, << m >>),
             Rendered(<< m >>) = << >>, EndedBy(<< m >>) = how
      PROVE  Ends(how, gone)
  <2>1. feed' = feed /\ downstream' = how /\ Settle(TerminatedState, gone)
    BY <1>d, StepEffect
  <2>. QED BY <2>1, Settled DEF Ends
<1>1. ASSUME NEW p, ProcessEvent(PdpPermit(p), gone)
      PROVE  IF state.type = "Permitting" \/ ~SignalTransitions
               THEN Silently(PermittingState(p))
               ELSE Delivers(Contract!Signal("granted"), PermittingState(p), gone)
  <2>1. /\ Step(state, PdpPermit(p)) = HandlePermit(state, p)
        /\ PermittingState(p).type # "Terminated"
    BY <1>0, StepCases DEF PermittingState
  <2>2. CASE state.type = "Permitting"
    <3>1. Step(state, PdpPermit(p)) = StepTo(PermittingState(p), << >>)
      BY <2>1, <2>2 DEF HandlePermit
    <3>. QED BY <1>1, <1>a, <2>1, <2>2, <3>1
  <2>3. CASE state.type # "Permitting"
    <3>1. Step(state, PdpPermit(p)) = StepTo(PermittingState(p), << EmitTransition("Granted") >>)
      BY <2>1, <2>3 DEF HandlePermit
    <3>2. CASE SignalTransitions
      BY <1>1, <1>b, <2>1, <2>3, <3>1, <3>2, Renderings
    <3>3. CASE ~SignalTransitions
      BY <1>1, <1>c, <2>1, <2>3, <3>1, <3>3, Renderings
    <3>. QED BY <3>2, <3>3
  <2>. QED BY <2>2, <2>3
<1>2. ASSUME ProcessEvent(PdpSuspend, gone)
      PROVE  IF state.type = "Suspended" \/ ~SignalTransitions
               THEN Silently(SuspendedState)
               ELSE Delivers(Contract!Signal("withheld"), SuspendedState, gone)
  <2>1. /\ Step(state, PdpSuspend) = HandleSuspend(state)
        /\ SuspendedState.type # "Terminated"
    BY <1>0, StepCases DEF SuspendedState
  <2>2. CASE state.type = "Suspended"
    <3>1. Step(state, PdpSuspend) = StepTo(SuspendedState, << >>)
      BY <2>1, <2>2 DEF HandleSuspend
    <3>. QED BY <1>2, <1>a, <2>1, <2>2, <3>1
  <2>3. CASE state.type # "Suspended"
    <3>1. Step(state, PdpSuspend) = StepTo(SuspendedState, << EmitTransition("Suspended") >>)
      BY <2>1, <2>3 DEF HandleSuspend
    <3>2. CASE SignalTransitions
      BY <1>2, <1>b, <2>1, <2>3, <3>1, <3>2, Renderings
    <3>3. CASE ~SignalTransitions
      BY <1>2, <1>c, <2>1, <2>3, <3>1, <3>3, Renderings
    <3>. QED BY <3>2, <3>3
  <2>. QED BY <2>2, <2>3
<1>3. ASSUME NEW e \in {PdpDeny, PdpError, RapError}, ProcessEvent(e, gone)
      PROVE  Ends("errored", gone)
  <2>1. \E k : Step(state, e) = StepTo(TerminatedState, << EmitError(k) >>)
    BY <1>0, StepCases DEF HandleDeny
  <2>. QED BY <1>3, <1>d, <2>1, Renderings
<1>4. ASSUME ProcessEvent(RapComplete, gone) PROVE Ends("completed", gone)
  <2>1. Step(state, RapComplete) = StepTo(TerminatedState, << EmitComplete >>)
    BY <1>0, StepCases
  <2>. QED BY <1>4, <1>d, <2>1, Renderings
<1>5. ASSUME NEW r, ProcessEvent(RapItem(r), gone)
      PROVE  IF r.failureState THEN Ends("errored", gone)
             ELSE IF state.type = "Permitting" /\ r.value.type = "Present"
             THEN Delivers(r.value.value, state, gone)
             ELSE Silently(state)
  <2>1. Step(state, RapItem(r)) = HandleItem(state, r)
    BY <1>0, StepCases
  <2>2. ASSUME r.failureState PROVE Ends("errored", gone)
    <3>1. Step(state, RapItem(r)) = StepTo(TerminatedState, << EmitError("AccessDenied") >>)
      BY <2>1, <2>2 DEF HandleItem, HandleDeny
    <3>. QED BY <1>5, <1>d, <3>1, Renderings
  <2>3. ASSUME ~r.failureState, state.type = "Permitting", r.value.type = "Present"
        PROVE  Delivers(r.value.value, state, gone)
    <3>1. Step(state, RapItem(r)) = StepTo(state, << Emit(r.value.value) >>)
      BY <2>1, <2>3 DEF HandleItem, PermittingItem
    <3>. QED BY <1>0, <1>5, <1>b, <3>1, Renderings
  <2>4. ASSUME ~r.failureState, ~(state.type = "Permitting" /\ r.value.type = "Present")
        PROVE  Silently(state)
    <3>1. Step(state, RapItem(r)) = StepTo(state, << >>)
      BY <2>1, <2>4 DEF HandleItem, PermittingItem
    <3>. QED BY <1>0, <1>5, <1>a, <3>1
  <2>. QED BY <2>2, <2>3, <2>4
<1>. QED BY <1>1, <1>2, <1>3, <1>4, <1>5

-----------------------------------------------------------------------------
(* The inductive invariant.  DecisionInForce alone is not inductive: that  *)
(* an event finds a running machine rests on the agreement of the three    *)
(* places that record the end of a stream.                                 *)

Lifecycle ==
    /\ terminated <=> state = TerminatedState
    /\ terminated <=> downstream # "open"
    /\ pdpSubscription <=> ~terminated

Obeys(access) ==
    /\ access = "none"     => state = PendingState
    /\ access = "granted"  => state = PermittingState(decisions)
    /\ access = "withheld" => state = SuspendedState

InForce ==
    LET access == Contract!Access(latest) IN
    /\ access = "refused" => terminated /\ downstream = "errored"
    /\ ~terminated => Obeys(access)

IInv == TypeOK /\ Lifecycle /\ InForce

LEMMA RunningStream == ASSUME TypeOK, Lifecycle, ~terminated PROVE Running
  BY DEF Lifecycle, Running, TypeOK, State, PendingState, SuspendedState, TerminatedState

LEMMA RunsOn ==
    ASSUME TypeOK, Lifecycle, ~terminated, NEW t, t.type # "Terminated", Runs(t)
    PROVE  Lifecycle' /\ ~terminated' /\ state' = t /\ downstream' = "open"
<1>1. t # TerminatedState
  BY DEF TerminatedState
<1>. QED BY <1>1 DEF Runs, Lifecycle

LEMMA StopsHere ==
    ASSUME NEW how, how # "open", NEW gone, Stops(how, gone)
    PROVE  Lifecycle' /\ terminated' /\ downstream' = how
  BY DEF Stops, Lifecycle, ReleaseInnerSubscriptions

(* One of the events leaves a stream running, or stops it; it never makes  *)
(* it pending again.                                                       *)
LEMMA Outcome ==
    ASSUME TypeOK, Lifecycle, ~terminated, NEW e \in RunnerEvent, e # Cancel,
           NEW gone, ProcessEvent(e, gone)
    PROVE  \/ \E t \in RunnerState : /\ t.type # "Terminated"
                                     /\ t.type = "Pending" => t = state
                                     /\ Runs(t)
           \/ \E how \in {"errored", "completed", "cancelled"} : Stops(how, gone)
<1> DEFINE Kept    == \E t \in RunnerState : /\ t.type # "Terminated"
                                             /\ t.type = "Pending" => t = state
                                             /\ Runs(t)
           Stopped == \E how \in {"errored", "completed", "cancelled"} : Stops(how, gone)
<1>0. Running /\ state \in RunnerState
  BY RunningStream DEF TypeOK, RunnerState, Plans
<1>a. ASSUME NEW t \in RunnerState, t.type # "Terminated", t.type = "Pending" => t = state
      PROVE  /\ Silently(t) => Kept
             /\ \A x : Delivers(x, t, gone) => Kept \/ Stopped
  BY <1>a DEF Silently, Delivers
<1>b. \A how \in {"errored", "completed", "cancelled"} : Ends(how, gone) => Stopped
  BY DEF Ends
<1> HIDE DEF Kept, Stopped
<1>1. ASSUME e \in {RapComplete, RapError, PdpError, PdpDeny} PROVE Kept \/ Stopped
  BY <1>0, <1>1, <1>b, Effects
<1>2. ASSUME e = PdpSuspend PROVE Kept \/ Stopped
  <2>1. SuspendedState \in RunnerState /\ SuspendedState.type = "Suspended"
    BY DEF RunnerState, State, SuspendedState
  <2>2. ProcessEvent(PdpSuspend, gone)
    BY <1>2
  <2>3. Silently(SuspendedState) \/ \E x : Delivers(x, SuspendedState, gone)
    BY <1>0, <2>2, Effects
  <2>. QED BY <1>a, <2>1, <2>3
<1>3. ASSUME NEW p \in Plans, e = PdpPermit(p) PROVE Kept \/ Stopped
  <2>1. PermittingState(p) \in RunnerState /\ PermittingState(p).type = "Permitting"
    BY DEF RunnerState, State, PermittingState
  <2>. QED BY <1>0, <1>3, <1>a, <2>1, Effects
<1>4. ASSUME NEW r \in EnforcementResult(DataItem), e = RapItem(r) PROVE Kept \/ Stopped
  <2>1. state.type # "Terminated"
    BY <1>0 DEF Running
  <2>. QED BY <1>0, <1>4, <1>a, <1>b, <2>1, Effects
<1>5. Kept \/ Stopped
  BY <1>1, <1>2, <1>3, <1>4, EventCases DEF RunnerEvent
<1>. QED BY <1>5 DEF Kept, Stopped

(* A decision is routed by the side of the boundary it puts the stream on  *)
(* (classify).                                                             *)
LEMMA Routing ==
    ASSUME NEW d \in Decision, NEW p
    PROVE  \/ Contract!Access(d) = "granted" /\ Classify(d, p) = PdpPermit(p)
           \/ Contract!Access(d) = "withheld" /\ Classify(d, p) = PdpSuspend
           \/ Contract!Access(d) = "refused" /\ Classify(d, p) = PdpDeny
<1>1. d.verb \in Contract!Verbs /\ d.failed \in BOOLEAN
  BY DEF Decision
<1>2. ASSUME d.verb = "SUSPEND"
      PROVE  Contract!Access(d) = "withheld" /\ Classify(d, p) = PdpSuspend
  BY <1>2, Zenon DEF Contract!Access, Classify
<1>3. ASSUME d.verb = "PERMIT", d.failed
      PROVE  Contract!Access(d) = "refused" /\ Classify(d, p) = PdpDeny
  BY <1>3, Zenon DEF Contract!Access, Classify
<1>4. ASSUME d.verb = "PERMIT", ~d.failed
      PROVE  Contract!Access(d) = "granted" /\ Classify(d, p) = PdpPermit(p)
  BY <1>4, Zenon DEF Contract!Access, Classify
<1>5. ASSUME d.verb # "SUSPEND", d.verb # "PERMIT"
      PROVE  Contract!Access(d) = "refused" /\ Classify(d, p) = PdpDeny
  <2>1. d.verb # "NONE"
    BY <1>1 DEF Contract!Verbs
  <2>. QED BY <1>5, <2>1, Zenon DEF Contract!Access, Classify
<1>. QED BY <1>2, <1>3, <1>4, <1>5

LEMMA NoAccessYet == Contract!Access(Contract!NoDecision) = "none"
<1>1. Contract!NoDecision.verb = "NONE"
  BY DEF Contract!NoDecision
<1>. QED BY <1>1, Zenon DEF Contract!Access

LEMMA AccessValues ==
    ASSUME NEW d \in Decision \cup {Contract!NoDecision}
    PROVE  Contract!Access(d) \in {"none", "granted", "withheld", "refused"}
  BY Routing, NoAccessYet

(* Processing a decision puts the machine where the decision says.         *)
LEMMA Decided ==
    ASSUME TypeOK, Lifecycle, ~terminated, NEW d \in Decision, latest' = d,
           ProcessEvent(Classify(d, decisions'), {})
    PROVE  Lifecycle' /\ InForce'
<1> DEFINE access == Contract!Access(d)
<1>0. Running
  BY RunningStream
<1>1. CASE access = "granted"
  <2> DEFINE t == PermittingState(decisions')
  <2>1. ProcessEvent(PdpPermit(decisions'), {}) /\ t.type # "Terminated"
    BY <1>1, Routing DEF PermittingState
  <2>2. Runs(t) \/ Stops("cancelled", {})
    BY <1>0, <2>1, Effects DEF Silently, Delivers
  <2>3. CASE Runs(t)
    BY <1>1, <2>1, <2>3, RunsOn DEF InForce, Obeys
  <2>4. CASE Stops("cancelled", {})
    BY <1>1, <2>4, StopsHere DEF InForce
  <2>. QED BY <2>2, <2>3, <2>4
<1>2. CASE access = "withheld"
  <2>1. ProcessEvent(PdpSuspend, {}) /\ SuspendedState.type # "Terminated"
    BY <1>2, Routing DEF SuspendedState
  <2>2. Runs(SuspendedState) \/ Stops("cancelled", {})
    BY <1>0, <2>1, Effects DEF Silently, Delivers
  <2>3. CASE Runs(SuspendedState)
    BY <1>2, <2>1, <2>3, RunsOn DEF InForce, Obeys
  <2>4. CASE Stops("cancelled", {})
    BY <1>2, <2>4, StopsHere DEF InForce
  <2>. QED BY <2>2, <2>3, <2>4
<1>3. CASE access = "refused"
  <2>1. ProcessEvent(PdpDeny, {})
    BY <1>3, Routing
  <2>2. Stops("errored", {})
    BY <1>0, <2>1, Effects DEF Ends
  <2>. QED BY <1>3, <2>2, StopsHere DEF InForce
<1>. QED BY <1>1, <1>2, <1>3, Routing

(* Any other event leaves the decision in force: the machine keeps its     *)
(* state or the stream ends.                                               *)
LEMMA Undecided ==
    ASSUME TypeOK, Lifecycle, InForce, ~terminated,
           latest' = latest, decisions' = decisions,
           \/ \E how \in {"errored", "completed", "cancelled"} : \E gone : Stops(how, gone)
           \/ Runs(state)
    PROVE  Lifecycle' /\ InForce'
<1>1. Contract!Access(latest) # "refused"
  BY DEF InForce
<1>2. ASSUME NEW how \in {"errored", "completed", "cancelled"}, NEW gone, Stops(how, gone)
      PROVE  Lifecycle' /\ InForce'
  BY <1>1, <1>2, StopsHere DEF InForce
<1>3. CASE Runs(state)
  <2>1. Lifecycle' /\ ~terminated' /\ state' = state
    BY <1>3, RunningStream, RunsOn DEF Running
  <2>. QED BY <1>1, <2>1 DEF InForce, Obeys
<1>. QED BY <1>2, <1>3

LEMMA ItemEffect ==
    ASSUME TypeOK, Lifecycle, ~terminated, NEW r, NEW gone, ProcessEvent(RapItem(r), gone)
    PROVE  Runs(state) \/ \E how \in {"errored", "completed", "cancelled"} : Stops(how, gone)
<1>1. Running
  BY RunningStream
<1>. QED BY <1>1, Effects DEF Ends, Silently, Delivers

(* Every step that keeps the runner's own fields keeps the invariant.      *)
LEMMA Untouched ==
    ASSUME Lifecycle, InForce, latest' = latest, decisions' = decisions,
           state' = state, terminated' = terminated, pdpSubscription' = pdpSubscription,
           downstream' = downstream
    PROVE  Lifecycle' /\ InForce'
  BY DEF Lifecycle, InForce, Obeys

(* The state in force is the state of the last decision, in every          *)
(* reachable state of the runner.                                          *)
LEMMA Inductive == IInv /\ TypeOK' /\ [Next]_vars => IInv'
<1> SUFFICES ASSUME IInv, TypeOK', [Next]_vars PROVE Lifecycle' /\ InForce'
  BY DEF IInv
<1> USE DEF IInv
<1>1. ASSUME NEW d \in Decision, HandlePdpDecision(d) PROVE Lifecycle' /\ InForce'
  BY <1>1, Decided DEF HandlePdpDecision
<1>2. ASSUME HandlePdpError PROVE Lifecycle' /\ InForce'
  <2>1. Stops("errored", {})
    BY <1>2, RunningStream, Effects DEF HandlePdpError, Ends
  <2>. QED BY <1>2, <2>1, Undecided DEF HandlePdpError
<1>3. ASSUME PdpCompletes PROVE Lifecycle' /\ InForce'
  <2>1. CASE decisions = 0
    <3>1. /\ latest' = [verb |-> "DENY", failed |-> FALSE] /\ decisions' = 1
          /\ ProcessEvent(Classify(latest', 1), {}) /\ pdpSubscription
      BY <1>3, <2>1 DEF PdpCompletes, PdpDelivers
    <3>2. latest' \in Decision
      BY <3>1 DEF Decision, Contract!Verbs
    <3>3. ~terminated
      BY <3>1 DEF Lifecycle
    <3>. QED BY <3>1, <3>2, <3>3, Decided
  <2>2. CASE decisions # 0
    BY <1>3, <2>2, Untouched DEF PdpCompletes, runnerVars, outVars
  <2>. QED BY <2>1, <2>2
<1>4. ASSUME RapSubscribed PROVE Lifecycle' /\ InForce'
  BY <1>4, Untouched DEF RapSubscribed, pdpVars, outVars
<1>5. ASSUME NEW r \in live, HandleRapValueUnenforced(r) PROVE Lifecycle' /\ InForce'
  <2>1. CASE terminated
    BY <1>5, <2>1, Untouched DEF HandleRapValueUnenforced, pdpVars, outVars, runnerVars
  <2>2. CASE ~terminated
    BY <1>5, <2>2, ItemEffect, Undecided DEF HandleRapValueUnenforced, pdpVars
  <2>. QED BY <2>1, <2>2
<1>6. ASSUME NEW r \in live, HandleRapValueSync(r) PROVE Lifecycle' /\ InForce'
  BY <1>6, ItemEffect, Undecided DEF HandleRapValueSync, pdpVars
<1>7. ASSUME NEW r \in live, HandleRapValueAsync(r) PROVE Lifecycle' /\ InForce'
  BY <1>7, Untouched DEF HandleRapValueAsync, pdpVars, outVars, runnerVars
<1>8. ASSUME NEW r \in live, HandleRapError(r) \/ HandleRapComplete(r) PROVE Lifecycle' /\ InForce'
  <2>1. latest' = latest /\ decisions' = decisions
    BY <1>8 DEF HandleRapError, HandleRapComplete, RapEnds, pdpVars
  <2>2. CASE terminated
    BY <1>8, <2>1, <2>2, Untouched DEF HandleRapError, HandleRapComplete, RapEnds, runnerVars, outVars
  <2>3. CASE ~terminated
    <3>1. Ends("errored", {r}) \/ Ends("completed", {r})
      BY <1>8, <2>3, RunningStream, Effects DEF HandleRapError, HandleRapComplete, RapEnds
    <3>. QED BY <2>1, <2>3, <3>1, Undecided DEF Ends
  <2>. QED BY <2>2, <2>3
<1>9. ASSUME NEW v \in inFlight, PerItemSettles(v) PROVE Lifecycle' /\ InForce'
  <2>1. CASE terminated
    BY <1>9, <2>1, Untouched DEF PerItemSettles, pdpVars, outVars, runnerVars
  <2>2. CASE ~terminated
    BY <1>9, <2>2, ItemEffect, Undecided DEF PerItemSettles, pdpVars
  <2>. QED BY <2>1, <2>2
<1>10. ASSUME Dispose PROVE Lifecycle' /\ InForce'
  <2>1. ~terminated
    BY <1>10 DEF Dispose, Lifecycle
  <2>2. Step(state, Cancel).newState = TerminatedState
    BY <2>1, RunningStream, StepCases DEF Running, StepTo
  <2>3. Stops("cancelled", {})
    BY <1>10, <2>2, Settled DEF Dispose
  <2>. QED BY <1>10, <2>1, <2>3, Undecided DEF Dispose, pdpVars
<1>11. CASE UNCHANGED vars
  BY <1>11, Untouched DEF vars, runnerVars, pdpVars, outVars
<1>. QED BY <1>1, <1>2, <1>3, <1>4, <1>5, <1>6, <1>7, <1>8, <1>9, <1>10, <1>11 DEF Next

LEMMA InvariantHolds == Spec => []IInv
<1>1. Init => Lifecycle /\ InForce
  <2> SUFFICES ASSUME Init PROVE Lifecycle /\ InForce
    OBVIOUS
  <2>1. Lifecycle
    BY DEF Init, Lifecycle, PendingState, TerminatedState
  <2>2. Contract!Access(latest) = "none" /\ state = PendingState
    BY NoAccessYet DEF Init
  <2>3. InForce
    BY <2>2 DEF InForce, Obeys
  <2>. QED BY <2>1, <2>3
<1>2. TypeOK /\ Lifecycle /\ InForce => IInv
  BY DEF IInv
<1>. QED BY <1>1, <1>2, TypeCorrect, Inductive, PTL DEF Spec

(* While the stream runs, the machine is where the most recent decision    *)
(* puts it, under that decision's own plan, and a refusal has ended it     *)
(* with an error: for every setting of the flags, promises and reentrant   *)
(* sources included, and any number of decisions, subscriptions and items. *)
THEOREM DecisionAlwaysInForce == Spec => []DecisionInForce
<1>1. IInv => DecisionInForce
  <2> SUFFICES ASSUME IInv PROVE DecisionInForce
    OBVIOUS
  <2>1. Contract!Access(latest) \in {"none", "granted", "withheld", "refused"}
    BY AccessValues DEF IInv, TypeOK
  <2>2. (Contract!Access(latest) = "refused" => terminated /\ downstream = "errored")
    BY DEF IInv, InForce
  <2>3. ~terminated => CASE Contract!Access(latest) = "none"     -> state = PendingState
                         [] Contract!Access(latest) = "granted"  -> state = PermittingState(decisions)
                         [] Contract!Access(latest) = "withheld" -> state = SuspendedState
                         [] OTHER               -> FALSE
    BY <2>1, <2>2, Zenon DEF IInv, InForce, Obeys
  <2>. QED BY <2>2, <2>3, Zenon DEF DecisionInForce
<1>. QED BY <1>1, InvariantHolds, PTL

-----------------------------------------------------------------------------
(* Releases.  What a step may put on `next`: a boundary signal, or, while  *)
(* permitting, an item that a plan has just passed.                        *)

Enforced(v) == v \in inFlight \/ \E r \in live : TakeItem(r) /\ v = NextItem(r)

(* The machine stays on its side of the boundary, or ends.                 *)
Stays == state'.type \in {state.type, "Terminated"}

SideOf(type) == IF type = "Permitting" THEN "granted" ELSE "withheld"

SignalReleased ==
    /\ ~terminated
    /\ \E t \in {"Permitting", "Suspended"} :
         /\ state.type # t
         /\ state'.type \in {t, "Terminated"}
         /\ feed' = Append(feed, Contract!Signal(SideOf(t)))

ItemReleased ==
    /\ Stays
    /\ state.type = "Permitting"
    /\ ~terminated
    /\ UNCHANGED << latest, decisions >>
    /\ \E v : Enforced(v) /\ feed' = Append(feed, v)

(* The type of the state after each of the four effects.                   *)
LEMMA Afterwards ==
    ASSUME NEW t, NEW gone, NEW x, NEW how
    PROVE  /\ Runs(t) => state' = t
           /\ Silently(t) => feed' = feed /\ state' = t
           /\ Delivers(x, t, gone) => /\ feed' = Append(feed, x)
                                     /\ state'.type \in {t.type, "Terminated"}
           /\ Ends(how, gone) => feed' = feed /\ state'.type = "Terminated"
  BY DEF Runs, Stops, Silently, Delivers, Ends, TerminatedState

LEMMA ReleaseOfItem ==
    ASSUME TypeOK, Lifecycle, ~terminated, NEW v, Enforced(v), NEW gone,
           NEW result \in {Dropped, Failed, Passed(v)}, ProcessEvent(RapItem(result), gone),
           UNCHANGED << latest, decisions >>
    PROVE  (feed' = feed /\ Stays) \/ ItemReleased
<1>1. Running
  BY RunningStream
<1>2. /\ Dropped.value.type = "Absent" /\ Failed.value.type = "Absent"
      /\ Passed(v).value.type = "Present" /\ Passed(v).value.value = v
  BY DEF Dropped, Failed, Passed, Absent, Present
<1>3. CASE state.type = "Permitting" /\ result.value.type = "Present"
  <2>1. result.value.value = v
    BY <1>2, <1>3
  <2>2. Ends("errored", gone) \/ Delivers(v, state, gone)
    BY <1>1, <1>3, <2>1, Effects
  <2>. QED BY <1>3, <2>2, Afterwards DEF ItemReleased, Stays
<1>4. CASE ~(state.type = "Permitting" /\ result.value.type = "Present")
  <2>1. Ends("errored", gone) \/ Silently(state)
    BY <1>1, <1>4, Effects
  <2>. QED BY <2>1, Afterwards DEF Stays
<1>. QED BY <1>3, <1>4

LEMMA ReleaseOfSignal ==
    ASSUME TypeOK, Lifecycle, ~terminated, NEW d \in Decision, NEW p,
           ProcessEvent(Classify(d, p), {})
    PROVE  \/ feed' = feed /\ (SignalTransitions => Stays)
           \/ SignalReleased
<1>1. Running
  BY RunningStream
<1>2. CASE Classify(d, p) = PdpPermit(p)
  <2>1. PermittingState(p).type = "Permitting" /\ SideOf("Permitting") = "granted"
    BY DEF PermittingState, SideOf
  <2>2. CASE state.type = "Permitting" \/ ~SignalTransitions
    <3>1. Silently(PermittingState(p))
      BY <1>1, <1>2, <2>2, Effects
    <3>. QED BY <2>1, <2>2, <3>1, Afterwards DEF Stays
  <2>3. CASE ~(state.type = "Permitting" \/ ~SignalTransitions)
    <3>1. Delivers(Contract!Signal("granted"), PermittingState(p), {})
      BY <1>1, <1>2, <2>3, Effects
    <3>. QED BY <1>1, <2>1, <2>3, <3>1, Afterwards DEF SignalReleased, Running
  <2>. QED BY <2>2, <2>3
<1>3. CASE Classify(d, p) = PdpSuspend
  <2>1. SuspendedState.type = "Suspended" /\ SideOf("Suspended") = "withheld"
    BY DEF SuspendedState, SideOf
  <2>2. CASE state.type = "Suspended" \/ ~SignalTransitions
    <3>1. Silently(SuspendedState)
      BY <1>1, <1>3, <2>2, Effects
    <3>. QED BY <2>1, <2>2, <3>1, Afterwards DEF Stays
  <2>3. CASE ~(state.type = "Suspended" \/ ~SignalTransitions)
    <3>1. Delivers(Contract!Signal("withheld"), SuspendedState, {})
      BY <1>1, <1>3, <2>3, Effects
    <3>. QED BY <1>1, <2>1, <2>3, <3>1, Afterwards DEF SignalReleased, Running
  <2>. QED BY <2>2, <2>3
<1>4. CASE Classify(d, p) = PdpDeny
  <2>1. Ends("errored", {})
    BY <1>1, <1>4, Effects
  <2>. QED BY <2>1, Afterwards DEF Stays
<1>. QED BY <1>2, <1>3, <1>4, Routing

LEMMA Releases ==
    ASSUME IInv, [Next]_vars
    PROVE  \/ feed' = feed /\ (SignalTransitions => Stays)
           \/ SignalReleased
           \/ ItemReleased
<1> USE DEF IInv
<1>1. ASSUME NEW d \in Decision, HandlePdpDecision(d)
      PROVE  \/ feed' = feed /\ (SignalTransitions => Stays)
             \/ SignalReleased
  BY <1>1, ReleaseOfSignal DEF HandlePdpDecision
<1>2. ASSUME HandlePdpError PROVE feed' = feed /\ Stays
  BY <1>2, RunningStream, Effects, Afterwards DEF HandlePdpError, Stays
<1>3. ASSUME PdpCompletes
      PROVE  \/ feed' = feed /\ (SignalTransitions => Stays)
             \/ SignalReleased
  <2>1. CASE decisions = 0
    <3>1. /\ latest' = [verb |-> "DENY", failed |-> FALSE]
          /\ ProcessEvent(Classify(latest', 1), {}) /\ pdpSubscription
      BY <1>3, <2>1 DEF PdpCompletes, PdpDelivers
    <3>2. latest' \in Decision
      BY <3>1 DEF Decision, Contract!Verbs
    <3>. QED BY <3>1, <3>2, ReleaseOfSignal DEF Lifecycle
  <2>2. CASE decisions # 0
    BY <1>3, <2>2 DEF PdpCompletes, outVars, runnerVars, Stays
  <2>. QED BY <2>1, <2>2
<1>4. ASSUME RapSubscribed PROVE feed' = feed /\ Stays
  BY <1>4 DEF RapSubscribed, outVars, Stays
<1>5. ASSUME NEW r \in live, HandleRapValueUnenforced(r) PROVE (feed' = feed /\ Stays) \/ ItemReleased
  <2>1. Enforced(NextItem(r)) /\ UNCHANGED << latest, decisions >>
    BY <1>5 DEF Enforced, HandleRapValueUnenforced, pdpVars
  <2>. QED BY <1>5, <2>1, ReleaseOfItem DEF HandleRapValueUnenforced, outVars, runnerVars, Stays
<1>6. ASSUME NEW r \in live, HandleRapValueSync(r) PROVE (feed' = feed /\ Stays) \/ ItemReleased
  <2>1. Enforced(NextItem(r)) /\ UNCHANGED << latest, decisions >>
    BY <1>6 DEF Enforced, HandleRapValueSync, pdpVars
  <2>. QED BY <1>6, <2>1, ReleaseOfItem DEF HandleRapValueSync
<1>7. ASSUME NEW r \in live, HandleRapValueAsync(r) PROVE feed' = feed /\ Stays
  BY <1>7 DEF HandleRapValueAsync, outVars, runnerVars, Stays
<1>8. ASSUME NEW r \in live, HandleRapError(r) \/ HandleRapComplete(r) PROVE feed' = feed /\ Stays
  <2>1. CASE terminated
    BY <1>8, <2>1 DEF HandleRapError, HandleRapComplete, RapEnds, outVars, runnerVars, Stays
  <2>2. CASE ~terminated
    <3>1. Ends("errored", {r}) \/ Ends("completed", {r})
      BY <1>8, <2>2, RunningStream, Effects DEF HandleRapError, HandleRapComplete, RapEnds
    <3>. QED BY <3>1, Afterwards DEF Stays
  <2>. QED BY <2>1, <2>2
<1>9. ASSUME NEW v \in inFlight, PerItemSettles(v) PROVE (feed' = feed /\ Stays) \/ ItemReleased
  <2>1. Enforced(v) /\ UNCHANGED << latest, decisions >>
    BY <1>9 DEF Enforced, PerItemSettles, pdpVars
  <2>. QED BY <1>9, <2>1, ReleaseOfItem DEF PerItemSettles, outVars, runnerVars, Stays
<1>10. ASSUME Dispose PROVE feed' = feed /\ Stays
  <2>1. Step(state, Cancel).newState = TerminatedState
    BY <1>10, RunningStream, StepCases DEF Dispose, Lifecycle, Running, StepTo
  <2>. QED BY <1>10, <2>1 DEF Dispose, Settle, Stays, TerminatedState
<1>11. CASE UNCHANGED vars
  BY <1>11 DEF vars, outVars, runnerVars, Stays
<1>. QED BY <1>1, <1>2, <1>3, <1>4, <1>5, <1>6, <1>7, <1>8, <1>9, <1>10, <1>11 DEF Next

(* A permitting machine is one whose most recent decision grants access.   *)
LEMMA PermittingIsGranted ==
    ASSUME IInv, state.type = "Permitting", ~terminated
    PROVE  /\ Contract!Access(latest) = "granted"
           /\ state.plan = decisions
           /\ downstream = "open"
<1>1. Contract!Access(latest) \in {"none", "granted", "withheld", "refused"}
  BY AccessValues DEF IInv, TypeOK
<1>2. state # PendingState /\ state # SuspendedState
  BY DEF PendingState, SuspendedState
<1>3. Contract!Access(latest) = "granted" /\ state = PermittingState(decisions)
  BY <1>1, <1>2 DEF IInv, InForce, Obeys
<1>. QED BY <1>3 DEF PermittingState, IInv, Lifecycle

LEMMA LastOfAppend ==
    ASSUME NEW S, NEW q \in Seq(S), NEW x
    PROVE  Append(q, x)[Len(Append(q, x))] = x
<1>1. Len(Append(q, x)) = Len(q) + 1 /\ Len(q) \in Nat
  OBVIOUS
<1>. QED BY <1>1

(* No item is released but under a grant, whichever callback releases it   *)
(* and however late its promise settles.                                   *)
THEOREM OnlyGrantedItems == Spec => ReleasedUnderGrant
<1>1. ASSUME IInv, [Next]_vars, feed' # feed, feed'[Len(feed')].kind = "item"
      PROVE  Contract!Access(latest) = "granted" /\ downstream = "open"
  <2>1. feed \in Seq(Delivery)
    BY <1>1 DEF IInv, TypeOK
  <2>2. \A side : Contract!Signal(side).kind # "item"
    BY DEF Contract!Signal
  <2>3. ItemReleased
    BY <1>1, <2>1, <2>2, Releases, LastOfAppend DEF SignalReleased
  <2>. QED BY <1>1, <2>3, PermittingIsGranted DEF ItemReleased
<1>2. IInv /\ [Next]_vars =>
        [feed' # feed /\ feed'[Len(feed')].kind = "item"
           => Contract!Access(latest) = "granted" /\ downstream = "open"]_vars
  BY <1>1
<1>. QED BY <1>2, InvariantHolds, PTL DEF Spec, ReleasedUnderGrant

NothingInFlight == inFlight = {}

(* With synchronous items nothing is ever in flight, so an item that is    *)
(* released has been enforced by the plan of the decision in force, even   *)
(* when that decision has just replaced another.                           *)
THEOREM ItemsEnforcedByPlanInForce == ASSUME ~AsyncItems PROVE Spec => EnforcedByPlanInForce
<1>1. Init => NothingInFlight
  BY DEF Init, NothingInFlight
<1>2. NothingInFlight /\ [Next]_vars => NothingInFlight'
  BY DEF NothingInFlight, Next, vars, HandlePdpDecision, HandlePdpError, PdpCompletes, RapSubscribed,
              HandleRapValueUnenforced, HandleRapValueSync, HandleRapValueAsync,
              HandleRapError, HandleRapComplete, RapEnds, Dispose, itemVars
<1>3. ASSUME IInv, NothingInFlight, [Next]_vars, feed' # feed, feed'[Len(feed')].kind = "item"
      PROVE  feed'[Len(feed')].plan = decisions
  <2>1. feed \in Seq(Delivery)
    BY <1>3 DEF IInv, TypeOK
  <2>2. \A side : Contract!Signal(side).kind # "item"
    BY DEF Contract!Signal
  <2>3. ItemReleased
    BY <1>3, <2>1, <2>2, Releases, LastOfAppend DEF SignalReleased
  <2>4. PICK v : Enforced(v) /\ feed' = Append(feed, v)
    BY <2>3 DEF ItemReleased
  <2>5. PICK r \in live : v = NextItem(r)
    BY <1>3, <2>4 DEF Enforced, NothingInFlight
  <2>6. v.plan = state.plan
    BY <2>5 DEF NextItem, Contract!Item
  <2>7. state.plan = decisions
    BY <1>3, <2>3, PermittingIsGranted DEF ItemReleased
  <2>. QED BY <2>1, <2>4, <2>6, <2>7, LastOfAppend
<1>4. IInv /\ NothingInFlight /\ [Next]_vars =>
        [feed' # feed /\ feed'[Len(feed')].kind = "item"
           => feed'[Len(feed')].plan = decisions]_vars
  BY <1>3
<1>. QED BY <1>1, <1>2, <1>4, InvariantHolds, PTL DEF Spec, EnforcedByPlanInForce

(* The machine is permitting exactly when access is granted, suspended     *)
(* exactly when it is withheld.                                            *)
LEMMA SideOfState ==
    ASSUME IInv, ~terminated
    PROVE  /\ state.type = "Permitting" <=> Contract!Access(latest) = "granted"
           /\ state.type = "Suspended" <=> Contract!Access(latest) = "withheld"
<1>1. Contract!Access(latest) \in {"none", "granted", "withheld"}
  BY AccessValues DEF IInv, TypeOK, InForce
<1>2. Obeys(Contract!Access(latest))
  BY DEF IInv, InForce
<1>. QED BY <1>1, <1>2 DEF Obeys, PendingState, PermittingState, SuspendedState

-----------------------------------------------------------------------------
(* Signals.  Every item is bracketed by a grant and every signal changes   *)
(* the side.  What makes that inductive is that the feed has told the      *)
(* subscriber the side the machine is on, nothing while it is pending.     *)

Bracketed(n) ==
    IF IsSignal(n)
      THEN \A m \in 1..n : Governs(m, n) => feed[m].side # feed[n].side
      ELSE \E m \in 1..n : Governs(m, n) /\ feed[m].side = "granted"

AllBracketed == \A n \in DOMAIN feed : Bracketed(n)

Facing(side) == \E m \in DOMAIN feed : Governs(m, Len(feed) + 1) /\ feed[m].side = side

Told ==
    /\ state.type \in {"Permitting", "Suspended"} => Facing(SideOf(state.type))
    /\ state.type = "Pending" => feed = << >>

SInv == AllBracketed /\ Told

(* What is delivered later changes nothing about the feed so far.          *)
LEMMA FeedGrows ==
    ASSUME TypeOK, NEW x, feed' = Append(feed, x)
    PROVE  /\ Len(feed) \in Nat /\ Len(feed') = Len(feed) + 1
           /\ DOMAIN feed = 1..Len(feed) /\ DOMAIN feed' = 1..(Len(feed) + 1)
           /\ \A n \in 1..Len(feed) : feed'[n] = feed[n]
           /\ feed'[Len(feed) + 1] = x
<1>1. feed \in Seq(Delivery)
  BY DEF TypeOK
<1>. QED BY <1>1

LEMMA GovernsStill ==
    ASSUME TypeOK, NEW x, feed' = Append(feed, x),
           NEW m \in 1..Len(feed), NEW n \in 1..(Len(feed) + 1), Governs(m, n)
    PROVE  Governs(m, n)'
<1>1. m < n /\ IsSignal(m) /\ \A k \in (m + 1)..(n - 1) : ~IsSignal(k)
  BY DEF Governs
<1>2. IsSignal(m)'
  BY <1>1, FeedGrows DEF IsSignal
<1>3. ASSUME NEW k \in (m + 1)..(n - 1) PROVE ~IsSignal(k)'
  <2>1. k \in 1..Len(feed)
    BY FeedGrows
  <2>. QED BY <1>1, <2>1, FeedGrows DEF IsSignal
<1>. QED BY <1>1, <1>2, <1>3 DEF Governs

LEMMA GovernedBefore ==
    ASSUME TypeOK, NEW x, feed' = Append(feed, x),
           NEW m \in 1..Len(feed), NEW n \in 1..(Len(feed) + 1), Governs(m, n)'
    PROVE  Governs(m, n)
<1>1. m < n /\ IsSignal(m)' /\ \A k \in (m + 1)..(n - 1) : ~IsSignal(k)'
  BY DEF Governs
<1>2. IsSignal(m)
  BY <1>1, FeedGrows DEF IsSignal
<1>3. ASSUME NEW k \in (m + 1)..(n - 1) PROVE ~IsSignal(k)
  <2>1. k \in 1..Len(feed)
    BY FeedGrows
  <2>. QED BY <1>1, <2>1, FeedGrows DEF IsSignal
<1>. QED BY <1>1, <1>2, <1>3 DEF Governs

(* There is one last signal before a place.                                *)
LEMMA OneGovernor ==
    ASSUME NEW n \in Nat, NEW m \in 1..n, NEW k \in 1..n, Governs(m, n), Governs(k, n)
    PROVE  m = k
<1>1. /\ m < n /\ k < n /\ IsSignal(m) /\ IsSignal(k)
      /\ \A i \in (m + 1)..(n - 1) : ~IsSignal(i)
      /\ \A i \in (k + 1)..(n - 1) : ~IsSignal(i)
  BY DEF Governs
<1>2. ~(m < k)
  BY <1>1
<1>3. ~(k < m)
  BY <1>1
<1>. QED BY <1>2, <1>3

(* A delivery leaves the feed bracketed if it is bracketed itself.         *)
LEMMA BracketedStill ==
    ASSUME TypeOK, AllBracketed, NEW x, feed' = Append(feed, x),
           NEW last \in Nat, last = Len(feed) + 1, Bracketed(last)'
    PROVE  AllBracketed'
<1> USE FeedGrows
<1>1. ASSUME NEW n \in 1..Len(feed) PROVE Bracketed(n)'
  <2>1. Bracketed(n) /\ (IsSignal(n)' <=> IsSignal(n))
    BY DEF AllBracketed, IsSignal
  <2>2. CASE IsSignal(n)
    <3>1. ASSUME NEW m \in 1..n, Governs(m, n)' PROVE feed'[m].side # feed'[n].side
      <4>1. m \in 1..Len(feed)
        OBVIOUS
      <4>2. Governs(m, n)
        BY <3>1, <4>1, GovernedBefore
      <4>. QED BY <2>1, <2>2, <4>1, <4>2 DEF Bracketed
    <3>. QED BY <2>1, <2>2, <3>1 DEF Bracketed
  <2>3. CASE ~IsSignal(n)
    <3>1. PICK m \in 1..n : Governs(m, n) /\ feed[m].side = "granted"
      BY <2>1, <2>3 DEF Bracketed
    <3>2. m \in 1..Len(feed)
      OBVIOUS
    <3>3. Governs(m, n)' /\ feed'[m].side = "granted"
      BY <3>1, <3>2, GovernsStill
    <3>. QED BY <2>1, <2>3, <3>3 DEF Bracketed
  <2>. QED BY <2>2, <2>3
<1>. QED BY <1>1 DEF AllBracketed

(* A signal of the side that the subscriber is not on.                     *)
LEMMA SignalKeepsSides ==
    ASSUME TypeOK, SInv, SignalReleased, state.type \in {"Pending", "Permitting", "Suspended"}
    PROVE  SInv'
<1>0. PICK last \in Nat : last = Len(feed) + 1
  BY DEF TypeOK
<1>1. PICK t \in {"Permitting", "Suspended"} :
         /\ state.type # t
         /\ state'.type \in {t, "Terminated"}
         /\ feed' = Append(feed, Contract!Signal(SideOf(t)))
  BY DEF SignalReleased
<1>2. /\ Len(feed) \in Nat /\ Len(feed') = last /\ last = Len(feed) + 1
      /\ DOMAIN feed = 1..Len(feed) /\ DOMAIN feed' = 1..last
      /\ \A n \in 1..Len(feed) : feed'[n] = feed[n]
      /\ feed'[last] = Contract!Signal(SideOf(t))
  BY <1>0, <1>1, FeedGrows
<1>3. feed'[last].kind = "signal" /\ feed'[last].side = SideOf(t)
  BY <1>2 DEF Contract!Signal
<1>4. ASSUME NEW m \in 1..last, Governs(m, last)' PROVE feed'[m].side # SideOf(t)
  <2>1. m \in 1..Len(feed)
    BY <1>2, <1>4 DEF Governs
  <2>2. Governs(m, last)
    <3>1. last \in 1..(Len(feed) + 1)
      BY <1>2
    <3>. QED BY <1>1, <1>4, <2>1, <3>1, GovernedBefore
  <2>3. state.type # "Pending"
    BY <2>1 DEF SInv, Told
  <2>4. PICK k \in DOMAIN feed : Governs(k, last) /\ feed[k].side = SideOf(state.type)
    BY <1>2, <2>3 DEF SInv, Told, Facing
  <2>5. m = k
    BY <1>2, <2>1, <2>2, <2>4, OneGovernor
  <2>6. SideOf(state.type) # SideOf(t)
    BY <1>1, <2>3 DEF SideOf
  <2>. QED BY <1>2, <2>1, <2>4, <2>5, <2>6
<1>5. Bracketed(last)'
  BY <1>2, <1>3, <1>4 DEF Bracketed, IsSignal
<1>6. AllBracketed'
  BY <1>1, <1>2, <1>5, BracketedStill DEF SInv
<1>7. Governs(last, last + 1)'
  BY <1>2, <1>3 DEF Governs, IsSignal
<1>8. Facing(SideOf(t))'
  BY <1>2, <1>3, <1>7 DEF Facing
<1>9. Told'
  BY <1>1, <1>8 DEF Told
<1>. QED BY <1>6, <1>9 DEF SInv

(* An item, delivered to a subscriber that knows it has been granted access. *)
LEMMA ItemKeepsSides ==
    ASSUME TypeOK, SInv, Stays, state.type = "Permitting",
           NEW x, x.kind = "item", feed' = Append(feed, x)
    PROVE  SInv'
<1>0. PICK last \in Nat : last = Len(feed) + 1
  BY DEF TypeOK
<1>1. /\ Len(feed) \in Nat /\ Len(feed') = last /\ last = Len(feed) + 1
      /\ DOMAIN feed = 1..Len(feed) /\ DOMAIN feed' = 1..last
      /\ \A n \in 1..Len(feed) : feed'[n] = feed[n]
      /\ feed'[last] = x
  BY <1>0, FeedGrows
<1>2. SideOf(state.type) = "granted"
  BY DEF SideOf
<1>3. PICK m \in DOMAIN feed : Governs(m, last) /\ feed[m].side = "granted"
  BY <1>1, <1>2 DEF SInv, Told, Facing
<1>4. m \in 1..Len(feed) /\ Governs(m, last)' /\ feed'[m].side = "granted"
  BY <1>1, <1>3, GovernsStill
<1>5. ~IsSignal(last)'
  BY <1>1 DEF IsSignal
<1>6. Bracketed(last)'
  BY <1>1, <1>4, <1>5 DEF Bracketed
<1>7. AllBracketed'
  BY <1>1, <1>6, BracketedStill DEF SInv
<1>8. Governs(m, last + 1)'
  BY <1>1, <1>4, <1>5 DEF Governs
<1>9. Facing("granted")'
  BY <1>1, <1>4, <1>8 DEF Facing
<1>10. Told'
  BY <1>2, <1>9 DEF Told, Stays
<1>. QED BY <1>7, <1>10 DEF SInv

LEMMA SidesUntouched == ASSUME SInv, feed' = feed, Stays PROVE SInv'
<1>1. AllBracketed'
  BY DEF SInv, AllBracketed, Bracketed, Governs, IsSignal
<1>2. \A side : Facing(side) => Facing(side)'
  BY DEF Facing, Governs, IsSignal
<1>3. Told'
  BY <1>2 DEF SInv, Told, Stays
<1>. QED BY <1>1, <1>3 DEF SInv

LEMMA SidesInductive == ASSUME SignalTransitions PROVE IInv /\ SInv /\ [Next]_vars => SInv'
<1> SUFFICES ASSUME IInv, SInv, [Next]_vars PROVE SInv'
  OBVIOUS
<1>1. TypeOK /\ Lifecycle /\ feed \in Seq(Delivery)
  BY DEF IInv, TypeOK
<1>2. CASE feed' = feed /\ Stays
  BY <1>2, SidesUntouched
<1>3. CASE SignalReleased
  <2>1. state.type \in {"Pending", "Permitting", "Suspended"}
    BY <1>1, <1>3, RunningStream DEF SignalReleased, Running, TypeOK, State, PendingState, SuspendedState,
       TerminatedState
  <2>. QED BY <1>1, <1>3, <2>1, SignalKeepsSides
<1>4. CASE ItemReleased
  <2>1. PICK v : Enforced(v) /\ feed' = Append(feed, v)
    BY <1>4 DEF ItemReleased
  <2>2. v.kind = "item"
    BY <1>1, <2>1 DEF Enforced, NextItem, Contract!Item, TypeOK, DataItem
  <2>. QED BY <1>1, <1>4, <2>1, <2>2, ItemKeepsSides DEF ItemReleased
<1>. QED BY <1>2, <1>3, <1>4, Releases

(* The feed tells the subscriber which side it is on: an item only after a *)
(* grant with no suspension between, signals that alternate, the last one  *)
(* naming the access in force; under every interleaving, with promises and *)
(* reentrant sources, for any number of decisions and items.               *)
THEOREM FeedTellsSides == Spec => []SignalsBracketData
<1>1. CASE SignalTransitions
  <2>1. Init => SInv
    <3>1. Init => AllBracketed
      BY DEF Init, AllBracketed
    <3>2. Init => Told
      BY DEF Init, Told, PendingState
    <3>. QED BY <3>1, <3>2 DEF SInv
  <2>2. IInv /\ SInv => SignalsBracketData
    <3> SUFFICES ASSUME IInv, SInv PROVE SignalsBracketData
      OBVIOUS
    <3>1. \A n \in DOMAIN feed :
            IF IsSignal(n)
              THEN \A m \in 1..n : Governs(m, n) => feed[m].side # feed[n].side
              ELSE \E m \in 1..n : Governs(m, n) /\ feed[m].side = "granted"
      BY DEF SInv, AllBracketed, Bracketed
    <3>2. ASSUME state.type \in {"Permitting", "Suspended"}
          PROVE  \E m \in DOMAIN feed : /\ Governs(m, Len(feed) + 1)
                                        /\ feed[m].side = Contract!Access(latest)
      <4>1. ~terminated
        BY <3>2 DEF IInv, Lifecycle, TerminatedState
      <4>2. SideOf(state.type) = Contract!Access(latest)
        BY <3>2, <4>1, SideOfState DEF SideOf
      <4>. QED BY <3>2, <4>2 DEF SInv, Told, Facing
    <3>. QED BY <3>1, <3>2 DEF SignalsBracketData
  <2>. QED BY <1>1, <2>1, <2>2, SidesInductive, InvariantHolds, PTL DEF Spec
<1>2. CASE ~SignalTransitions
  <2>1. SignalsBracketData
    BY <1>2 DEF SignalsBracketData
  <2>. QED BY <2>1, PTL
<1>. QED BY <1>1, <1>2

-----------------------------------------------------------------------------
(* Subscriptions.  The invariant relates the handle, the sources still     *)
(* attached and the one call to subscribe() that may be outstanding.       *)

AtRest ==
    /\ live = IF rapSubscription = 0 THEN {} ELSE {rapSubscription}
    /\ state.type = "Permitting" => rapSubscription # 0
    /\ state.type = "Suspended" /\ PauseRapDuringSuspend => rapSubscription = 0
    /\ state.type = "Suspended" /\ ~PauseRapDuringSuspend /\ opened > 0 => rapSubscription # 0

InCall ==
    /\ state.type = "Permitting"
    /\ opened > 0
    /\ subscribing = << opened >>
    /\ live = {opened}
    /\ rapSubscription = 0

Held ==
    /\ IF Idle THEN AtRest ELSE InCall
    /\ rapSubscription # 0 => rapSubscription = opened
    /\ terminated => rapSubscription = 0
    /\ state.type = "Pending" => rapSubscription = 0 /\ opened = 0

(* Going on in a state of the machine opens, keeps or pauses the source as *)
(* that state demands (manageRapSubscription).                             *)
LEMMA HeldOn ==
    ASSUME TypeOK, Held, Idle, ~terminated, state.type # "Terminated",
           NEW t \in RunnerState, t.type # "Terminated", t.type = "Pending" => t = state,
           Runs(t)
    PROVE  Held'
<1>1. /\ AtRest /\ subscribing = << >> /\ opened \in Nat /\ MaxRaps \in Nat
      /\ rapSubscription \in 0..MaxRaps
  BY BoundAssumption DEF Held, Idle, TypeOK
<1>2. /\ t.type \in {"Pending", "Permitting", "Suspended"}
      /\ state.type \in {"Pending", "Permitting", "Suspended"}
  BY DEF TypeOK, RunnerState, State, PendingState, SuspendedState, TerminatedState
<1>3. state' = t /\ terminated' = terminated /\ ManageRapSubscription(t)
  BY DEF Runs
<1>4. CASE PauseRapDuringSuspend /\ t.type = "Suspended" /\ state.type # "Suspended"
  <2>1. /\ rapSubscription' = 0 /\ live' = live \ {rapSubscription}
        /\ opened' = opened /\ subscribing' = subscribing
    BY <1>3, <1>4 DEF ManageRapSubscription, DisposeRap
  <2>2. live' = {}
    BY <1>1, <2>1 DEF AtRest
  <2>3. Idle' /\ AtRest'
    BY <1>1, <1>3, <1>4, <2>1, <2>2 DEF Idle, AtRest
  <2>. QED BY <1>3, <1>4, <2>1, <2>3 DEF Held
<1>5. CASE t.type = "Permitting" /\ rapSubscription = 0
  <2>1. /\ opened' = opened + 1 /\ live' = live \cup {opened + 1}
        /\ subscribing' = Append(subscribing, opened + 1) /\ rapSubscription' = rapSubscription
    BY <1>3, <1>5 DEF ManageRapSubscription, EnsureRapSubscribed
  <2>2. live' = {opened'} /\ subscribing' = << opened' >> /\ opened' > 0
    BY <1>1, <1>5, <2>1 DEF AtRest
  <2>3. ~Idle' /\ InCall'
    BY <1>3, <1>5, <2>1, <2>2 DEF Idle, InCall
  <2>. QED BY <1>3, <1>5, <2>1, <2>3 DEF Held
<1>6. CASE /\ ~(PauseRapDuringSuspend /\ t.type = "Suspended" /\ state.type # "Suspended")
           /\ ~(t.type = "Permitting" /\ rapSubscription = 0)
  <2>1. /\ rapSubscription' = rapSubscription /\ opened' = opened
        /\ live' = live /\ subscribing' = subscribing
    BY <1>3, <1>6 DEF ManageRapSubscription, EnsureRapSubscribed, rapVars
  <2>2. Idle'
    BY <1>1, <2>1 DEF Idle
  <2>3. t.type = "Suspended" => \/ state.type = "Suspended"
                                \/ ~PauseRapDuringSuspend
    BY <1>6
  <2>4. AtRest'
    <3>1. live' = IF rapSubscription' = 0 THEN {} ELSE {rapSubscription'}
      BY <1>1, <2>1 DEF AtRest
    <3>2. t.type = "Permitting" => rapSubscription' # 0
      BY <1>6, <2>1
    <3>3. t.type = "Suspended" /\ PauseRapDuringSuspend => rapSubscription' = 0
      BY <1>1, <2>1, <2>3 DEF AtRest
    <3>4. t.type = "Suspended" /\ ~PauseRapDuringSuspend /\ opened' > 0 => rapSubscription' # 0
      BY <1>1, <1>2, <2>1 DEF AtRest, Held
    <3>. QED BY <1>3, <3>1, <3>2, <3>3, <3>4 DEF AtRest
  <2>. QED BY <1>3, <2>1, <2>2, <2>4 DEF Held
<1>. QED BY <1>4, <1>5, <1>6

(* Ending lets go of everything (releaseInnerSubscriptions).               *)
LEMMA HeldAtEnd ==
    ASSUME Held, Idle, NEW how, NEW gone, Stops(how, gone)
    PROVE  Held'
<1>1. /\ rapSubscription' = 0 /\ live' = live \ ({rapSubscription} \cup gone)
      /\ opened' = opened /\ subscribing' = subscribing /\ state' = TerminatedState
  BY DEF Stops, ReleaseInnerSubscriptions
<1>2. live' = {}
  BY <1>1 DEF Held, AtRest
<1>3. state'.type = "Terminated" /\ Idle'
  BY <1>1 DEF TerminatedState, Idle
<1>. QED BY <1>1, <1>2, <1>3 DEF Held, AtRest

LEMMA HeldThroughEvent ==
    ASSUME IInv, Held, Idle, ~terminated, NEW e \in RunnerEvent, e # Cancel, NEW gone,
           ProcessEvent(e, gone)
    PROVE  Held'
<1>1. TypeOK /\ Lifecycle /\ state.type # "Terminated"
  BY RunningStream DEF IInv, Running
<1>2. \/ \E t \in RunnerState : /\ t.type # "Terminated"
                                /\ t.type = "Pending" => t = state
                                /\ Runs(t)
      \/ \E how \in {"errored", "completed", "cancelled"} : Stops(how, gone)
  BY <1>1, Outcome
<1>. QED BY <1>1, <1>2, HeldOn, HeldAtEnd

LEMMA HeldUntouched ==
    ASSUME Held, UNCHANGED << runnerVars, rapVars >>
    PROVE  Held'
<1>1. /\ state' = state /\ terminated' = terminated /\ rapSubscription' = rapSubscription
      /\ opened' = opened /\ live' = live /\ subscribing' = subscribing
  BY DEF runnerVars, rapVars
<1>. QED BY <1>1 DEF Held, AtRest, InCall, Idle

LEMMA HeldInductive == ASSUME ~SyncRap PROVE IInv /\ Held /\ [Next]_vars => Held'
<1> SUFFICES ASSUME IInv, Held, [Next]_vars PROVE Held'
  OBVIOUS
<1>0. /\ decisions \in 0..MaxDecisions /\ MaxDecisions \in Nat
      /\ live \subseteq 1..MaxRaps /\ inFlight \subseteq DataItem
  BY BoundAssumption DEF IInv, TypeOK
<1>d. TypeOK /\ (pdpSubscription => ~terminated)
  BY DEF IInv, Lifecycle
<1>a. \A p \in Plans : PdpPermit(p) # Cancel
  BY DEF PdpPermit, Cancel
<1>b. /\ Cancel \notin {PdpDeny, PdpSuspend, PdpError, RapError, RapComplete}
      /\ \A r : RapItem(r) # Cancel
  BY DEF PdpDeny, PdpSuspend, PdpError, RapError, RapComplete, RapItem, Cancel
<1>c. ASSUME NEW d \in Decision, NEW p \in Plans
      PROVE  Classify(d, p) \in RunnerEvent /\ Classify(d, p) # Cancel
  BY <1>a, <1>b, Routing, EventType
<1>1. ASSUME NEW d \in Decision, HandlePdpDecision(d) PROVE Held'
  <2>1. decisions + 1 \in Plans
    BY <1>0, <1>1 DEF HandlePdpDecision, Plans
  <2>. QED BY <1>1, <1>c, <2>1, HeldThroughEvent DEF HandlePdpDecision, PdpDelivers
<1>2. ASSUME HandlePdpError PROVE Held'
  BY <1>2, <1>b, EventType, HeldThroughEvent DEF HandlePdpError, PdpDelivers
<1>3. ASSUME PdpCompletes PROVE Held'
  <2>1. CASE decisions = 0
    <3>1. /\ latest' = [verb |-> "DENY", failed |-> FALSE] /\ 1 \in Plans
          /\ ProcessEvent(Classify(latest', 1), {}) /\ pdpSubscription /\ Idle
      BY <1>0, <1>3, <2>1 DEF PdpCompletes, PdpDelivers, Plans
    <3>2. latest' \in Decision
      BY <3>1 DEF Decision, Contract!Verbs
    <3>. QED BY <1>c, <1>d, <3>1, <3>2, HeldThroughEvent
  <2>2. CASE decisions # 0
    BY <1>3, <2>2, HeldUntouched DEF PdpCompletes
  <2>. QED BY <2>1, <2>2
<1>4. ASSUME RapSubscribed PROVE Held'
  <2>1. /\ InCall /\ state' = state /\ terminated' = terminated /\ opened' = opened
        /\ live' = live /\ rapSubscription' = Top
        /\ subscribing' = SubSeq(subscribing, 1, Len(subscribing) - 1)
    BY <1>4 DEF RapSubscribed, Held
  <2>2. Top = opened /\ opened > 0
    BY <2>1 DEF Top, InCall
  <2>3. subscribing' = << >>
    <3>1. Len(subscribing) = 1
      BY <2>1 DEF InCall
    <3>. QED BY <2>1, <3>1, SubSeqEmpty
  <2>4. state.type = "Permitting" /\ ~terminated
    BY <2>1, <2>2 DEF InCall, IInv, Lifecycle, TerminatedState
  <2>. QED BY <1>d, <2>1, <2>2, <2>3, <2>4 DEF Held, AtRest, Idle, InCall, TypeOK
<1>5. ASSUME NEW r \in live, HandleRapValueUnenforced(r) PROVE Held'
  <2>1. RapItem(Dropped) \in RunnerEvent
    BY DEF RapItem, Dropped, Absent, RunnerEvent, Event, EnforcementResult
  <2>. QED BY <1>5, <1>b, <2>1, HeldThroughEvent, HeldUntouched
           DEF HandleRapValueUnenforced, TakeItem, RapDelivers
<1>6. ASSUME NEW r \in live, HandleRapValueSync(r) PROVE Held'
  <2>1. NextItem(r) \in DataItem
    BY <1>0, <1>6, <1>d, NextItemType DEF HandleRapValueSync, TakeItem
  <2>. QED BY <1>6, <1>b, <2>1, EventType, HeldThroughEvent DEF HandleRapValueSync, TakeItem, RapDelivers
<1>7. ASSUME NEW r \in live, HandleRapValueAsync(r) PROVE Held'
  BY <1>7, HeldUntouched DEF HandleRapValueAsync
<1>8. ASSUME NEW r \in live, NEW e \in {RapError, RapComplete}, RapEnds(r, e) PROVE Held'
  <2>1. CASE terminated
    <3>1. live = {}
      BY <1>8, <2>1 DEF Held, AtRest, RapEnds, RapDelivers
    <3>. QED BY <1>8, <3>1
  <2>2. CASE ~terminated
    BY <1>8, <1>b, <2>2, EventType, HeldThroughEvent DEF RapEnds, RapDelivers
  <2>. QED BY <2>1, <2>2
<1>9. ASSUME NEW v \in inFlight, PerItemSettles(v) PROVE Held'
  BY <1>0, <1>9, <1>b, EventType, HeldThroughEvent, HeldUntouched DEF PerItemSettles
<1>10. ASSUME Dispose PROVE Held'
  <2>1. ~terminated /\ TypeOK /\ Lifecycle
    BY <1>10 DEF Dispose, IInv, Lifecycle
  <2>2. Step(state, Cancel).newState = TerminatedState
    BY <2>1, RunningStream, StepCases DEF Running, StepTo
  <2>3. Stops("cancelled", {})
    BY <1>10, <2>2, Settled DEF Dispose
  <2>. QED BY <1>10, <2>3, HeldAtEnd DEF Dispose
<1>11. CASE UNCHANGED vars
  BY <1>11, HeldUntouched DEF vars
<1>. QED BY <1>1, <1>2, <1>3, <1>4, <1>5, <1>6, <1>7, <1>8, <1>9, <1>10, <1>11
         DEF Next, HandleRapError, HandleRapComplete

LEMMA HoldsRight ==
    ASSUME IInv, Held
    PROVE  NoLeakedSubscription /\ RapFollowsAccess
<1> SUFFICES ASSUME Idle PROVE NoLeakedSubscription /\ RapFollowsAccess
  BY DEF NoLeakedSubscription, RapFollowsAccess
<1>1. AtRest /\ Lifecycle
  BY DEF Held, IInv
<1>2. NoLeakedSubscription
  BY <1>1 DEF NoLeakedSubscription, Held, AtRest, Lifecycle
<1>3. RapFollowsAccess
  BY <1>1 DEF RapFollowsAccess, Held, AtRest
<1>. QED BY <1>2, <1>3

LEMMA InitiallyHeld == Init => Held
  BY DEF Init, Held, AtRest, Idle, PendingState

(* With a source that delivers nothing before its subscribe() returns, the *)
(* runner holds exactly the subscriptions it opened, and none after the    *)
(* end, whichever side ended the stream.                                   *)
THEOREM SubscriptionsHeld == ASSUME ~SyncRap PROVE Spec => []NoLeakedSubscription
<1>1. IInv /\ Held => NoLeakedSubscription
  BY HoldsRight
<1>. QED BY <1>1, InitiallyHeld, HeldInductive, InvariantHolds, PTL DEF Spec

(* With such a source the RAP is attached exactly while it should be:      *)
(* throughout a grant, and through a suspension unless the stream pauses.  *)
THEOREM SourceFollowsAccess == ASSUME ~SyncRap PROVE Spec => []RapFollowsAccess
<1>1. IInv /\ Held => RapFollowsAccess
  BY HoldsRight
<1>. QED BY <1>1, InitiallyHeld, HeldInductive, InvariantHolds, PTL DEF Spec

-----------------------------------------------------------------------------
(* The contract: a step of the runner is a step of StreamContract or       *)
(* leaves latest, decisions, feed and downstream as they are.  This holds  *)
(* for plans that enforce items synchronously and a source that delivers   *)
(* nothing before its subscribe() returns; without either condition it     *)
(* does not.                                                               *)

(* Everything released so far came before what the attached source will    *)
(* deliver next.                                                           *)
Before(x, o, q) == x.rap < o \/ (x.rap = o /\ x.seq <= q[o])

Ordered == \A n \in DOMAIN feed : feed[n].kind = "item" => Before(feed[n], opened, produced)

CInv == IInv /\ Held /\ NothingInFlight /\ Ordered

(* A decision of the runner is a decision of the contract.                 *)
LEMMA DecideStep ==
    ASSUME IInv, ~terminated, NEW d \in Decision, latest' = d, decisions' = decisions + 1,
           NEW p, ProcessEvent(Classify(d, p), {})
    PROVE  Contract!Decide
<1>1. /\ Running /\ TypeOK /\ Lifecycle /\ downstream = "open"
      /\ d \in [verb : Contract!Verbs, failed : BOOLEAN]
  BY RunningStream DEF IInv, Running, Decision
<1>2. CASE Contract!Access(d) = "refused"
  <2>1. Ends("errored", {})
    BY <1>1, <1>2, Routing, Effects
  <2>. QED BY <1>1, <1>2, <2>1 DEF Contract!Decide, Ends, Stops
<1>3. ASSUME NEW side \in {"granted", "withheld"}, Contract!Access(d) = side, NEW t,
             IF Contract!Access(latest) = side \/ ~SignalTransitions
               THEN Silently(t) ELSE Delivers(Contract!Signal(side), t, {})
      PROVE  Contract!Decide
  <2>1. CASE Contract!Access(latest) = side \/ ~SignalTransitions
    BY <1>1, <1>3, <2>1 DEF Contract!Decide, Silently, Runs
  <2>2. CASE ~(Contract!Access(latest) = side \/ ~SignalTransitions)
    <3>1. /\ feed' = Append(feed, Contract!Signal(side))
          /\ downstream' = downstream \/ downstream' = "cancelled"
      BY <1>3, <2>2 DEF Delivers, Runs, Stops
    <3>. QED BY <1>1, <1>3, <2>2, <3>1 DEF Contract!Decide, Contract!Stay
  <2>. QED BY <2>1, <2>2
<1>4. CASE Contract!Access(d) = "granted"
  <2>1. ProcessEvent(PdpPermit(p), {})
    BY <1>4, Routing
  <2>2. IF Contract!Access(latest) = "granted" \/ ~SignalTransitions
          THEN Silently(PermittingState(p))
          ELSE Delivers(Contract!Signal("granted"), PermittingState(p), {})
    BY <1>1, <2>1, Effects, SideOfState
  <2>. QED BY <1>3, <1>4, <2>2
<1>5. CASE Contract!Access(d) = "withheld"
  <2>1. ProcessEvent(PdpSuspend, {})
    BY <1>5, Routing
  <2>2. IF Contract!Access(latest) = "withheld" \/ ~SignalTransitions
          THEN Silently(SuspendedState)
          ELSE Delivers(Contract!Signal("withheld"), SuspendedState, {})
    BY <1>1, <2>1, Effects, SideOfState
  <2>. QED BY <1>3, <1>5, <2>2
<1>. QED BY <1>2, <1>4, <1>5, Routing

(* Stopping without a delivery is an end of the contract.                  *)
LEMMA EndStep ==
    ASSUME IInv, ~terminated, UNCHANGED << latest, decisions >>, feed' = feed,
           NEW how \in {"errored", "completed", "cancelled"}, NEW gone, Stops(how, gone)
    PROVE  Contract!End
  BY DEF Contract!End, Stops, IInv, Lifecycle

(* What the attached source delivers is the next item in order, under the  *)
(* number of the decision in force.                                        *)
LEMMA NextInOrder ==
    ASSUME CInv, ~terminated, Idle, NEW r \in live, produced[r] < MaxItems,
           state.type = "Permitting"
    PROVE  /\ r = opened
           /\ r \in 1..MaxRaps
           /\ produced[r] + 1 \in 1..MaxItems
           /\ NextItem(r) = Contract!Item(r, produced[r] + 1, decisions)
           /\ Contract!InOrder(NextItem(r))
<1>1. r = opened /\ r \in 1..MaxRaps /\ produced[r] \in 0..MaxItems /\ MaxItems \in Nat
  BY BoundAssumption DEF CInv, IInv, TypeOK, Held, AtRest
<1>2. NextItem(r) = Contract!Item(r, produced[r] + 1, decisions)
  BY PermittingIsGranted DEF CInv, NextItem
<1>3. feed \in Seq(Delivery)
  BY DEF CInv, IInv, TypeOK
<1>4. ASSUME NEW n \in DOMAIN feed, feed[n].kind = "item"
      PROVE  Contract!Later(NextItem(r), feed[n])
  <2>1. Before(feed[n], opened, produced)
    BY <1>4 DEF CInv, Ordered
  <2>2. feed[n] \in Delivery
    BY <1>3
  <2>3. feed[n].rap \in Nat /\ feed[n].seq \in Nat
    BY <1>4, <2>2 DEF Delivery, DataItem
  <2>. QED BY <1>1, <1>2, <2>1, <2>3 DEF Before, Contract!Later, Contract!Item
<1>. QED BY <1>1, <1>2, <1>4 DEF Contract!InOrder

(* A result of the next item: released, the end, or nothing.               *)
LEMMA ItemStep ==
    ASSUME CInv, ~terminated, Idle, NEW r \in live, produced[r] < MaxItems,
           UNCHANGED << latest, decisions >>,
           NEW result \in {Dropped, Failed, Passed(NextItem(r))}, ProcessEvent(RapItem(result), {}),
           state.type = "Permitting" \/ result = Dropped
    PROVE  Contract!Release \/ Contract!End \/ UNCHANGED Contract!vars
<1>1. Running /\ TypeOK /\ Lifecycle /\ IInv
  BY RunningStream DEF CInv, IInv
<1>2. /\ Dropped.failureState = FALSE /\ Dropped.value.type = "Absent"
      /\ Failed.failureState = TRUE
      /\ Passed(NextItem(r)).failureState = FALSE
      /\ Passed(NextItem(r)).value.type = "Present"
      /\ Passed(NextItem(r)).value.value = NextItem(r)
  BY DEF Dropped, Failed, Passed, Absent, Present
<1>3. CASE result = Failed
  <2>1. Ends("errored", {})
    BY <1>1, <1>2, <1>3, Effects
  <2>. QED BY <1>1, <2>1, EndStep DEF Ends
<1>4. CASE result = Dropped
  <2>1. Silently(state)
    BY <1>1, <1>2, <1>4, Effects
  <2>. QED BY <2>1 DEF Silently, Runs, Contract!vars
<1>5. CASE state.type = "Permitting" /\ result = Passed(NextItem(r))
  <2>1. Delivers(NextItem(r), state, {})
    BY <1>1, <1>2, <1>5, Effects
  <2>2. /\ feed' = Append(feed, NextItem(r))
        /\ downstream' = downstream \/ downstream' = "cancelled"
    BY <2>1 DEF Delivers, Runs, Stops
  <2>3. Contract!Access(latest) = "granted" /\ downstream = "open"
    BY <1>1, <1>5, PermittingIsGranted
  <2>4. \E s \in 1..MaxRaps, i \in 1..MaxItems :
          /\ Contract!InOrder(Contract!Item(s, i, decisions))
          /\ feed' = Append(feed, Contract!Item(s, i, decisions))
    BY <1>5, <2>2, NextInOrder
  <2>. QED BY <2>2, <2>3, <2>4 DEF Contract!Release, Contract!Stay
<1>. QED BY <1>3, <1>4, <1>5

-----------------------------------------------------------------------------
(* The order of the feed is kept.                                          *)

LEMMA EventOpens ==
    ASSUME NEW e, NEW gone, ProcessEvent(e, gone)
    PROVE  opened' = opened \/ opened' = opened + 1
<1>1. PICK t : Settle(t, gone)
  BY DEF ProcessEvent
<1>. QED BY <1>1 DEF Settle, ManageRapSubscription, ReleaseInnerSubscriptions, DisposeRap,
                     EnsureRapSubscribed, rapVars

LEMMA Monotone ==
    ASSUME TypeOK, [Next]_vars
    PROVE  /\ opened' = opened \/ opened' = opened + 1
           /\ \A r \in 1..MaxRaps : produced'[r] >= produced[r]
<1>0. produced \in [1..MaxRaps -> 0..MaxItems] /\ MaxItems \in Nat
  BY BoundAssumption DEF TypeOK
<1>1. opened' = opened \/ opened' = opened + 1
  <2>1. UNCHANGED opened \/ \E e, gone : ProcessEvent(e, gone) \/ \E t : Settle(t, gone)
    BY DEF Next, vars, rapVars, HandlePdpDecision, HandlePdpError, PdpCompletes, RapSubscribed,
           HandleRapValueUnenforced, HandleRapValueSync, HandleRapValueAsync, PerItemSettles,
           HandleRapError, HandleRapComplete, RapEnds, Dispose
  <2>2. \A t, gone : Settle(t, gone) => opened' = opened \/ opened' = opened + 1
    BY DEF Settle, ManageRapSubscription, ReleaseInnerSubscriptions, DisposeRap,
           EnsureRapSubscribed, rapVars
  <2>. QED BY <2>1, <2>2, EventOpens
<1>2. produced' = produced \/ \E r : produced' = [produced EXCEPT ![r] = @ + 1]
  BY DEF Next, vars, itemVars, HandlePdpDecision, HandlePdpError, PdpCompletes, RapSubscribed,
         HandleRapValueUnenforced, HandleRapValueSync, HandleRapValueAsync, TakeItem,
         PerItemSettles, HandleRapError, HandleRapComplete, RapEnds, Dispose
<1>3. ASSUME NEW r \in 1..MaxRaps PROVE produced'[r] >= produced[r]
  <2>1. produced[r] \in Nat
    BY <1>0
  <2>2. CASE produced' = produced
    BY <2>1, <2>2
  <2>3. ASSUME NEW s, produced' = [produced EXCEPT ![s] = @ + 1] PROVE produced'[r] >= produced[r]
    BY <1>0, <2>1, <2>3
  <2>. QED BY <1>2, <2>2, <2>3
<1>. QED BY <1>1, <1>3

LEMMA OrderedInductive == ASSUME ~SyncRap PROVE CInv /\ [Next]_vars => Ordered'
<1> SUFFICES ASSUME CInv, [Next]_vars PROVE Ordered'
  OBVIOUS
<1>0. /\ opened \in 0..MaxRaps /\ MaxRaps \in Nat /\ MaxItems \in Nat
      /\ produced \in [1..MaxRaps -> 0..MaxItems]
      /\ feed \in Seq(Delivery) /\ TypeOK /\ IInv
  BY BoundAssumption DEF CInv, IInv, TypeOK
<1>p. produced' \in [1..MaxRaps -> 0..MaxItems]
  BY <1>0, NextType DEF TypeOK
<1>1. ASSUME NEW x \in Delivery, x.kind = "item", Before(x, opened, produced) PROVE Before(x, opened', produced')
  <2>1. x.rap \in 1..MaxRaps /\ x.seq \in Nat
    BY <1>1 DEF Delivery, DataItem
  <2>2. produced'[x.rap] >= produced[x.rap] /\ (opened' = opened \/ opened' = opened + 1)
    BY <1>0, <2>1, Monotone
  <2>3. CASE opened' = opened
    <3>1. x.rap = opened => /\ produced'[opened'] >= produced[opened]
                            /\ produced[opened] \in Nat /\ produced'[opened'] \in Nat
      <4> SUFFICES ASSUME x.rap = opened
                   PROVE  /\ produced'[opened] >= produced[opened]
                          /\ produced[opened] \in Nat /\ produced'[opened] \in Nat
        BY <2>3
      <4>1. opened \in 1..MaxRaps
        BY <2>1
      <4>. QED BY <1>0, <1>p, <2>2, <4>1
    <3>2. x.rap < opened => Before(x, opened', produced')
      BY <2>3 DEF Before
    <3>3. x.rap = opened => Before(x, opened', produced')
      BY <1>1, <2>1, <2>3, <3>1 DEF Before
    <3>. QED BY <1>1, <3>2, <3>3 DEF Before
  <2>4. CASE opened' = opened + 1
    BY <1>0, <1>1, <2>1, <2>4 DEF Before
  <2>. QED BY <2>2, <2>3, <2>4
<1>2. \A n \in DOMAIN feed : feed[n].kind = "item" => Before(feed[n], opened', produced')
  <2>1. \A n \in DOMAIN feed : feed[n] \in Delivery
    BY <1>0
  <2>. QED BY <1>1, <2>1 DEF CInv, Ordered
<1>3. ASSUME NEW x, feed' = Append(feed, x), x.kind = "item" => Before(x, opened', produced')
      PROVE  Ordered'
  <2>1. ASSUME NEW n \in DOMAIN feed', feed'[n].kind = "item" PROVE Before(feed'[n], opened', produced')
    <3>1. CASE n \in DOMAIN feed
      <4>1. feed'[n] = feed[n]
        BY <1>0, <1>3, <3>1
      <4>. QED BY <1>2, <2>1, <3>1, <4>1
    <3>2. CASE n \notin DOMAIN feed
      <4>1. feed'[n] = x
        BY <1>0, <1>3, <2>1, <3>2
      <4>. QED BY <1>3, <2>1, <4>1
    <3>. QED BY <3>1, <3>2
  <2>. QED BY <2>1 DEF Ordered
<1>4. CASE feed' = feed
  BY <1>2, <1>4 DEF Ordered
<1>5. ASSUME NEW side, feed' = Append(feed, Contract!Signal(side)) PROVE Ordered'
  BY <1>3, <1>5 DEF Contract!Signal
<1>6. CASE ItemReleased
  <2>1. PICK v : Enforced(v) /\ feed' = Append(feed, v)
    BY <1>6 DEF ItemReleased
  <2>2. PICK r \in live : TakeItem(r) /\ v = NextItem(r)
    BY <2>1 DEF Enforced, CInv, NothingInFlight
  <2>3. /\ Idle /\ ~terminated /\ state.type = "Permitting" /\ produced[r] < MaxItems
        /\ produced' = [produced EXCEPT ![r] = @ + 1]
    BY <1>6, <2>2 DEF ItemReleased, TakeItem, RapDelivers
  <2>4. /\ r = opened /\ r \in 1..MaxRaps /\ v = Contract!Item(r, produced[r] + 1, decisions)
    BY <2>2, <2>3, NextInOrder
  <2>5. v.rap = opened /\ v.seq = produced'[opened]
    BY <1>0, <2>3, <2>4 DEF Contract!Item
  <2>6. produced'[opened] \in Nat /\ opened \in Nat
    BY <1>0, <1>p, <2>4
  <2>7. opened' = opened \/ opened' = opened + 1
    BY <1>0, Monotone
  <2>8. Before(v, opened', produced')
    BY <2>5, <2>6, <2>7 DEF Before
  <2>. QED BY <1>3, <2>1, <2>8
<1>. QED BY <1>0, <1>4, <1>5, <1>6, Releases DEF SignalReleased

-----------------------------------------------------------------------------
(* Every step of the runner is a step of the contract, or stutters.        *)
LEMMA Simulation ==
    ASSUME ~SyncRap, ~AsyncItems
    PROVE  CInv /\ [Next]_vars => [Contract!Next]_(Contract!vars)
<1> SUFFICES ASSUME CInv, [Next]_vars
             PROVE  Contract!Next \/ UNCHANGED Contract!vars
  OBVIOUS
<1>0. IInv /\ TypeOK /\ Lifecycle /\ live \subseteq 1..MaxRaps
  BY DEF CInv, IInv, TypeOK
<1>1. ASSUME NEW d \in Decision, HandlePdpDecision(d) PROVE Contract!Decide
  BY <1>0, <1>1, DecideStep DEF HandlePdpDecision
<1>2. ASSUME HandlePdpError PROVE Contract!End
  <2>1. Ends("errored", {})
    BY <1>0, <1>2, RunningStream, Effects DEF HandlePdpError
  <2>. QED BY <1>0, <1>2, <2>1, EndStep DEF HandlePdpError, Ends
<1>3. ASSUME PdpCompletes PROVE Contract!Decide \/ UNCHANGED Contract!vars
  <2>1. CASE decisions = 0
    <3>1. /\ latest' = [verb |-> "DENY", failed |-> FALSE] /\ decisions' = 1
          /\ ProcessEvent(Classify(latest', 1), {}) /\ pdpSubscription
      BY <1>3, <2>1 DEF PdpCompletes, PdpDelivers
    <3>2. latest' \in Decision /\ decisions' = decisions + 1
      BY <2>1, <3>1 DEF Decision, Contract!Verbs
    <3>3. ~terminated
      BY <1>0, <3>1 DEF Lifecycle
    <3>. QED BY <1>0, <3>1, <3>2, <3>3, DecideStep
  <2>2. CASE decisions # 0
    BY <1>3, <2>2 DEF PdpCompletes, outVars, Contract!vars
  <2>. QED BY <2>1, <2>2
<1>4. ASSUME RapSubscribed PROVE UNCHANGED Contract!vars
  BY <1>4 DEF RapSubscribed, pdpVars, outVars, Contract!vars
<1>5. ASSUME NEW r \in live, HandleRapValueUnenforced(r)
      PROVE  Contract!Release \/ Contract!End \/ UNCHANGED Contract!vars
  <2>1. CASE terminated
    BY <1>5, <2>1 DEF HandleRapValueUnenforced, pdpVars, outVars, Contract!vars
  <2>2. CASE ~terminated
    BY <1>5, <2>2, ItemStep DEF HandleRapValueUnenforced, TakeItem, RapDelivers, pdpVars
  <2>. QED BY <2>1, <2>2
<1>6. ASSUME NEW r \in live, HandleRapValueSync(r)
      PROVE  Contract!Release \/ Contract!End \/ UNCHANGED Contract!vars
  BY <1>6, ItemStep DEF HandleRapValueSync, TakeItem, RapDelivers, pdpVars
<1>7. ASSUME NEW r \in live, HandleRapValueAsync(r) PROVE FALSE
  BY <1>7 DEF HandleRapValueAsync
<1>8. ASSUME NEW r \in live, HandleRapError(r) \/ HandleRapComplete(r)
      PROVE  Contract!End \/ UNCHANGED Contract!vars
  <2>1. latest' = latest /\ decisions' = decisions
    BY <1>8 DEF HandleRapError, HandleRapComplete, RapEnds, pdpVars
  <2>2. CASE terminated
    BY <1>8, <2>1, <2>2 DEF HandleRapError, HandleRapComplete, RapEnds, outVars, Contract!vars
  <2>3. CASE ~terminated
    <3>1. Ends("errored", {r}) \/ Ends("completed", {r})
      BY <1>0, <1>8, <2>3, RunningStream, Effects DEF HandleRapError, HandleRapComplete, RapEnds
    <3>. QED BY <1>0, <2>1, <2>3, <3>1, EndStep DEF Ends
  <2>. QED BY <2>2, <2>3
<1>9. ASSUME NEW v \in inFlight, PerItemSettles(v) PROVE FALSE
  BY <1>9 DEF CInv, NothingInFlight
<1>10. ASSUME Dispose PROVE Contract!End
  BY <1>10 DEF Dispose, pdpVars, Contract!End
<1>11. CASE UNCHANGED vars
  BY <1>11 DEF vars, pdpVars, outVars, Contract!vars
<1>. QED BY <1>1, <1>2, <1>3, <1>4, <1>5, <1>6, <1>7, <1>8, <1>9, <1>10, <1>11
         DEF Next, Contract!Next

(* What the subscriber sees of the runner is allowed by the contract, for  *)
(* every setting of the two stream flags and every bound, provided that    *)
(* items are enforced synchronously and the source delivers nothing before *)
(* its subscribe() returns.                                                *)
THEOREM ContractImplemented == ASSUME ~SyncRap, ~AsyncItems PROVE Spec => ImplementsContract
<1>1. Init => Contract!Init /\ Held /\ NothingInFlight /\ Ordered
  BY DEF Init, Contract!Init, Held, AtRest, Idle, PendingState, NothingInFlight, Ordered
<1>2. NothingInFlight /\ [Next]_vars => NothingInFlight'
  BY DEF NothingInFlight, Next, vars, HandlePdpDecision, HandlePdpError, PdpCompletes, RapSubscribed,
         HandleRapValueUnenforced, HandleRapValueSync, HandleRapValueAsync,
         HandleRapError, HandleRapComplete, RapEnds, PerItemSettles, Dispose, itemVars
<1>3. CInv <=> IInv /\ Held /\ NothingInFlight /\ Ordered
  BY DEF CInv
<1>. QED BY <1>1, <1>2, <1>3, HeldInductive, OrderedInductive, Simulation, InvariantHolds, PTL
         DEF Spec, ImplementsContract, Contract!Spec
==============================================================================
