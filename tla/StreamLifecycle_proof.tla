------------------------ MODULE StreamLifecycle_proof -----------------------
(***************************************************************************)
(* The lifecycle signals of an enforced stream, for any number of          *)
(* subscriptions, plans and decisions; and before them the transition      *)
(* function, for every set of plans and of values: its cases, the type of  *)
(* what it yields, and that it agrees with its reference table.            *)
(***************************************************************************)
EXTENDS StreamLifecycle, TLAPS

-----------------------------------------------------------------------------
(* The machine, its transition function and its cases.                     *)

(* What one event does to a machine that has not terminated: the           *)
(* alternatives of the switch in step(), one by one.                       *)
LEMMA StepCases ==
    ASSUME NEW s, s.type # "Terminated"
    PROVE  /\ Step(s, Cancel) = StepTo(TerminatedState, << >>)
           /\ Step(s, RapComplete) = StepTo(TerminatedState, << EmitComplete >>)
           /\ Step(s, RapError) = StepTo(TerminatedState, << EmitError("Upstream") >>)
           /\ Step(s, PdpError) = StepTo(TerminatedState, << EmitError("Upstream") >>)
           /\ Step(s, PdpDeny) = HandleDeny
           /\ Step(s, PdpSuspend) = HandleSuspend(s)
           /\ \A p : Step(s, PdpPermit(p)) = HandlePermit(s, p)
           /\ \A r : Step(s, RapItem(r)) = HandleItem(s, r)
<1> USE DEF Step
<1>1. Step(s, Cancel) = StepTo(TerminatedState, << >>)
  BY DEF Cancel
<1>2. Step(s, RapComplete) = StepTo(TerminatedState, << EmitComplete >>)
  BY DEF RapComplete
<1>3. Step(s, RapError) = StepTo(TerminatedState, << EmitError("Upstream") >>)
  BY DEF RapError
<1>4. Step(s, PdpError) = StepTo(TerminatedState, << EmitError("Upstream") >>)
  BY DEF PdpError
<1>5. Step(s, PdpDeny) = HandleDeny
  BY DEF PdpDeny
<1>6. Step(s, PdpSuspend) = HandleSuspend(s)
  BY DEF PdpSuspend
<1>7. \A p : Step(s, PdpPermit(p)) = HandlePermit(s, p)
  BY DEF PdpPermit
<1>8. \A r : Step(s, RapItem(r)) = HandleItem(s, r)
  BY DEF RapItem
<1>. QED BY <1>1, <1>2, <1>3, <1>4, <1>5, <1>6, <1>7, <1>8

(* Every event is one of the constructors above.                           *)
LEMMA EventCases ==
    ASSUME NEW Plans, NEW Values, NEW e \in Event(Plans, Values)
    PROVE  \/ e \in {Cancel, RapComplete, RapError, PdpError, PdpDeny, PdpSuspend}
           \/ \E p \in Plans : e = PdpPermit(p)
           \/ \E r \in EnforcementResult(Values) : e = RapItem(r)
  BY DEF Event, PdpPermit, RapItem

(* A step never leaves the state set, and emits at most one emission of    *)
(* the output alphabet (step in MealyMachine.ts is total).                 *)
LEMMA StepType ==
    ASSUME NEW Plans, NEW Values, NEW s \in State(Plans), NEW e \in Event(Plans, Values)
    PROVE  /\ Step(s, e).newState \in State(Plans)
           /\ Step(s, e).emissions \in Seq(Emission(Values))
           /\ Len(Step(s, e).emissions) <= 1
<1> DEFINE Good(st) == /\ st.newState \in State(Plans)
                       /\ st.emissions \in Seq(Emission(Values))
                       /\ Len(st.emissions) <= 1
<1>1. /\ \A t \in State(Plans) : Good(StepTo(t, << >>))
      /\ \A t \in State(Plans), m \in Emission(Values) : Good(StepTo(t, << m >>))
  BY DEF StepTo
<1> HIDE DEF Good
<1>2. /\ {PendingState, SuspendedState, TerminatedState} \subseteq State(Plans)
      /\ \A p \in Plans : PermittingState(p) \in State(Plans)
      /\ \A k \in ErrorKinds : EmitError(k) \in Emission(Values)
      /\ EmitComplete \in Emission(Values)
      /\ EmitTransition("Granted") \in Emission(Values)
      /\ EmitTransition("Suspended") \in Emission(Values)
      /\ \A v \in Values : Emit(v) \in Emission(Values)
  BY DEF State, PermittingState, Emission, EmitError, EmitTransition, Emit
<1>3. Good(HandleDeny)
  BY <1>1, <1>2 DEF HandleDeny, ErrorKinds
<1>4. ASSUME s.type = "Terminated" PROVE Good(Step(s, e))
  BY <1>1, <1>4 DEF Step
<1>5. ASSUME s.type # "Terminated" PROVE Good(Step(s, e))
  <2>1. Good(HandleSuspend(s))
    BY <1>1, <1>2 DEF HandleSuspend
  <2>2. ASSUME e \in {Cancel, RapComplete, RapError, PdpError, PdpDeny, PdpSuspend}
        PROVE  Good(Step(s, e))
    BY <1>1, <1>2, <1>3, <1>5, <2>1, <2>2, StepCases DEF ErrorKinds
  <2>3. ASSUME NEW p \in Plans, e = PdpPermit(p)
        PROVE  Good(Step(s, e))
    BY <1>1, <1>2, <1>5, <2>3, StepCases DEF HandlePermit
  <2>4. ASSUME NEW r \in EnforcementResult(Values), e = RapItem(r)
        PROVE  Good(Step(s, e))
    <3>1. Good(PermittingItem(s, r))
      BY <1>1, <1>2 DEF PermittingItem, EnforcementResult, Absent
    <3>2. Good(HandleItem(s, r))
      BY <1>1, <1>3, <3>1 DEF HandleItem
    <3>. QED BY <1>5, <2>4, <3>2, StepCases
  <2>. QED BY <2>2, <2>3, <2>4, EventCases
<1>. QED BY <1>4, <1>5 DEF Good

-----------------------------------------------------------------------------
(* The table.                                                              *)

(* What the table holds for each heading, with the source state's type as  *)
(* a parameter.                                                            *)
LEMMA RowCases ==
    ASSUME NEW s, s.type \in {"Pending", "Permitting", "Suspended"}, NEW e
    PROVE  /\ Heading(e) = "PdpPermit" =>
                /\ Row(s, e).to = "Permitting"
                /\ Row(s, e).emits = IF s.type = "Permitting" THEN "Silent" ELSE "Granted"
           /\ Heading(e) = "PdpSuspend" =>
                /\ Row(s, e).to = "Suspended"
                /\ Row(s, e).emits = IF s.type = "Suspended" THEN "Silent" ELSE "Suspended"
           /\ Heading(e) = "Present" =>
                /\ Row(s, e).to = s.type
                /\ Row(s, e).emits = IF s.type = "Permitting" THEN "Emit" ELSE "Silent"
           /\ Heading(e) = "Absent" => Row(s, e).to = s.type /\ Row(s, e).emits = "Silent"
           /\ Heading(e) \in {"PdpDeny", "PdpError", "RapError", "Failed"} =>
                Row(s, e).to = "Terminated" /\ Row(s, e).emits = "EmitError"
           /\ Heading(e) = "RapComplete" =>
                Row(s, e).to = "Terminated" /\ Row(s, e).emits = "EmitComplete"
           /\ Heading(e) = "Cancel" => Row(s, e).to = "Terminated" /\ Row(s, e).emits = "Silent"
<1> DEFINE h == Heading(e)
<1>1. Row(s, e).to = Target(h)[s.type] /\ Row(s, e).emits = Output(h)[s.type]
  BY DEF Row
<1>2. \A x, y, z : Columns(x, y, z)[s.type] =
        IF s.type = "Pending" THEN x ELSE IF s.type = "Permitting" THEN y ELSE z
  BY DEF Columns
<1> HIDE DEF h
<1>3. h \in {"PdpDeny", "PdpError", "RapError", "Failed"} =>
        /\ Target(h) = Columns("Terminated", "Terminated", "Terminated")
        /\ Output(h) = Columns("EmitError", "EmitError", "EmitError")
  BY DEF Target, Output
<1>4. h = "RapComplete" =>
        /\ Target(h) = Columns("Terminated", "Terminated", "Terminated")
        /\ Output(h) = Columns("EmitComplete", "EmitComplete", "EmitComplete")
  BY DEF Target, Output
<1>5. h = "Cancel" =>
        /\ Target(h) = Columns("Terminated", "Terminated", "Terminated")
        /\ Output(h) = Columns("Silent", "Silent", "Silent")
  BY DEF Target, Output
<1>6. h = "PdpPermit" =>
        /\ Target(h) = Columns("Permitting", "Permitting", "Permitting")
        /\ Output(h) = Columns("Granted", "Silent", "Granted")
  BY DEF Target, Output
<1>7. h = "PdpSuspend" =>
        /\ Target(h) = Columns("Suspended", "Suspended", "Suspended")
        /\ Output(h) = Columns("Suspended", "Suspended", "Silent")
  BY DEF Target, Output
<1>8. h = "Present" =>
        /\ Target(h) = Columns("Pending", "Permitting", "Suspended")
        /\ Output(h) = Columns("Silent", "Emit", "Silent")
  BY DEF Target, Output
<1>9. h = "Absent" =>
        /\ Target(h) = Columns("Pending", "Permitting", "Suspended")
        /\ Output(h) = Columns("Silent", "Silent", "Silent")
  BY DEF Target, Output
<1>. QED BY <1>1, <1>2, <1>3, <1>4, <1>5, <1>6, <1>7, <1>8, <1>9 DEF h

(* What Label reads off the emission lists a step can produce.             *)
LEMMA Labels ==
    /\ Label(<< >>) = "Silent" /\ Len(<< >>) = 0
    /\ \A k : Label(<< EmitError(k) >>) = "EmitError" /\ << EmitError(k) >>[1].kind = k
    /\ \A r : Label(<< EmitTransition(r) >>) = r
    /\ \A v : Label(<< Emit(v) >>) = "Emit"
    /\ Label(<< EmitComplete >>) = "EmitComplete"
    /\ \A m : Len(<< m >>) = 1
<1>1. Label(<< >>) = "Silent" /\ Len(<< >>) = 0
  BY DEF Label
<1>2. \A m : /\ Len(<< m >>) = 1
             /\ << m >>[1] = m
             /\ Label(<< m >>) = IF m.type = "EmitTransition" THEN m.reason ELSE m.type
  BY DEF Label
<1>3. \A k : EmitError(k).type = "EmitError" /\ EmitError(k).kind = k
  BY DEF EmitError
<1>4. \A r : EmitTransition(r).type = "EmitTransition" /\ EmitTransition(r).reason = r
  BY DEF EmitTransition
<1>5. \A v : Emit(v).type = "Emit"
  BY DEF Emit
<1>6. EmitComplete.type = "EmitComplete"
  BY DEF EmitComplete
<1>. QED BY <1>1, <1>2, <1>3, <1>4, <1>5, <1>6

(* The three running source states, as the table names its columns.        *)
LEMMA RunningStates ==
    ASSUME NEW Plans, NEW s \in State(Plans), s.type # "Terminated"
    PROVE  s.type \in {"Pending", "Permitting", "Suspended"}
  BY DEF State, PendingState, SuspendedState, TerminatedState

(* Agreement, for each list of emissions a step can produce.               *)
LEMMA AgreesCases ==
    ASSUME NEW s, NEW e, NEW t, t.type = Row(s, e).to,
           t.type = "Permitting" => t = IF e.type = "PdpPermit" THEN PermittingState(e.plan) ELSE s
    PROVE  /\ Row(s, e).emits = "Silent" => Agrees(s, e, t, << >>)
           /\ Row(s, e).emits = "EmitComplete" => Agrees(s, e, t, << EmitComplete >>)
           /\ \A r \in {"Granted", "Suspended"} :
                Row(s, e).emits = r => Agrees(s, e, t, << EmitTransition(r) >>)
           /\ Row(s, e).emits = "Emit" => Agrees(s, e, t, << Emit(e.enforcementResult.value.value) >>)
           /\ Row(s, e).emits = "EmitError" =>
                Agrees(s, e, t, << EmitError(IF Heading(e) \in {"PdpDeny", "Failed"}
                                               THEN "AccessDenied" ELSE "Upstream") >>)
<1>1. Row(s, e).emits = "Silent" => Agrees(s, e, t, << >>)
  BY Labels DEF Agrees
<1>2. Row(s, e).emits = "EmitComplete" => Agrees(s, e, t, << EmitComplete >>)
  BY Labels DEF Agrees
<1>3. \A r \in {"Granted", "Suspended"} :
        Row(s, e).emits = r => Agrees(s, e, t, << EmitTransition(r) >>)
  BY Labels DEF Agrees
<1>4. Row(s, e).emits = "Emit" => Agrees(s, e, t, << Emit(e.enforcementResult.value.value) >>)
  BY Labels DEF Agrees
<1>5. Row(s, e).emits = "EmitError" =>
        Agrees(s, e, t, << EmitError(IF Heading(e) \in {"PdpDeny", "Failed"}
                                       THEN "AccessDenied" ELSE "Upstream") >>)
  BY Labels DEF Agrees
<1>. QED BY <1>1, <1>2, <1>3, <1>4, <1>5

(* Each event agrees with its line of the table.                           *)
LEMMA StepAgrees ==
    ASSUME NEW Plans, NEW Values, NEW s \in State(Plans), NEW e \in Event(Plans, Values)
    PROVE  Agrees(s, e, Step(s, e).newState, Step(s, e).emissions)
<1> DEFINE Ok(st) == Agrees(s, e, st.newState, st.emissions)
<1>1. ASSUME NEW t, NEW ms
      PROVE  Ok(StepTo(t, ms)) <=> Agrees(s, e, t, ms)
  BY DEF StepTo
<1>2. TerminatedState.type = "Terminated" /\ SuspendedState.type = "Suspended"
  BY DEF TerminatedState, SuspendedState
<1> HIDE DEF Ok
<1>3. ASSUME s.type = "Terminated" PROVE Ok(Step(s, e))
  <2>1. Step(s, e) = StepTo(s, << >>)
    BY <1>3 DEF Step
  <2>2. Row(s, e).to = "Terminated" /\ Row(s, e).emits = "Silent"
    BY <1>3 DEF Row
  <2>. QED BY <1>1, <1>3, <2>1, <2>2, AgreesCases
<1>4. ASSUME s.type # "Terminated" PROVE Ok(Step(s, e))
  <2>0. s.type \in {"Pending", "Permitting", "Suspended"}
    BY <1>4, RunningStates
  <2>1. ASSUME e = PdpDeny PROVE Ok(Step(s, e))
    <3>1. Heading(e) = "PdpDeny"
      BY <2>1 DEF Heading, PdpDeny
    <3>2. Step(s, e) = StepTo(TerminatedState, << EmitError("AccessDenied") >>)
      BY <1>4, <2>1, StepCases DEF HandleDeny
    <3>3. Row(s, e).to = "Terminated" /\ Row(s, e).emits = "EmitError"
      BY <2>0, <3>1, RowCases
    <3>4. Agrees(s, e, TerminatedState, << EmitError("AccessDenied") >>)
      BY <1>2, <3>1, <3>3, AgreesCases
    <3>. QED BY <1>1, <3>2, <3>4
  <2>2. ASSUME e \in {PdpError, RapError} PROVE Ok(Step(s, e))
    <3>1. Heading(e) \in {"PdpError", "RapError"}
      BY <2>2 DEF Heading, PdpError, RapError
    <3>2. Step(s, e) = StepTo(TerminatedState, << EmitError("Upstream") >>)
      BY <1>4, <2>2, StepCases
    <3>3. Row(s, e).to = "Terminated" /\ Row(s, e).emits = "EmitError"
      BY <2>0, <3>1, RowCases
    <3>4. Agrees(s, e, TerminatedState, << EmitError("Upstream") >>)
      BY <1>2, <3>1, <3>3, AgreesCases
    <3>. QED BY <1>1, <3>2, <3>4
  <2>3. ASSUME e = Cancel PROVE Ok(Step(s, e))
    <3>1. Heading(e) = "Cancel"
      BY <2>3 DEF Heading, Cancel
    <3>2. Row(s, e).to = "Terminated" /\ Row(s, e).emits = "Silent"
      BY <2>0, <3>1, RowCases
    <3>3. Agrees(s, e, TerminatedState, << >>)
      BY <1>2, <3>2, AgreesCases
    <3>. QED BY <1>1, <1>4, <2>3, <3>3, StepCases
  <2>4. ASSUME e = RapComplete PROVE Ok(Step(s, e))
    <3>1. Heading(e) = "RapComplete"
      BY <2>4 DEF Heading, RapComplete
    <3>2. Row(s, e).to = "Terminated" /\ Row(s, e).emits = "EmitComplete"
      BY <2>0, <3>1, RowCases
    <3>3. Agrees(s, e, TerminatedState, << EmitComplete >>)
      BY <1>2, <3>2, AgreesCases
    <3>. QED BY <1>1, <1>4, <2>4, <3>3, StepCases
  <2>5. ASSUME e = PdpSuspend PROVE Ok(Step(s, e))
    <3>1. Heading(e) = "PdpSuspend"
      BY <2>5 DEF Heading, PdpSuspend
    <3>2. Step(s, e) = HandleSuspend(s)
      BY <1>4, <2>5, StepCases
    <3>3. /\ Row(s, e).to = "Suspended"
          /\ Row(s, e).emits = IF s.type = "Suspended" THEN "Silent" ELSE "Suspended"
      BY <2>0, <3>1, RowCases
    <3>4. Agrees(s, e, SuspendedState,
                 IF s.type = "Suspended" THEN << >> ELSE << EmitTransition("Suspended") >>)
      BY <1>2, <3>3, AgreesCases
    <3>. QED BY <1>1, <3>2, <3>4 DEF HandleSuspend
  <2>6. ASSUME NEW p \in Plans, e = PdpPermit(p) PROVE Ok(Step(s, e))
    <3>1. Heading(e) = "PdpPermit" /\ e.type = "PdpPermit" /\ e.plan = p
      BY <2>6 DEF Heading, PdpPermit
    <3>2. Step(s, e) = HandlePermit(s, p)
      BY <1>4, <2>6, StepCases
    <3>3. PermittingState(p).type = "Permitting"
      BY DEF PermittingState
    <3>4. /\ Row(s, e).to = "Permitting"
          /\ Row(s, e).emits = IF s.type = "Permitting" THEN "Silent" ELSE "Granted"
      BY <2>0, <3>1, RowCases
    <3>5. Agrees(s, e, PermittingState(p),
                 IF s.type = "Permitting" THEN << >> ELSE << EmitTransition("Granted") >>)
      BY <3>1, <3>3, <3>4, AgreesCases
    <3>. QED BY <1>1, <3>2, <3>5 DEF HandlePermit
  <2>7. ASSUME NEW r \in EnforcementResult(Values), e = RapItem(r) PROVE Ok(Step(s, e))
    <3>1. Step(s, e) = HandleItem(s, r) /\ e.type = "RapItem" /\ e.enforcementResult = r
      BY <1>4, <2>7, StepCases DEF RapItem
    <3>2. ASSUME r.failureState PROVE Ok(Step(s, e))
      <4>1. Heading(e) = "Failed"
        BY <3>1, <3>2 DEF Heading
      <4>2. Step(s, e) = StepTo(TerminatedState, << EmitError("AccessDenied") >>)
        BY <3>1, <3>2 DEF HandleItem, HandleDeny
      <4>3. Row(s, e).to = "Terminated" /\ Row(s, e).emits = "EmitError"
        BY <2>0, <4>1, RowCases
      <4>4. Agrees(s, e, TerminatedState, << EmitError("AccessDenied") >>)
        BY <1>2, <4>1, <4>3, AgreesCases
      <4>. QED BY <1>1, <4>2, <4>4
    <3>3. ASSUME ~r.failureState PROVE Ok(Step(s, e))
      <4>1. Heading(e) = r.value.type /\ r.value.type \in {"Present", "Absent"}
        BY <3>1, <3>3 DEF Heading, EnforcementResult, Absent
      <4>2. Step(s, e) = StepTo(s, IF s.type = "Permitting" /\ r.value.type = "Present"
                                     THEN << Emit(r.value.value) >> ELSE << >>)
        BY <3>1, <3>3 DEF HandleItem, PermittingItem
      <4>3. /\ Row(s, e).to = s.type
            /\ Row(s, e).emits = IF s.type = "Permitting" /\ r.value.type = "Present"
                                    THEN "Emit" ELSE "Silent"
        BY <2>0, <4>1, RowCases
      <4>4. Agrees(s, e, s, IF s.type = "Permitting" /\ r.value.type = "Present"
                              THEN << Emit(r.value.value) >> ELSE << >>)
        BY <3>1, <4>3, AgreesCases
      <4>. QED BY <1>1, <4>2, <4>4
    <3>. QED BY <3>2, <3>3
  <2>. QED BY <2>1, <2>2, <2>3, <2>4, <2>5, <2>6, <2>7, EventCases
<1>. QED BY <1>3, <1>4 DEF Ok

(* Each state of the machine follows the table, for every set of plans and *)
(* of values.                                                              *)
LEMMA RowsFollowed ==
    ASSUME NEW Plans, NEW Values, NEW s \in State(Plans)
    PROVE  FollowsRows(s, Plans, Values)
  BY StepAgrees DEF FollowsRows

-----------------------------------------------------------------------------
(* The lifecycle.                                                          *)

(* A source is opened, and a stream permits, only after a decision.        *)
HasPlan(x) ==
    (opened[x] \/ state[x].type = "Permitting") => currentPlan # 0 /\ seen[x] # "none"

(* No plan that a stream was under, or that a signal fired against, is     *)
(* newer than the newest.                                                  *)
NoNewerPlan(x) ==
    /\ decided[x] <= currentPlan
    /\ \A i \in DOMAIN fired[x] : fired[x][i].plan <= currentPlan

EndsOnceSeen(x) == (seen[x] \in {"none", "open"}) = (ending[x] = "no")

(* What EndIsEnforced says of one subscription.                            *)
Enforced(f, d, e) ==
    LET end == {i \in DOMAIN f : f[i].signal # "termination"} IN
    /\ e = "no" => f = <<>>
    /\ \A i \in DOMAIN f : f[i].plan >= d
    /\ \A i, j \in DOMAIN f : i < j => f[i].plan <= f[j].plan
    /\ d # 0 /\ e \in {"callback", "released"} => end = {1} /\ Len(f) = 1
    /\ d # 0 /\ e = "finalized" => end = {1} /\ Len(f) = 2

Sound(x) ==
    HasPlan(x) /\ NoNewerPlan(x) /\ EndsOnceSeen(x) /\ Enforced(fired[x], decided[x], ending[x])

Inv == TypeOK /\ \A x \in Subscriptions : Sound(x)

LEMMA InitInv ==
    ASSUME Init PROVE Inv
<1> USE DEF Init
<1>1. <<>> \in Seq(LifecycleSignal) /\ PendingState \in State(1..MaxPlans) /\ 0 \in 0..MaxPlans
  BY LifecycleAssumption DEF State
<1>2. TypeOK
  BY <1>1 DEF TypeOK, Endings
<1>3. \A x \in Subscriptions : Sound(x)
  BY DEF Sound, HasPlan, NoNewerPlan, EndsOnceSeen, Enforced, PendingState
<1>. QED BY <1>2, <1>3 DEF Inv

(* What is known of a subscription before its end.                         *)
LEMMA OpenFacts ==
    ASSUME Inv, NEW x \in Subscriptions, seen[x] = "open"
    PROVE  /\ fired[x] = <<>> /\ ending[x] = "no"
           /\ decided[x] \in Nat /\ currentPlan \in Nat /\ decided[x] <= currentPlan
  BY LifecycleAssumption DEF Inv, TypeOK, Sound, EndsOnceSeen, NoNewerPlan, Enforced

LEMMA PlansOfSignals ==
    ASSUME TypeOK, NEW x \in Subscriptions
    PROVE  \A i \in DOMAIN fired[x] : fired[x][i].plan \in Nat
<1>1. fired[x] \in Seq(LifecycleSignal)
  BY DEF TypeOK
<1>2. ASSUME NEW i \in DOMAIN fired[x] PROVE fired[x][i].plan \in Nat
  <2>1. fired[x][i] \in LifecycleSignal
    BY <1>1, <1>2
  <2>. QED BY <2>1, LifecycleAssumption DEF LifecycleSignal
<1>. QED BY <1>2

(* Signals, one and two, that are fired against plans new enough.          *)
LEMMA OneSignal ==
    ASSUME NEW p \in Nat, NEW d \in Nat, d <= p, NEW e \in {"callback", "released"},
           NEW f, Len(f) = 1, DOMAIN f = {1}, f[1].signal # "termination", f[1].plan = p
    PROVE  Enforced(f, d, e)
  BY DEF Enforced

LEMMA TwoSignals ==
    ASSUME NEW end, end # "termination", NEW p \in Nat, NEW q \in Nat, NEW d \in Nat, d <= p, p <= q,
           NEW f, Len(f) = 2, DOMAIN f = {1, 2},
           f[1].signal = end, f[1].plan = p, f[2].signal = "termination", f[2].plan = q
    PROVE  Enforced(f, d, "finalized")
  BY DEF Enforced

(* How a stream ends by itself, given the plan it ends with: the end is    *)
(* seen, its signal fires, nothing changes for other subscriptions.        *)
LEMMA Tapping ==
    ASSUME TypeOK, NEW x \in Subscriptions, NEW end \in {"error", "complete"},
           NEW next \in {"callback", "released"}, currentPlan' \in 0..MaxPlans, Tap(x, end, next)
    PROVE  /\ seen' \in [Subscriptions -> {"none", "open", "errored", "denied", "completed", "cancelled"}]
           /\ state' = [state EXCEPT ![x] = TerminatedState]
           /\ seen'[x] \in {"errored", "denied", "completed", "cancelled"}
           /\ ending' \in [Subscriptions -> Endings] /\ ending'[x] = next
           /\ fired' \in [Subscriptions -> Seq(LifecycleSignal)]
           /\ \A y \in Subscriptions \ {x} :
                 seen'[y] = seen[y] /\ fired'[y] = fired[y] /\ ending'[y] = ending[y]
           /\ currentPlan' = 0 => fired' = fired
           /\ currentPlan' # 0 =>
                \E failed \in BOOLEAN : fired'[x] = <<Fired(end, currentPlan', failed)>>
<1>1. PICK failed \in BOOLEAN :
        /\ seen' = [seen EXCEPT ![x] = Outcome(end, failed)]
        /\ fired' = IF currentPlan' = 0 THEN fired
                    ELSE [fired EXCEPT ![x] = <<Fired(end, currentPlan', failed)>>]
  BY DEF Tap
<1>2. Outcome(end, failed) \in {"errored", "denied", "completed", "cancelled"}
  BY DEF Outcome
<1>3. currentPlan' # 0 => <<Fired(end, currentPlan', failed)>> \in Seq(LifecycleSignal)
  <2>1. currentPlan' # 0 => currentPlan' \in 1..MaxPlans
    BY LifecycleAssumption
  <2>. QED BY <2>1 DEF Fired, LifecycleSignal
<1>4. /\ seen \in [Subscriptions -> {"none", "open", "errored", "denied", "completed", "cancelled"}]
      /\ fired \in [Subscriptions -> Seq(LifecycleSignal)] /\ ending \in [Subscriptions -> Endings]
      /\ state' = [state EXCEPT ![x] = TerminatedState] /\ ending' = [ending EXCEPT ![x] = next]
      /\ next \in Endings
  BY DEF TypeOK, Tap, Endings
<1>5. /\ seen' \in [Subscriptions -> {"none", "open", "errored", "denied", "completed", "cancelled"}]
      /\ seen'[x] = Outcome(end, failed) /\ ending' \in [Subscriptions -> Endings] /\ ending'[x] = next
      /\ \A y \in Subscriptions \ {x} : seen'[y] = seen[y] /\ ending'[y] = ending[y]
  BY <1>1, <1>2, <1>4
<1>6. currentPlan' = 0 => fired' = fired
  BY <1>1
<1>7. ASSUME currentPlan' # 0
      PROVE  /\ fired' \in [Subscriptions -> Seq(LifecycleSignal)]
             /\ fired'[x] = <<Fired(end, currentPlan', failed)>>
             /\ \A y \in Subscriptions \ {x} : fired'[y] = fired[y]
  BY <1>1, <1>3, <1>4, <1>7
<1>. QED BY <1>2, <1>4, <1>5, <1>6, <1>7

(* Nothing of the other subscriptions changes but the newest plan, which   *)
(* gets newer, and their source.                                           *)
LEMMA OthersKeep ==
    ASSUME Inv, NEW x \in Subscriptions, currentPlan' \in Nat, currentPlan' >= currentPlan,
           \A y \in Subscriptions \ {x} :
              /\ seen'[y] = seen[y] /\ fired'[y] = fired[y] /\ ending'[y] = ending[y]
              /\ state'[y] = state[y] /\ opened'[y] = opened[y] /\ decided'[y] = decided[y],
           Sound(x)', TypeOK'
    PROVE  Inv'
<1>1. ASSUME NEW y \in Subscriptions \ {x} PROVE Sound(y)'
  <2>1. /\ decided[y] \in Nat /\ \A i \in DOMAIN fired[y] : fired[y][i].plan \in Nat
        /\ currentPlan \in Nat
    BY PlansOfSignals, LifecycleAssumption DEF Inv, TypeOK
  <2>2. HasPlan(y) /\ NoNewerPlan(y) /\ EndsOnceSeen(y) /\ Enforced(fired[y], decided[y], ending[y])
    BY DEF Inv, Sound
  <2>3. HasPlan(y)' /\ EndsOnceSeen(y)' /\ Enforced(fired[y], decided[y], ending[y])'
    BY <2>1, <2>2 DEF HasPlan, EndsOnceSeen
  <2>4. NoNewerPlan(y)'
    BY <2>1, <2>2 DEF NoNewerPlan
  <2>. QED BY <2>3, <2>4 DEF Sound
<1>. QED BY <1>1 DEF Inv

(* The end of a stream keeps the invariant.                                *)
LEMMA TapKeepsInv ==
    ASSUME Inv, NEW x \in Subscriptions, NEW end \in {"error", "complete"},
           NEW next \in {"callback", "released"}, seen[x] = "open", Tap(x, end, next),
           currentPlan' \in 0..MaxPlans, currentPlan' >= currentPlan,
           opened' = opened,
           decided' = decided \/ decided' = [decided EXCEPT ![x] = currentPlan'],
           firstPlanApplied' \in BOOLEAN, gate' \in {"unfired", "passed", "failed"},
           first' \in [verb : Verbs \cup {"none"}, at : {0} \cup Subscriptions],
           received' \in [Subscriptions -> BOOLEAN]
    PROVE  Inv'
<1>1. TypeOK /\ HasPlan(x) /\ currentPlan' \in Nat
  BY LifecycleAssumption DEF Inv, Sound
<1>2. /\ state \in [Subscriptions -> State(1..MaxPlans)] /\ opened \in [Subscriptions -> BOOLEAN]
      /\ TerminatedState \in State(1..MaxPlans) /\ TerminatedState.type # "Permitting"
      /\ decided \in [Subscriptions -> 0..MaxPlans]
  BY <1>1 DEF TypeOK, State, TerminatedState
<1>3. /\ seen' \in [Subscriptions -> {"none", "open", "errored", "denied", "completed", "cancelled"}]
      /\ state' = [state EXCEPT ![x] = TerminatedState]
      /\ seen'[x] \in {"errored", "denied", "completed", "cancelled"}
      /\ ending' \in [Subscriptions -> Endings] /\ ending'[x] = next
      /\ fired' \in [Subscriptions -> Seq(LifecycleSignal)]
      /\ \A y \in Subscriptions \ {x} :
            seen'[y] = seen[y] /\ fired'[y] = fired[y] /\ ending'[y] = ending[y]
      /\ currentPlan' = 0 => fired' = fired
      /\ currentPlan' # 0 => \E failed \in BOOLEAN : fired'[x] = <<Fired(end, currentPlan', failed)>>
  BY <1>1, Tapping
<1>4. state'[x] = TerminatedState /\ \A y \in Subscriptions \ {x} : state'[y] = state[y]
  BY <1>2, <1>3
<1>5. /\ decided' \in [Subscriptions -> 0..MaxPlans] /\ decided'[x] \in Nat /\ decided'[x] <= currentPlan'
      /\ \A y \in Subscriptions \ {x} : decided'[y] = decided[y]
      /\ fired[x] = <<>> /\ currentPlan \in Nat
  BY <1>1, <1>2, OpenFacts, LifecycleAssumption
<1>6. TypeOK'
  BY <1>1, <1>2, <1>3, <1>5 DEF TypeOK
<1>7. EndsOnceSeen(x)'
  BY <1>3 DEF EndsOnceSeen
<1>8. HasPlan(x)'
  BY <1>1, <1>2, <1>3, <1>4, <1>5 DEF HasPlan
<1>9. NoNewerPlan(x)' /\ Enforced(fired'[x], decided'[x], ending'[x])
  <2>1. CASE currentPlan' = 0
    <3>1. fired'[x] = <<>> /\ decided'[x] = 0
      BY <1>3, <1>5, <2>1
    <3>. QED BY <1>3, <1>5, <2>1, <3>1 DEF Enforced, NoNewerPlan
  <2>2. CASE currentPlan' # 0
    <3>1. PICK failed \in BOOLEAN : fired'[x] = <<Fired(end, currentPlan', failed)>>
      BY <1>3, <2>2
    <3>2. /\ Len(fired'[x]) = 1 /\ DOMAIN fired'[x] = {1} /\ fired'[x][1].plan = currentPlan'
          /\ fired'[x][1].signal # "termination"
      BY <3>1 DEF Fired
    <3>3. Enforced(fired'[x], decided'[x], next)
      <4> DEFINE f == fired'[x]
                 d == decided'[x]
                 p == currentPlan'
      <4>1. /\ p \in Nat /\ d \in Nat /\ d <= p
            /\ Len(f) = 1 /\ DOMAIN f = {1} /\ f[1].signal # "termination" /\ f[1].plan = p
        BY <1>1, <1>5, <3>2
      <4> HIDE DEF f, d, p
      <4>2. Enforced(f, d, next)
        BY <4>1, OneSignal
      <4>. QED BY <4>2 DEF f, d
    <3>4. Enforced(fired'[x], decided'[x], ending'[x])
      BY <1>3, <3>3, Zenon
    <3>. QED BY <1>1, <1>5, <3>2, <3>4 DEF NoNewerPlan
  <2>. QED BY <2>1, <2>2
<1>10. Sound(x)'
  BY <1>7, <1>8, <1>9 DEF Sound
<1>. QED BY <1>1, <1>3, <1>4, <1>5, <1>6, <1>10, OthersKeep

(* A decision that does not end the stream.                                *)
LEMMA DecisionType ==
    ASSUME TypeOK, NEW x \in Subscriptions, NEW verb \in Verbs, NEW denied \in BOOLEAN,
           currentPlan' \in 1..MaxPlans
    PROVE  Step(state[x], EventOf(verb, denied, currentPlan')).newState \in State(1..MaxPlans)
<1>1. EventOf(verb, denied, currentPlan') \in Event(1..MaxPlans, {})
  BY DEF EventOf, Event, PdpPermit, PdpSuspend, PdpDeny
<1>2. state[x] \in State(1..MaxPlans)
  BY DEF TypeOK
<1>. QED BY <1>1, <1>2, StepType

(* An unsubscription, and finalize.                                        *)
LEMMA UnsubscribeInv ==
    ASSUME Inv, NEW x \in Subscriptions, Unsubscribe(x) PROVE Inv'
<1>1. /\ TypeOK /\ HasPlan(x) /\ seen[x] = "open" /\ currentPlan \in 0..MaxPlans
      /\ UNCHANGED <<closure, opened, received, decided>>
  BY DEF Inv, Sound, TypeOK, Unsubscribe
<1>2. /\ state' = [state EXCEPT ![x] = TerminatedState] /\ seen' = [seen EXCEPT ![x] = "cancelled"]
      /\ ending' = [ending EXCEPT ![x] = "finalized"]
      /\ TerminatedState \in State(1..MaxPlans) /\ TerminatedState.type # "Permitting"
  BY DEF Unsubscribe, State, TerminatedState
<1>3. fired[x] = <<>> /\ decided[x] \in Nat /\ currentPlan \in Nat /\ decided[x] <= currentPlan
  BY <1>1, OpenFacts
<1>4. PICK failed, failedAtLast \in BOOLEAN :
        fired' = IF currentPlan = 0 THEN fired
                 ELSE [fired EXCEPT ![x] = <<Fired("cancel", currentPlan, failed),
                                             Fired("termination", currentPlan, failedAtLast)>>]
  BY DEF Unsubscribe
<1> DEFINE two == <<Fired("cancel", currentPlan, failed), Fired("termination", currentPlan, failedAtLast)>>
<1>5. /\ Len(two) = 2 /\ DOMAIN two = {1, 2}
      /\ two[1].signal = "cancel" /\ two[2].signal = "termination"
      /\ two[1].plan = currentPlan /\ two[2].plan = currentPlan
      /\ currentPlan # 0 => two \in Seq(LifecycleSignal)
  <2>1. currentPlan # 0 => currentPlan \in 1..MaxPlans
    BY <1>1, LifecycleAssumption
  <2>. QED BY <2>1 DEF Fired, LifecycleSignal
<1> HIDE DEF two
<1>6. /\ seen' \in [Subscriptions -> {"none", "open", "errored", "denied", "completed", "cancelled"}]
      /\ state' \in [Subscriptions -> State(1..MaxPlans)] /\ ending' \in [Subscriptions -> Endings]
      /\ seen'[x] = "cancelled" /\ state'[x] = TerminatedState /\ ending'[x] = "finalized"
      /\ \A y \in Subscriptions \ {x} : seen'[y] = seen[y] /\ state'[y] = state[y] /\ ending'[y] = ending[y]
  BY <1>1, <1>2 DEF TypeOK, Endings
<1>7. /\ fired' \in [Subscriptions -> Seq(LifecycleSignal)]
      /\ fired'[x] = IF currentPlan = 0 THEN <<>> ELSE two
      /\ \A y \in Subscriptions \ {x} : fired'[y] = fired[y]
  BY <1>1, <1>3, <1>4, <1>5 DEF TypeOK, two
<1>8. TypeOK'
  BY <1>1, <1>6, <1>7 DEF TypeOK, closure
<1>9. HasPlan(x)' /\ EndsOnceSeen(x)'
  BY <1>1, <1>2, <1>6 DEF HasPlan, EndsOnceSeen, closure
<1>10. Enforced(fired'[x], decided'[x], ending'[x]) /\ NoNewerPlan(x)'
  <2>1. CASE currentPlan = 0
    <3>1. fired'[x] = <<>> /\ decided'[x] = 0 /\ currentPlan' = 0
      BY <1>1, <1>3, <1>7, <2>1 DEF closure
    <3>. QED BY <3>1 DEF Enforced, NoNewerPlan
  <2>2. CASE currentPlan # 0
    <3>0. currentPlan <= currentPlan /\ "cancel" # "termination"
      BY <1>3
    <3>1. Enforced(two, decided[x], "finalized")
      BY <1>3, <1>5, <3>0, TwoSignals, Zenon
    <3>. QED BY <1>1, <1>3, <1>5, <1>6, <1>7, <2>2, <3>1 DEF NoNewerPlan, closure
  <2>. QED BY <2>1, <2>2
<1>11. Sound(x)'
  BY <1>9, <1>10 DEF Sound
<1>. QED BY <1>1, <1>3, <1>6, <1>7, <1>8, <1>11, OthersKeep DEF closure

LEMMA FinalizeInv ==
    ASSUME Inv, NEW x \in Subscriptions, Finalize(x) PROVE Inv'
<1>1. /\ TypeOK /\ HasPlan(x) /\ NoNewerPlan(x) /\ EndsOnceSeen(x)
      /\ Enforced(fired[x], decided[x], ending[x])
      /\ ending[x] \in {"callback", "released"} /\ currentPlan \in 0..MaxPlans /\ currentPlan \in Nat
      /\ ending' = [ending EXCEPT ![x] = "finalized"]
      /\ UNCHANGED <<closure, state, opened, seen, received, decided>>
  BY LifecycleAssumption DEF Inv, Sound, TypeOK, Finalize
<1>2. PICK failed \in BOOLEAN :
        fired' = IF currentPlan = 0 THEN fired
                 ELSE [fired EXCEPT ![x] = Append(@, Fired("termination", currentPlan, failed))]
  BY DEF Finalize, PlanAtLast
<1>3. /\ decided[x] \in Nat /\ fired[x] \in Seq(LifecycleSignal)
      /\ fired \in [Subscriptions -> Seq(LifecycleSignal)]
      /\ \A i \in DOMAIN fired[x] : fired[x][i].plan \in Nat
  BY <1>1, PlansOfSignals, LifecycleAssumption DEF TypeOK
<1>4. ending' \in [Subscriptions -> Endings] /\ ending'[x] = "finalized"
      /\ \A y \in Subscriptions \ {x} : ending'[y] = ending[y]
  BY <1>1 DEF TypeOK, Endings
<1>5. HasPlan(x)' /\ EndsOnceSeen(x)'
  BY <1>1, <1>4 DEF HasPlan, EndsOnceSeen, closure
<1>6. CASE currentPlan = 0
  <2>1. fired' = fired /\ decided[x] = 0
    BY <1>1, <1>2, <1>3, <1>6 DEF NoNewerPlan
  <2>2. TypeOK' /\ NoNewerPlan(x)' /\ Enforced(fired'[x], decided'[x], ending'[x])
    BY <1>1, <1>4, <2>1 DEF TypeOK, closure, NoNewerPlan, Enforced
  <2>3. Sound(x)'
    BY <1>5, <2>2 DEF Sound
  <2>. QED BY <1>1, <1>4, <2>1, <2>2, <2>3, OthersKeep DEF closure
<1>7. CASE currentPlan # 0
  <2> DEFINE last == Fired("termination", currentPlan, failed)
             f == fired[x]
             g == Append(f, last)
  <2>1. last \in LifecycleSignal /\ last.signal = "termination" /\ last.plan = currentPlan
    BY <1>1, <1>7, LifecycleAssumption DEF Fired, LifecycleSignal
  <2> HIDE DEF last
  <2>2. fired' \in [Subscriptions -> Seq(LifecycleSignal)] /\ fired'[x] = g
        /\ \A y \in Subscriptions \ {x} : fired'[y] = fired[y]
    BY <1>2, <1>3, <1>7, <2>1 DEF last
  <2>3. /\ Len(f) \in Nat /\ DOMAIN f = 1..Len(f) /\ DOMAIN g = 1..Len(f) + 1 /\ Len(g) = Len(f) + 1
        /\ \A i \in DOMAIN f : g[i] = f[i] /\ g[Len(f) + 1] = last
        /\ g[Len(f) + 1] = last
    BY <1>3, <2>1
  <2> HIDE DEF f, g
  <2>4. \A i \in DOMAIN g : i \in DOMAIN f \/ i = Len(f) + 1
    BY <2>3
  <2>5. \A i \in DOMAIN g : g[i].plan \in Nat /\ g[i].plan <= currentPlan /\ g[i].plan >= decided[x]
    BY <1>1, <1>3, <2>1, <2>3, <2>4 DEF NoNewerPlan, Enforced, f
  <2>6. \A i, j \in DOMAIN g : i < j => g[i].plan <= g[j].plan
    <3>1. \A i, j \in DOMAIN f : i < j => f[i].plan <= f[j].plan
      BY <1>1 DEF Enforced, f
    <3>. QED BY <2>1, <2>3, <2>4, <2>5, <3>1
  <2>7. decided[x] # 0 => { i \in DOMAIN g : g[i].signal # "termination" } = {1} /\ Len(g) = 2
    <3> SUFFICES ASSUME decided[x] # 0
                 PROVE  { i \in DOMAIN g : g[i].signal # "termination" } = {1} /\ Len(g) = 2
      OBVIOUS
    <3>1. { i \in DOMAIN f : f[i].signal # "termination" } = {1} /\ Len(f) = 1
      BY <1>1 DEF Enforced, f
    <3>2. DOMAIN g = {1, 2} /\ g[1].signal # "termination" /\ g[2].signal = "termination"
      BY <2>1, <2>3, <3>1
    <3>. QED BY <2>3, <3>1, <3>2
  <2>8. Enforced(fired'[x], decided'[x], ending'[x]) /\ NoNewerPlan(x)'
    BY <1>1, <1>4, <2>2, <2>5, <2>6, <2>7 DEF Enforced, NoNewerPlan, closure
  <2>9. TypeOK' /\ Sound(x)'
    BY <1>1, <1>4, <1>5, <2>2, <2>8 DEF TypeOK, Sound, closure
  <2>. QED BY <1>1, <1>4, <2>2, <2>9, OthersKeep DEF closure
<1>. QED BY <1>6, <1>7

LEMMA NextInv ==
    ASSUME Inv, [Next]_vars PROVE Inv'
<1>1. TypeOK /\ currentPlan \in Nat /\ \A y \in Subscriptions : Sound(y)
  BY LifecycleAssumption DEF Inv, TypeOK
<1>2. ASSUME UNCHANGED vars PROVE Inv'
  BY <1>1, <1>2 DEF Inv, vars, TypeOK, Sound, HasPlan, NoNewerPlan, EndsOnceSeen
<1>3. ASSUME NEW x \in Subscriptions, Subscribe(x) PROVE Inv'
  <2>1. /\ seen' \in [Subscriptions -> {"none", "open", "errored", "denied", "completed", "cancelled"}]
        /\ seen[x] = "none" /\ seen'[x] = "open" /\ \A y \in Subscriptions \ {x} : seen'[y] = seen[y]
        /\ UNCHANGED <<closure, state, opened, received, decided, ending, fired>>
    BY <1>1, <1>3 DEF Subscribe, TypeOK
  <2>2. TypeOK'
    BY <1>1, <2>1 DEF closure, TypeOK
  <2>3. Sound(x)'
    BY <1>1, <2>1 DEF closure, Sound, HasPlan, NoNewerPlan, EndsOnceSeen
  <2>. QED BY <1>1, <2>1, <2>2, <2>3, OthersKeep DEF closure
<1>4. ASSUME NEW x \in Subscriptions, Item(x) PROVE Inv'
  <2>1. /\ seen[x] = "open" /\ opened' = opened /\ decided' = decided
        /\ firstPlanApplied' = firstPlanApplied /\ first' = first /\ gate' = gate
        /\ received' \in [Subscriptions -> BOOLEAN]
        /\ currentPlan' = currentPlan
        /\ Tap(x, "error", "callback") \/ UNCHANGED <<state, seen, ending, fired>>
    BY <1>1, <1>4 DEF Item, TypeOK
  <2>2. CASE Tap(x, "error", "callback")
    BY <1>1, <2>1, <2>2, TapKeepsInv DEF TypeOK
  <2>3. CASE UNCHANGED <<state, seen, ending, fired>>
    BY <1>1, <2>1, <2>3 DEF Inv, TypeOK, Sound, HasPlan, NoNewerPlan, EndsOnceSeen
  <2>. QED BY <2>1, <2>2, <2>3
<1>5. ASSUME NEW x \in Subscriptions, NEW end \in {"error", "complete"},
             NEW next \in {"callback", "released"}, Ends(x, end, next)
      PROVE  Inv'
  BY <1>1, <1>5, TapKeepsInv DEF Ends, closure, TypeOK
<1>6. ASSUME NEW x \in Subscriptions, NEW verb \in Verbs, Decision(x, verb) PROVE Inv'
  <2>1. /\ seen[x] = "open" /\ received' = received
        /\ currentPlan' \in 1..MaxPlans /\ currentPlan' = currentPlan + 1
        /\ firstPlanApplied' = TRUE
        /\ opened' = [opened EXCEPT ![x] = @ \/ state'[x].type = "Permitting"]
        /\ decided' = [decided EXCEPT ![x] = currentPlan']
    BY <1>1, <1>6, LifecycleAssumption DEF Decision, TypeOK
  <2>2. PICK failed \in BOOLEAN, subscribeDenied \in BOOLEAN :
        /\ IF firstPlanApplied THEN UNCHANGED <<first, gate>>
           ELSE /\ first' = [verb |-> verb, at |-> x]
                /\ gate' = IF subscribeDenied THEN "failed" ELSE "passed"
        /\ LET step == Step(state[x], EventOf(verb, Denies(failed, subscribeDenied), currentPlan'))
           IN IF IsTerminal(step) THEN Tap(x, "error", "callback")
              ELSE state' = [state EXCEPT ![x] = step.newState] /\ UNCHANGED <<seen, ending, fired>>
    BY <1>6 DEF Decision
  <2> DEFINE to == Step(state[x], EventOf(verb, Denies(failed, subscribeDenied), currentPlan')).newState
  <2>3. /\ first' \in [verb : Verbs \cup {"none"}, at : {0} \cup Subscriptions]
        /\ gate' \in {"unfired", "passed", "failed"}
    BY <1>1, <2>2 DEF TypeOK
  <2>4. \/ Tap(x, "error", "callback")
        \/ state' = [state EXCEPT ![x] = to] /\ UNCHANGED <<seen, ending, fired>>
    BY <2>2
  <2>5. to \in State(1..MaxPlans)
    BY <1>1, <2>1, DecisionType DEF Denies
  <2> HIDE DEF to
  <2>6. CASE Tap(x, "error", "callback")
    <3>1. state' = [state EXCEPT ![x] = TerminatedState]
      BY <2>6 DEF Tap
    <3>2. state'[x].type # "Permitting"
      BY <1>1, <3>1 DEF TypeOK, TerminatedState
    <3>3. opened' = opened
      BY <1>1, <2>1, <3>2 DEF TypeOK
    <3>4. currentPlan' \in 0..MaxPlans /\ currentPlan' >= currentPlan
      BY <1>1, <2>1
    <3>. QED BY <1>1, <2>1, <2>3, <2>6, <3>3, <3>4, TapKeepsInv DEF TypeOK
  <2>7. CASE state' = [state EXCEPT ![x] = to] /\ UNCHANGED <<seen, ending, fired>>
    <3>1. TypeOK'
      BY <1>1, <2>1, <2>3, <2>5, <2>7 DEF TypeOK
    <3>2. fired[x] = <<>> /\ ending[x] = "no"
      BY <2>1, OpenFacts
    <3>3. /\ decided'[x] = currentPlan'
          /\ \A y \in Subscriptions \ {x} : decided'[y] = decided[y] /\ opened'[y] = opened[y]
                                             /\ state'[y] = state[y]
      BY <1>1, <2>1, <2>7 DEF TypeOK
    <3>4. Sound(x)'
      BY <1>1, <2>1, <2>7, <3>2, <3>3 DEF Sound, HasPlan, NoNewerPlan, EndsOnceSeen, Enforced
    <3>. QED BY <1>1, <2>1, <2>7, <3>1, <3>3, <3>4, OthersKeep
  <2>. QED BY <2>4, <2>6, <2>7
<1>7. ASSUME NEW x \in Subscriptions, LateDecision(x) PROVE Inv'
  <2>1. /\ ending[x] = "callback" /\ currentPlan' = currentPlan + 1 /\ currentPlan' \in 0..MaxPlans
        /\ ending' = [ending EXCEPT ![x] = "released"]
        /\ UNCHANGED <<firstPlanApplied, first, gate, state, opened, seen, received, decided, fired>>
    BY <1>1, <1>7, LifecycleAssumption DEF LateDecision, TypeOK
  <2>2. ending' \in [Subscriptions -> Endings] /\ ending'[x] = "released"
        /\ \A y \in Subscriptions \ {x} : ending'[y] = ending[y]
    BY <1>1, <2>1 DEF TypeOK, Endings
  <2>3. TypeOK'
    BY <1>1, <2>1, <2>2 DEF TypeOK
  <2>4. \A i \in DOMAIN fired[x] : fired[x][i].plan \in Nat
    BY <1>1, PlansOfSignals
  <2>5. HasPlan(x)' /\ EndsOnceSeen(x)' /\ Enforced(fired'[x], decided'[x], ending'[x])
    BY <1>1, <2>1, <2>2 DEF Sound, HasPlan, EndsOnceSeen, Enforced
  <2>6. NoNewerPlan(x)'
    BY <1>1, <2>1, <2>4, LifecycleAssumption DEF Sound, NoNewerPlan, TypeOK
  <2>7. Sound(x)'
    BY <2>5, <2>6 DEF Sound
  <2>. QED BY <1>1, <2>1, <2>2, <2>3, <2>7, OthersKeep
<1>. QED
  BY <1>2, <1>3, <1>4, <1>5, <1>6, <1>7, UnsubscribeInv, FinalizeInv
     DEF Next, SourceCompletes, SourceFails, DecisionsFail

LEMMA Invariance == Spec => []Inv
<1>1. Init => Inv
  BY InitInv
<1>2. Inv /\ [Next]_vars => Inv'
  BY NextInv
<1>. QED BY <1>1, <1>2, PTL DEF Spec

(* However many subscriptions and decisions there are, every variable      *)
(* keeps its type, the plans of the runner and of the signals included.    *)
THEOREM TypeCorrect == Spec => []TypeOK
<1>1. Inv => TypeOK
  BY DEF Inv
<1>. QED BY <1>1, Invariance, PTL

(* However a stream ends, and whichever subscription gets a decision while *)
(* it does, its end signal and then that of termination are discharged     *)
(* once, against plans no older than the decision it was under.            *)
THEOREM EndEnforced == Spec => []EndIsEnforced
<1>1. Inv => EndIsEnforced
  BY DEF Inv, Sound, Enforced, EndIsEnforced
<1>. QED BY <1>1, Invariance, PTL

(* The transition function agrees with its oracle, the 40 rows of          *)
(* mealy-table.csv, in every state a stream comes to.                      *)
THEOREM TableFollowed == Spec => []FollowsTable
<1>1. Inv => FollowsTable
  BY RowsFollowed DEF Inv, TypeOK, FollowsTable
<1>. QED BY <1>1, Invariance, PTL
-----------------------------------------------------------------------------
(* The gate of the first decision.  What makes it inductive: before that   *)
(* decision nothing has come through, and if it failed the gate and would  *)
(* not suspend the stream, it has ended the one it came for.               *)
OpenRuns == \A x \in Subscriptions : seen[x] \in {"none", "open"} => state[x].type # "Terminated"

NothingBeforeTheFirst ==
    ~firstPlanApplied =>
        currentPlan = 0 /\ \A x \in Subscriptions : ~received[x] /\ ending[x] # "callback"

RefusedFirstEnds ==
    \A x \in Subscriptions :
        first.at = x /\ first.verb # "SUSPEND" /\ gate # "passed"
            => seen[x] \notin {"none", "open"} /\ ~received[x]

Gated == OpenRuns /\ NothingBeforeTheFirst /\ RefusedFirstEnds

(* A stream that ends takes nothing with it: no other stream changes.      *)
LEMMA GatedAtEnd ==
    ASSUME TypeOK, OpenRuns, NEW x \in Subscriptions, NEW end \in {"error", "complete"},
           NEW next \in {"callback", "released"}, currentPlan' \in 0..MaxPlans, Tap(x, end, next)
    PROVE  /\ OpenRuns'
           /\ seen'[x] \notin {"none", "open"}
           /\ \A y \in Subscriptions \ {x} : seen'[y] = seen[y] /\ ending'[y] = ending[y]
           /\ ending'[x] = next
<1>1. /\ seen'[x] \notin {"none", "open"} /\ state' = [state EXCEPT ![x] = TerminatedState]
      /\ ending'[x] = next /\ \A y \in Subscriptions \ {x} : ending'[y] = ending[y]
      /\ \A y \in Subscriptions \ {x} : seen'[y] = seen[y]
  BY Tapping
<1>2. \A y \in Subscriptions \ {x} : state'[y] = state[y]
  BY <1>1 DEF TypeOK
<1>. QED BY <1>1, <1>2 DEF OpenRuns

(* A refusal, and a failed gate, end a running stream.                     *)
LEMMA RefusalEnds ==
    ASSUME NEW s, s.type # "Terminated", NEW verb, NEW denied, NEW p,
           denied \/ verb # "PERMIT", verb # "SUSPEND"
    PROVE  IsTerminal(Step(s, EventOf(verb, denied, p)))
<1>1. EventOf(verb, denied, p) = PdpDeny
  <2>1. CASE verb = "PERMIT"
    BY <2>1, Zenon DEF EventOf
  <2>2. CASE verb # "PERMIT"
    BY <2>2, Zenon DEF EventOf
  <2>. QED BY <2>1, <2>2
<1>2. Step(s, PdpDeny) = StepTo(TerminatedState, << EmitError("AccessDenied") >>)
  BY StepCases DEF HandleDeny
<1>. QED BY <1>1, <1>2 DEF IsTerminal, StepTo, TerminatedState

LEMMA GatedInductive == Inv /\ Gated /\ [Next]_vars => Gated'
<1> SUFFICES ASSUME Inv, Gated, [Next]_vars PROVE Gated'
  OBVIOUS
<1>1. /\ TypeOK /\ OpenRuns /\ NothingBeforeTheFirst /\ RefusedFirstEnds
      /\ \A y \in Subscriptions : HasPlan(y)
  BY DEF Inv, Sound, Gated
<1>2. CASE UNCHANGED vars
  BY <1>1, <1>2 DEF vars, Gated, OpenRuns, NothingBeforeTheFirst, RefusedFirstEnds
<1>3. ASSUME NEW x \in Subscriptions, Subscribe(x) PROVE Gated'
  <2>1. OpenRuns'
    BY <1>1, <1>3 DEF Subscribe, TypeOK, OpenRuns
  <2>2. NothingBeforeTheFirst' /\ RefusedFirstEnds'
    BY <1>1, <1>3 DEF Subscribe, closure, TypeOK, NothingBeforeTheFirst, RefusedFirstEnds
  <2>. QED BY <2>1, <2>2 DEF Gated
<1>4. ASSUME NEW x \in Subscriptions, Item(x) PROVE Gated'
  <2>1. /\ seen[x] = "open" /\ currentPlan' = currentPlan
        /\ firstPlanApplied' = firstPlanApplied /\ first' = first /\ gate' = gate
        /\ \A y \in Subscriptions \ {x} : received'[y] = received[y]
        /\ Tap(x, "error", "callback") \/ UNCHANGED <<state, seen, ending, fired>>
    BY <1>1, <1>4 DEF Item, TypeOK
  <2>2. firstPlanApplied
    BY <1>1, <1>4 DEF Item, HasPlan, NothingBeforeTheFirst
  <2>3. ~(first.at = x /\ first.verb # "SUSPEND" /\ gate # "passed")
    BY <1>1, <2>1 DEF RefusedFirstEnds
  <2>4. OpenRuns' /\ \A y \in Subscriptions \ {x} : seen'[y] = seen[y]
    <3>1. CASE Tap(x, "error", "callback")
      BY <1>1, <2>1, <3>1, GatedAtEnd DEF TypeOK
    <3>2. CASE UNCHANGED <<state, seen, ending, fired>>
      BY <1>1, <3>2 DEF OpenRuns
    <3>. QED BY <2>1, <3>1, <3>2
  <2>. QED BY <1>1, <2>1, <2>2, <2>3, <2>4 DEF Gated, NothingBeforeTheFirst, RefusedFirstEnds
<1>5. ASSUME NEW x \in Subscriptions, NEW end \in {"error", "complete"},
             NEW next \in {"callback", "released"}, Ends(x, end, next),
             next = "callback" => opened[x]
      PROVE  Gated'
  <2>1. /\ OpenRuns' /\ seen'[x] \notin {"none", "open"} /\ ending'[x] = next
        /\ \A y \in Subscriptions \ {x} : seen'[y] = seen[y] /\ ending'[y] = ending[y]
    BY <1>1, <1>5, GatedAtEnd DEF Ends, closure, TypeOK
  <2>2. next = "callback" => firstPlanApplied
    BY <1>1, <1>5 DEF HasPlan, NothingBeforeTheFirst
  <2>. QED BY <1>1, <1>5, <2>1, <2>2 DEF Ends, closure, Gated, NothingBeforeTheFirst, RefusedFirstEnds
<1>6. ASSUME NEW x \in Subscriptions, NEW verb \in Verbs, Decision(x, verb) PROVE Gated'
  <2>1. /\ seen[x] = "open" /\ received' = received /\ firstPlanApplied' = TRUE
        /\ currentPlan' \in 0..MaxPlans
    BY <1>1, <1>6, LifecycleAssumption DEF Decision, TypeOK
  <2>2. PICK failed \in BOOLEAN, subscribeDenied \in BOOLEAN :
        /\ IF firstPlanApplied THEN UNCHANGED <<first, gate>>
           ELSE /\ first' = [verb |-> verb, at |-> x]
                /\ gate' = IF subscribeDenied THEN "failed" ELSE "passed"
        /\ LET step == Step(state[x], EventOf(verb, Denies(failed, subscribeDenied), currentPlan'))
           IN IF IsTerminal(step) THEN Tap(x, "error", "callback")
              ELSE state' = [state EXCEPT ![x] = step.newState] /\ UNCHANGED <<seen, ending, fired>>
    BY <1>6 DEF Decision
  <2> DEFINE step == Step(state[x], EventOf(verb, Denies(failed, subscribeDenied), currentPlan'))
  <2>3. CASE IsTerminal(step)
    <3>1. /\ OpenRuns' /\ seen'[x] \notin {"none", "open"}
          /\ \A y \in Subscriptions \ {x} : seen'[y] = seen[y]
      BY <1>1, <2>1, <2>2, <2>3, GatedAtEnd
    <3>2. RefusedFirstEnds'
      BY <1>1, <2>1, <2>2, <3>1 DEF RefusedFirstEnds, NothingBeforeTheFirst
    <3>. QED BY <2>1, <3>1, <3>2 DEF Gated, NothingBeforeTheFirst
  <2>4. CASE ~IsTerminal(step)
    <3>1. state' = [state EXCEPT ![x] = step.newState] /\ seen' = seen
      BY <2>2, <2>4
    <3>2. step.newState.type # "Terminated"
      BY <2>4 DEF IsTerminal
    <3>3. (~Denies(failed, subscribeDenied) /\ verb = "PERMIT") \/ verb = "SUSPEND"
      BY <1>1, <2>1, <2>4, RefusalEnds DEF OpenRuns
    <3> HIDE DEF step
    <3>4. OpenRuns'
      BY <1>1, <3>1, <3>2 DEF OpenRuns, TypeOK
    <3>5. RefusedFirstEnds'
      <4>1. CASE firstPlanApplied
        BY <1>1, <2>1, <2>2, <3>1, <4>1 DEF RefusedFirstEnds
      <4>2. CASE ~firstPlanApplied
        BY <2>2, <3>3, <4>2 DEF RefusedFirstEnds, Denies
      <4>. QED BY <4>1, <4>2
    <3>. QED BY <2>1, <3>4, <3>5 DEF Gated, NothingBeforeTheFirst
  <2>. QED BY <2>3, <2>4
<1>7. ASSUME NEW x \in Subscriptions, Unsubscribe(x) PROVE Gated'
  <2>1. /\ seen' = [seen EXCEPT ![x] = "cancelled"] /\ state' = [state EXCEPT ![x] = TerminatedState]
        /\ ending' = [ending EXCEPT ![x] = "finalized"] /\ UNCHANGED <<closure, received>>
    BY <1>7 DEF Unsubscribe
  <2>2. /\ seen'[x] = "cancelled" /\ ending'[x] = "finalized"
        /\ \A y \in Subscriptions \ {x} :
              seen'[y] = seen[y] /\ state'[y] = state[y] /\ ending'[y] = ending[y]
    BY <1>1, <2>1 DEF TypeOK
  <2>. QED BY <1>1, <2>1, <2>2 DEF closure, Gated, OpenRuns, NothingBeforeTheFirst, RefusedFirstEnds
<1>8. ASSUME NEW x \in Subscriptions, Finalize(x) PROVE Gated'
  <2>1. /\ ending'[x] = "finalized" /\ \A y \in Subscriptions \ {x} : ending'[y] = ending[y]
        /\ UNCHANGED <<closure, state, seen, received>>
    BY <1>1, <1>8 DEF Finalize, TypeOK
  <2>. QED BY <1>1, <2>1 DEF closure, Gated, OpenRuns, NothingBeforeTheFirst, RefusedFirstEnds
<1>9. ASSUME NEW x \in Subscriptions, LateDecision(x) PROVE Gated'
  <2>1. firstPlanApplied
    BY <1>1, <1>9 DEF LateDecision, NothingBeforeTheFirst
  <2>. QED BY <1>1, <1>9, <2>1 DEF LateDecision, Gated, OpenRuns, NothingBeforeTheFirst, RefusedFirstEnds
<1>. QED
  BY <1>2, <1>3, <1>4, <1>5, <1>6, <1>7, <1>8, <1>9
     DEF Next, SourceCompletes, SourceFails, DecisionsFail

(* The first decision of a call, unless it suspends, lets nothing through  *)
(* to the subscriber it came for unless the subscribe obligations were     *)
(* discharged, whatever follows and whoever else subscribes.               *)
THEOREM FirstDecisionGates == Spec => []FirstDecisionGated
<1>1. Init => Gated
  BY DEF Init, Gated, OpenRuns, NothingBeforeTheFirst, RefusedFirstEnds, PendingState, Subscriptions
<1>2. Gated => FirstDecisionGated
  BY DEF Gated, RefusedFirstEnds, FirstDecisionGated
<1>. QED BY <1>1, <1>2, GatedInductive, Invariance, PTL DEF Spec
=============================================================================
