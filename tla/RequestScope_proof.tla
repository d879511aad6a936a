------------------------- MODULE RequestScope_proof -------------------------
(***************************************************************************)
(* When the enforced methods of a request run one after the other, every   *)
(* query of a method is answered under its own obligations: proved for any *)
(* number of calls, any rows and columns, and any obligations and queries. *)
(***************************************************************************)
EXTENDS RequestScope, TLAPS

(* A method that runs is the only one, and in a request the plan in scope  *)
(* is its own; the last query was judged by it.                            *)
PlanOfTheRunning ==
    /\ phase \in [Call -> {"idle", "running", "over"}]
    /\ activePlan \in Call \cup {0}
    /\ \A c, d \in Call : Running(c) /\ Running(d) => c = d
    /\ \A c \in Call : clsActive /\ Running(c) => activePlan = c

IInv == PlanOfTheRunning /\ ObligedQueriesAreNarrowed

-----------------------------------------------------------------------------
(* What is merged into a filter are exactly the rows that satisfy every    *)
(* criterion and every condition.                                          *)
LEMMA MergeIsConjunction ==
    ASSUME NEW existing, NEW obligation
    PROVE  Merge(existing, Fragments(obligation)) =
             { r \in existing : /\ \A criterion \in obligation.criteria : r \in Selects(criterion)
                                /\ \A condition \in obligation.conditions : r \in condition.rows }
<1>1. ASSUME NEW r \in existing
      PROVE  (\A f \in Fragments(obligation) : r \in f)
             <=> /\ \A criterion \in obligation.criteria : r \in Selects(criterion)
                 /\ \A condition \in obligation.conditions : r \in condition.rows
  BY DEF Fragments
<1> QED
  BY <1>1 DEF Merge

(* A query under the plan in scope is passed, denied or narrowed as the    *)
(* property demands of the obligations of that plan.                       *)
WellDischarged(signal, operation, query) ==
    LET a == Discharge(signal, operation, query) IN
    /\ InForce(signal) = {} => a.effect = "asIs" /\ a.answer = query
    /\ (InForce(signal) # {} /\ a.effect = "denied") => Denied(signal, operation)
    /\ (InForce(signal) # {} /\ a.effect # "denied") =>
          \A o \in InForce(signal) :
             /\ a.effect = "narrowed"
             /\ a.answer.filter = Merge(query.filter, Fragments(o))
             /\ a.answer.select = NarrowSelect(signal, query.select, o.columns)

LEMMA EveryQueryIsWellDischarged ==
    ASSUME NEW signal, NEW operation, operation # "unlisted", NEW query
    PROVE  WellDischarged(signal, operation, query)
<1> DEFINE own == InForce(signal)
           a == Discharge(signal, operation, query)
           chosen == CHOOSE obligation \in InForce(signal) : TRUE
<1>1. CASE own = {}
  <2>1. ~ Enforced(signal)
    BY <1>1 DEF Enforced
  <2>2. a = Answer("asIs", query)
    BY <2>1 DEF Discharge
  <2> QED
    BY <1>1, <2>2 DEF Answer, WellDischarged
<1>2. CASE own # {} /\ Denied(signal, operation)
  <2>1. Enforced(signal)
    BY <1>2 DEF Enforced
  <2>2. a = Answer("denied", [filter |-> {}, select |-> {}])
    BY <1>2, <2>1 DEF Discharge
  <2>3. a.effect = "denied"
    BY <2>2 DEF Answer
  <2> QED
    BY <1>2, <2>3 DEF WellDischarged
<1>3. CASE own # {} /\ ~ Denied(signal, operation)
  <2>1. Enforced(signal)
    BY <1>3 DEF Enforced
  <2>2. a = Answer("narrowed", Rewrite(signal, chosen, query))
    BY <1>3, <2>1 DEF Discharge
  <2>3. \A o \in own : o = chosen
    <3>1. chosen \in InForce(signal)
      BY <1>3
    <3>2. \A x, y \in InForce(signal) : x = y
      BY <1>3 DEF Denied
    <3> QED
      BY <3>1, <3>2
  <2>4. /\ a.effect = "narrowed"
        /\ a.answer.filter = Merge(query.filter, Fragments(chosen))
        /\ a.answer.select = NarrowSelect(signal, query.select, chosen.columns)
    BY <2>2 DEF Answer, Rewrite
  <2> QED
    BY <1>3, <2>3, <2>4 DEF WellDischarged
<1> QED
  BY <1>1, <1>2, <1>3

(* A row of the collection is in what a criterion lowers to exactly if it  *)
(* satisfies the criterion.                                                *)
LEMMA SelectsIsSatisfies ==
    ASSUME NEW r \in Row, NEW criterion
    PROVE  r \in Selects(criterion) <=> Satisfies(r, criterion)
<1>1. CASE criterion.kind = "and"
  BY <1>1 DEF Selects, Satisfies
<1>2. CASE criterion.kind = "or"
  BY <1>2 DEF Selects, Satisfies
<1>3. CASE criterion.kind \notin {"and", "or"}
  BY <1>3 DEF Selects, Satisfies
<1> QED
  BY <1>1, <1>2, <1>3

-----------------------------------------------------------------------------

LEMMA InitEstablishes == Init => IInv
BY DEF Init, IInv, PlanOfTheRunning, Running, ObligedQueriesAreNarrowed, NoQuery

(* Only an invocation changes what runs and which plan is in scope.        *)
LEMMA PlanStaysWithTheRunning ==
    ASSUME PlanOfTheRunning, ~ Overlap, [Next]_vars
    PROVE  PlanOfTheRunning'
<1> USE DEF PlanOfTheRunning, Running
<1>1. ASSUME NEW signal \in QuerySignal, RegisterShim(signal) \/ UnregisterShim(signal)
      PROVE  PlanOfTheRunning'
  BY <1>1 DEF RegisterShim, UnregisterShim
<1>2. ASSUME NEW c \in Call, Invoke(c)
      PROVE  PlanOfTheRunning'
  <2>1. CASE IsAdmissible(c)
    BY <1>2, <2>1 DEF Invoke, SetActivePlan
  <2>2. CASE ~ IsAdmissible(c)
    BY <1>2, <2>2 DEF Invoke
  <2> QED
    BY <2>1, <2>2
<1>3. ASSUME NEW c \in Call, Finish(c)
      PROVE  PlanOfTheRunning'
  BY <1>3 DEF Finish
<1>4. ASSUME NEW by \in Call \cup {0}, NEW signal \in QuerySignal, NEW query \in Queries,
             NEW operation \in Operations(signal), Query(by, signal, operation, query)
      PROVE  PlanOfTheRunning'
  BY <1>4 DEF Query
<1>5. CASE UNCHANGED vars
  BY <1>5 DEF vars
<1> QED
  BY <1>1, <1>2, <1>3, <1>4, <1>5 DEF Next

(* The answer to a query of a running method satisfies the property.       *)
LEMMA QueryIsNarrowed ==
    ASSUME PlanOfTheRunning, NEW by \in Call \cup {0}, NEW signal \in QuerySignal,
           NEW query \in Queries, NEW operation \in Operations(signal),
           Query(by, signal, operation, query)
    PROVE  ObligedQueriesAreNarrowed'
<1> DEFINE own == obliged[by][signal]
           a   == Discharge(signal, operation, query)
<1>1. /\ lastQuery' = [by |-> by, signal |-> signal, operation |-> operation, asked |-> query,
                       effect |-> a.effect, answer |-> a.answer]
      /\ obliged' = obliged /\ clsActive' = clsActive
      /\ by # 0 => Running(by)
  BY DEF Query
<1>2. SUFFICES ASSUME clsActive, by # 0, operation # "unlisted"
      PROVE  /\ own = {} => a.effect = "asIs" /\ a.answer = query
             /\ (own # {} /\ a.effect = "denied") =>
                   \/ operation # "filter"
                   \/ \E x, y \in own : x # y
                   \/ \E o \in own : RewriteThrows(signal, o)
             /\ (own # {} /\ a.effect # "denied") =>
                   \A o \in own :
                      /\ a.effect = "narrowed"
                      /\ a.answer.filter =
                            { r \in query.filter :
                                /\ \A criterion \in o.criteria : Satisfies(r, criterion)
                                /\ \A condition \in o.conditions : r \in condition.rows }
                      /\ a.answer.select \subseteq query.select
                      /\ signal = "sql_query" /\ o.columns # {} =>
                            a.answer.select \subseteq UNION o.columns
  <2>1. /\ lastQuery'.by = by /\ lastQuery'.signal = signal /\ lastQuery'.operation = operation
        /\ lastQuery'.asked = query /\ lastQuery'.effect = a.effect /\ lastQuery'.answer = a.answer
    BY <1>1
  <2> HIDE DEF a
  <2> QED
    BY <1>1, <2>1 DEF ObligedQueriesAreNarrowed
<1>3. own = InForce(signal)
  <2>1. activePlan = by /\ by # 0 /\ clsActive
    BY <1>1, <1>2 DEF PlanOfTheRunning
  <2> QED
    BY <2>1 DEF InForce
<1>4. /\ own = {} => a.effect = "asIs" /\ a.answer = query
      /\ (own # {} /\ a.effect = "denied") => Denied(signal, operation)
      /\ (own # {} /\ a.effect # "denied") =>
            \A o \in own :
               /\ a.effect = "narrowed"
               /\ a.answer.filter = Merge(query.filter, Fragments(o))
               /\ a.answer.select = NarrowSelect(signal, query.select, o.columns)
  <2>1. WellDischarged(signal, operation, query)
    BY <1>2, EveryQueryIsWellDischarged
  <2> HIDE DEF own
  <2> QED
    BY <1>3, <2>1 DEF WellDischarged
<1> HIDE DEF a
<1>5. Denied(signal, operation) =>
         \/ operation # "filter"
         \/ \E x, y \in own : x # y
         \/ \E o \in own : RewriteThrows(signal, o)
  BY <1>3 DEF Denied
<1>6. ASSUME NEW o \in own
      PROVE  /\ Merge(query.filter, Fragments(o)) =
                  { r \in query.filter :
                      /\ \A criterion \in o.criteria : Satisfies(r, criterion)
                      /\ \A condition \in o.conditions : r \in condition.rows }
             /\ NarrowSelect(signal, query.select, o.columns) \subseteq query.select
             /\ signal = "sql_query" /\ o.columns # {} =>
                   NarrowSelect(signal, query.select, o.columns) \subseteq UNION o.columns
  <2>1. query.filter \subseteq Row
    BY ScopeAssumption
  <2>2. \A r \in query.filter : \A criterion \in o.criteria :
           r \in Selects(criterion) <=> Satisfies(r, criterion)
    BY <2>1, SelectsIsSatisfies
  <2>3. Merge(query.filter, Fragments(o)) =
           { r \in query.filter : /\ \A criterion \in o.criteria : r \in Selects(criterion)
                                  /\ \A condition \in o.conditions : r \in condition.rows }
    BY MergeIsConjunction
  <2> QED
    BY <2>2, <2>3 DEF NarrowSelect
<1> QED
  BY <1>4, <1>5, <1>6

LEMMA StepPreserves == IInv /\ ~ Overlap /\ [Next]_vars => IInv'
<1> SUFFICES ASSUME IInv, ~ Overlap, [Next]_vars
    PROVE  IInv'
  OBVIOUS
<1>1. PlanOfTheRunning'
  BY PlanStaysWithTheRunning DEF IInv
<1>2. ASSUME UNCHANGED << clsActive, obliged, lastQuery >>
      PROVE  ObligedQueriesAreNarrowed'
  BY <1>2 DEF IInv, ObligedQueriesAreNarrowed
<1>3. ASSUME NEW by \in Call \cup {0}, NEW signal \in QuerySignal, NEW query \in Queries,
             NEW operation \in Operations(signal), Query(by, signal, operation, query)
      PROVE  ObligedQueriesAreNarrowed'
  BY <1>3, QueryIsNarrowed DEF IInv
<1>4. UNCHANGED << clsActive, obliged, lastQuery >>
      \/ \E by \in Call \cup {0}, signal \in QuerySignal, query \in Queries :
            \E operation \in Operations(signal) : Query(by, signal, operation, query)
  BY DEF Next, RegisterShim, UnregisterShim, Invoke, Finish, vars
<1> QED
  BY <1>1, <1>2, <1>3, <1>4 DEF IInv

(* When no two enforced methods of a request overlap, every query with a   *)
(* filter is answered with exactly the rows and columns that the method's  *)
(* own obligations leave of it, or denied because they cannot be applied.  *)
THEOREM SequentialQueriesAreNarrowed ==
    ~ Overlap => (Spec => []ObligedQueriesAreNarrowed)
<1> SUFFICES ASSUME ~ Overlap
    PROVE  Spec => []ObligedQueriesAreNarrowed
  OBVIOUS
<1>1. Init => IInv
  BY InitEstablishes
<1>2. IInv /\ [Next]_vars => IInv'
  BY StepPreserves
<1>3. IInv => ObligedQueriesAreNarrowed
  BY DEF IInv
<1> QED
  BY <1>1, <1>2, <1>3, PTL DEF Spec

-----------------------------------------------------------------------------
(* Types, whether or not methods overlap.                                  *)
LEMMA TypedStep == TypeOK /\ [Next]_vars => TypeOK'
<1> SUFFICES ASSUME TypeOK, [Next]_vars PROVE TypeOK'
  OBVIOUS
<1> USE DEF TypeOK
<1>1. ASSUME NEW signal \in QuerySignal, RegisterShim(signal) \/ UnregisterShim(signal)
      PROVE  TypeOK'
  BY <1>1 DEF RegisterShim, UnregisterShim
<1>2. ASSUME NEW c \in Call, Invoke(c) PROVE TypeOK'
  <2>1. /\ activePlan' \in {activePlan, c}
        /\ phase' \in {[phase EXCEPT ![c] = "running"], [phase EXCEPT ![c] = "over"]}
        /\ UNCHANGED << clsActive, registered, obliged, lastQuery >>
    BY <1>2 DEF Invoke, SetActivePlan
  <2>. QED BY <2>1
<1>3. ASSUME NEW c \in Call, Finish(c) PROVE TypeOK'
  BY <1>3 DEF Finish
<1>4. ASSUME NEW by \in Call \cup {0}, NEW signal \in QuerySignal, NEW query \in Queries,
             NEW operation \in Operations(signal), Query(by, signal, operation, query)
      PROVE  TypeOK'
  <2>1. operation \in Operation
    BY DEF Operations, Operation
  <2>2. Discharge(signal, operation, query).effect \in {"asIs", "narrowed", "denied"}
    BY DEF Discharge, Answer
  <2> DEFINE a == Discharge(signal, operation, query)
  <2>3. /\ lastQuery' = [by |-> by, signal |-> signal, operation |-> operation, asked |-> query,
                         effect |-> a.effect, answer |-> a.answer]
        /\ UNCHANGED << clsActive, registered, activePlan, phase, obliged >>
    BY <1>4 DEF Query
  <2> HIDE DEF a
  <2>. QED BY <2>1, <2>2, <2>3 DEF a
<1>5. CASE UNCHANGED vars
  BY <1>5 DEF vars
<1>. QED BY <1>1, <1>2, <1>3, <1>4, <1>5 DEF Next

(* Every reachable value has its type, however methods of the request,     *)
(* shims and queries interleave.                                           *)
THEOREM TypeCorrect == Spec => []TypeOK
<1>1. Init => TypeOK
  <2> SUFFICES ASSUME Init PROVE TypeOK
    OBVIOUS
  <2>1. \A c \in Call, signal \in QuerySignal : obliged[c][signal] \in Obligations[signal]
    BY DEF Init
  <2>. QED BY <2>1 DEF Init, TypeOK
<1>. QED BY <1>1, TypedStep, PTL DEF Spec
=============================================================================
