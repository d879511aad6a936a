---------------------------- MODULE RequestScope ----------------------------
(***************************************************************************)
(* The enforced methods of one request and the queries made during it: the *)
(* active plan in the request's continuation-local storage                 *)
(* (lib/constraints/ActivePlan.ts), the registry of shim signals           *)
(* (lib/constraints/ShimSignalRegistry.ts), and the shims that discharge   *)
(* the query obligations of that plan (lib/mongoose/shim.ts,               *)
(* lib/prisma/shim.ts) by rewriting the query (MongoQueryRewriting.ts,     *)
(* SqlQueryRewriting.ts).                                                  *)
(*                                                                         *)
(* A call is an invocation of a method under @PreEnforce whose decision is *)
(* PERMIT; `obliged[c]` are the query rewritings its decision has as       *)
(* obligations.  Caller 0 is the code of the request outside of any        *)
(* enforced method.  No transaction host (it would run the method in a     *)
(* copy of the storage).                                                   *)
(*                                                                         *)
(* A filter is the set of rows it selects: all of them if the query has    *)
(* none.  A projection is the set of columns it selects.                   *)
(***************************************************************************)
EXTENDS Naturals

CONSTANTS
    MaxCalls,     \* bound: enforced calls of the request
    Overlap,      \* may a method be called while another one runs?
    Row,          \* the rows of the collection or table
    Obligations,  \* for each signal, what a decision may oblige it to
    Queries       \* what a query asks for: [filter, select]

ASSUME ScopeAssumption ==
    /\ MaxCalls \in Nat /\ Overlap \in BOOLEAN
    /\ \A query \in Queries : query.filter \subseteq Row

Call == 1..MaxCalls

QuerySignal == {"mongo_query", "sql_query"}

(* The operations of a shim, by what it does with them: a filter that can   *)
(* be narrowed, a pipeline or a unique key that cannot, and operations     *)
(* that are in neither list.                                               *)
Operation == {"filter", "pipeline", "uniqueKey", "unlisted"}

Operations(signal) ==
    IF signal = "mongo_query" THEN {"filter", "pipeline", "unlisted"}
                              ELSE {"filter", "uniqueKey", "unlisted"}

VARIABLES
    clsActive,    \* cls.isActive(): does this work run in the context of a request?
    registered,   \* shim signals advertised, process-wide
    activePlan,   \* the call whose plan the storage holds, 0 for undefined
    phase,        \* of each call: "idle", "running" or "over"
    obliged,      \* the query obligations in the decision of each call, by signal
    lastQuery     \* the most recent query, and what became of it

vars == << clsActive, registered, activePlan, phase, obliged, lastQuery >>

NoQuery == [by |-> 0, signal |-> "none", operation |-> "none",
            asked |-> [filter |-> {}, select |-> {}],
            effect |-> "none", answer |-> [filter |-> {}, select |-> {}]]

Init ==
    /\ clsActive \in BOOLEAN
    /\ registered \in SUBSET QuerySignal
    /\ activePlan = 0
    /\ phase = [c \in Call |-> "idle"]
    /\ obliged \in [Call -> { o \in [QuerySignal -> UNION { Obligations[s] : s \in QuerySignal }] :
                              \A s \in QuerySignal : o[s] \in Obligations[s] }]
    /\ lastQuery = NoQuery

Running(c) == phase[c] = "running"

-----------------------------------------------------------------------------
(* registerShimSignal, unregisterShimSignal.                               *)
RegisterShim(signal) ==
    /\ registered' = registered \cup {signal}
    /\ UNCHANGED << clsActive, activePlan, phase, obliged, lastQuery >>

UnregisterShim(signal) ==
    /\ registered' = registered \ {signal}
    /\ UNCHANGED << clsActive, activePlan, phase, obliged, lastQuery >>

(* Deliberately wrong: the first plan of the request stays; a copy of the   *)
(* call is stored.                                                         *)
ActivateFirst(c) == IF activePlan = 0 THEN c ELSE activePlan

ActivateNext(c) == c + 1

(* The planner admits a query obligation only if its shim has registered.  *)
IsAdmissible(c) == \A signal \in QuerySignal : obliged[c][signal] # {} => signal \in registered

(* Outside of a request there is nowhere to keep the plan.                 *)
SetActivePlan(c) == IF clsActive THEN c ELSE activePlan

(* PreEnforceAspect.handlePermit: plan, then invoke with the plan active.  *)
Invoke(c) ==
    /\ phase[c] = "idle"
    /\ Overlap \/ \A d \in Call : ~Running(d)
    /\ IF IsAdmissible(c)
       THEN phase' = [phase EXCEPT ![c] = "running"] /\ activePlan' = SetActivePlan(c)
       ELSE phase' = [phase EXCEPT ![c] = "over"] /\ UNCHANGED activePlan
    /\ UNCHANGED << clsActive, registered, obliged, lastQuery >>

(* The method returns or throws; nothing takes its plan out of scope.       *)
Finish(c) ==
    /\ Running(c)
    /\ phase' = [phase EXCEPT ![c] = "over"]
    /\ UNCHANGED << clsActive, registered, activePlan, obliged, lastQuery >>

-----------------------------------------------------------------------------
(* The rewriting of a query.  An obligation has criteria (a leaf, or a     *)
(* group of leaves joined by "and" or "or"), conditions in the language of *)
(* the store, and at most one set of columns.  "unsupported" stands for a  *)
(* criterion or condition that is malformed or has no translation.         *)

Selects(criterion) ==
    IF criterion.kind = "and"     THEN { r \in Row : \A leaf \in criterion.of : r \in leaf.rows }
    ELSE IF criterion.kind = "or" THEN { r \in Row : \E leaf \in criterion.of : r \in leaf.rows }
    ELSE criterion.rows

CriterionThrows(criterion) ==
    \/ criterion.kind = "unsupported"
    \/ criterion.kind \in {"and", "or"} /\ \E leaf \in criterion.of : leaf.kind = "unsupported"

(* The Prisma shim takes no raw condition, the other one JSON objects.     *)
ConditionsThrow(signal, conditions) ==
    IF signal = "sql_query" THEN conditions # {}
    ELSE \E condition \in conditions : condition.kind = "unsupported"

RewriteThrows(signal, obligation) ==
    \/ ConditionsThrow(signal, obligation.conditions)
    \/ \E criterion \in obligation.criteria : CriterionThrows(criterion)

Fragments(obligation) ==
    { Selects(criterion) : criterion \in obligation.criteria }
    \cup { condition.rows : condition \in obligation.conditions }

Merge(existing, fragments) == { r \in existing : \A f \in fragments : r \in f }

(* Columns are those the obligation leaves of the caller's.                *)
NarrowSelect(signal, existing, columns) ==
    IF signal = "sql_query" /\ columns # {} THEN existing \cap UNION columns ELSE existing

Rewrite(signal, obligation, query) ==
    [filter |-> Merge(query.filter, Fragments(obligation)),
     select |-> NarrowSelect(signal, query.select, obligation.columns)]

-----------------------------------------------------------------------------
(* Queries.                                                                *)

InForce(signal) == IF ~ clsActive \/ activePlan = 0 THEN {} ELSE obliged[activePlan][signal]

(* Does the active plan have entries for the signal?                       *)
Enforced(signal) == InForce(signal) # {}

(* A pipeline is rejected by its handler, a unique key by the shim; two     *)
(* rewritings of one signal do not commute, and the planner makes both     *)
(* fail.                                                                   *)
Denied(signal, operation) ==
    \/ operation \in {"pipeline", "uniqueKey"}
    \/ \E a, b \in InForce(signal) : a # b
    \/ \E obligation \in InForce(signal) : RewriteThrows(signal, obligation)

Answer(effect, query) ==
    [effect |-> effect, answer |-> query]

Discharge(signal, operation, query) ==
    IF ~ Enforced(signal) \/ operation = "unlisted" THEN Answer("asIs", query)
    ELSE IF Denied(signal, operation) THEN Answer("denied", [filter |-> {}, select |-> {}])
    ELSE Answer("narrowed",
                Rewrite(signal, CHOOSE obligation \in InForce(signal) : TRUE, query))

Query(by, signal, operation, query) ==
    LET discharged == Discharge(signal, operation, query) IN
    /\ by # 0 => Running(by)
    /\ lastQuery' = [by |-> by, signal |-> signal, operation |-> operation, asked |-> query,
                     effect |-> discharged.effect, answer |-> discharged.answer]
    /\ UNCHANGED << clsActive, registered, activePlan, phase, obliged >>

Next ==
    \/ \E signal \in QuerySignal : RegisterShim(signal) \/ UnregisterShim(signal)
    \/ \E c \in Call : Invoke(c) \/ Finish(c)
    \/ \E by \in Call \cup {0}, signal \in QuerySignal, query \in Queries :
          \E operation \in Operations(signal) : Query(by, signal, operation, query)

Spec == Init /\ [][Next]_vars

-----------------------------------------------------------------------------
(* Properties.                                                             *)

TypeOK ==
    /\ clsActive \in BOOLEAN
    /\ registered \in SUBSET QuerySignal
    /\ activePlan \in Call \cup {0}
    /\ phase \in [Call -> {"idle", "running", "over"}]
    /\ \A c \in Call, signal \in QuerySignal : obliged[c][signal] \in Obligations[signal]
    /\ lastQuery # NoQuery =>
          /\ lastQuery.by \in Call \cup {0} /\ lastQuery.signal \in QuerySignal
          /\ lastQuery.operation \in Operation /\ lastQuery.asked \in Queries
          /\ lastQuery.effect \in {"asIs", "narrowed", "denied"}

(* Does a row satisfy a criterion?                                         *)
Satisfies(row, criterion) ==
    \/ criterion.kind = "and" /\ \A leaf \in criterion.of : row \in leaf.rows
    \/ criterion.kind = "or"  /\ \E leaf \in criterion.of : row \in leaf.rows
    \/ criterion.kind \notin {"and", "or"} /\ row \in criterion.rows

(* The queries of an enforced method that have a filter are discharged     *)
(* under the obligations of that very method, whatever other methods of    *)
(* the request ran before and whatever shims come and go (outside of a     *)
(* request, ActivePlan.ts has them pass unchanged on purpose): they reach  *)
(* exactly the rows the query asks for and every criterion allows, no      *)
(* column beyond those asked for and allowed, and are denied only if the   *)
(* method's own obligations cannot be applied to them (mongoose/shim.ts:53,*)
(* "transparently constrains the data the enforced handler reads";         *)
(* SqlQueryRewriting.ts:4, "can only narrow the result set").              *)
ObligedQueriesAreNarrowed ==
    LET q   == lastQuery
        own == obliged[q.by][q.signal]
    IN  (clsActive /\ q.by # 0 /\ q.operation # "unlisted") =>
           /\ own = {} => q.effect = "asIs" /\ q.answer = q.asked
           /\ (own # {} /\ q.effect = "denied") =>
                 \/ q.operation # "filter"
                 \/ \E a, b \in own : a # b
                 \/ \E o \in own : RewriteThrows(q.signal, o)
           /\ (own # {} /\ q.effect # "denied") =>
                 \A o \in own :
                    /\ q.effect = "narrowed"
                    /\ q.answer.filter =
                          { r \in q.asked.filter :
                              /\ \A criterion \in o.criteria : Satisfies(r, criterion)
                              /\ \A condition \in o.conditions : r \in condition.rows }
                    /\ q.answer.select \subseteq q.asked.select
                    /\ q.signal = "sql_query" /\ o.columns # {} =>
                          q.answer.select \subseteq UNION o.columns

=============================================================================
