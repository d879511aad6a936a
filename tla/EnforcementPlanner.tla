------------------------- MODULE EnforcementPlanner -------------------------
(***************************************************************************)
(* How a decision becomes an enforcement plan (lib/constraints/Planner.ts) *)
(* and how a plan is executed at a signal (lib/constraints/Plan.ts), as    *)
(* pure operators.                                                         *)
(*                                                                         *)
(* A handler is what a provider offers for a constraint: a signal, a       *)
(* priority and a shape.  An entry of a plan is a handler with the tag and *)
(* the constraint it stands for; its `handler` says whose code it runs:    *)
(* that of a provider ("claimed"), the planner's failing runner ("fail"),  *)
(* or the replacement of the resource ("substitute").                      *)
(***************************************************************************)
EXTENDS Integers, Sequences, FiniteSets, SequencesExt

CONSTANTS
    Provider,      \* the registered constraint handler providers
    Constraint     \* what a decision may carry as obligation or advice

-----------------------------------------------------------------------------
(* Vocabulary.                                                             *)

Signal == { "decision", "input", "output", "error", "subscribe", "cancel",
            "complete", "termination", "mongo_query", "sql_query" }

DataCarryingSignals == { "input", "output", "error", "mongo_query", "sql_query" }

ShapeOrder == [runner |-> 0, mapper |-> 1, consumer |-> 2]

(* What a provider offers for a constraint.                                *)
Handler == [signal : Signal, priority : Int, shape : DOMAIN ShapeOrder]

SyntheticPriority == 0

(* Number.MIN_SAFE_INTEGER, below every priority the model's handlers use. *)
ResourceSubstitutionPriority == -100

Replacement == "resource"

(* The answer of a provider whose getHandlers throws.                      *)
Throws == << [signal |-> "none", priority |-> 0, shape |-> "throws"] >>

-----------------------------------------------------------------------------
(* Phase 1: the entries of one constraint.  `claims[p][c]` is the answer of *)
(* provider p to constraint c.                                             *)

ClaimHandlers(claims, p, c) == IF claims[p][c] = Throws THEN << >> ELSE claims[p][c]

Responsible(claims, c) == { p \in Provider : ClaimHandlers(claims, p, c) # << >> }

(* Deliberately wrong: a mapper of an advice is let through.               *)
IsWellFormedForAdvice(handler, tag, supported) ==
    /\ handler.signal \in supported
    /\ handler.shape # "runner" => handler.signal \in DataCarryingSignals

IsWellFormed(handler, tag, supported) ==
    /\ handler.signal \in supported
    /\ ~(handler.shape = "mapper" /\ tag = "advice")
    /\ handler.shape # "runner" => handler.signal \in DataCarryingSignals

SyntheticFailureRunner(constraint, tag) ==
    [signal |-> "decision", priority |-> SyntheticPriority, shape |-> "runner",
     tag |-> tag, constraint |-> constraint, handler |-> "fail"]

Scheduled(handler, tag, constraint) ==
    [signal |-> handler.signal, priority |-> handler.priority, shape |-> handler.shape,
     tag |-> tag, constraint |-> constraint, handler |-> "claimed"]

(* Deliberately wrong: the well-formed part of a claim is scheduled.        *)
ResolveConstraintPartly(claims, supported, constraint, tag) ==
    LET responsible == Responsible(claims, constraint)
        claim       == SelectSeq(ClaimHandlers(claims, CHOOSE p \in responsible : TRUE, constraint),
                                 LAMBDA h : IsWellFormed(h, tag, supported))
    IN  IF Cardinality(responsible) = 1
        THEN [i \in DOMAIN claim |-> Scheduled(claim[i], tag, constraint)]
        ELSE << SyntheticFailureRunner(constraint, tag) >>

(* One responsible provider, all of whose handlers are admissible, or a     *)
(* failing runner.                                                         *)
ResolveConstraint(claims, supported, constraint, tag) ==
    LET responsible == Responsible(claims, constraint)
        claim       == ClaimHandlers(claims, CHOOSE p \in responsible : TRUE, constraint)
    IN  IF /\ Cardinality(responsible) = 1
           /\ \A i \in DOMAIN claim : IsWellFormed(claim[i], tag, supported)
        THEN [i \in DOMAIN claim |-> Scheduled(claim[i], tag, constraint)]
        ELSE << SyntheticFailureRunner(constraint, tag) >>

ResourceSubstitutionEntries(supported) ==
    IF "output" \in supported
    THEN << [signal |-> "output", priority |-> ResourceSubstitutionPriority, shape |-> "mapper",
             tag |-> "obligation", constraint |-> Replacement, handler |-> "substitute"] >>
    ELSE << SyntheticFailureRunner(Replacement, "obligation") >>

-----------------------------------------------------------------------------
(* Phase 2: the schedule of one signal.  `resolved` has the entries of each *)
(* constraint of the decision, in the order the planner comes to them; a   *)
(* place is a constraint's place there and an entry's among its entries.   *)

Places(resolved) == UNION { {i} \X DOMAIN resolved[i] : i \in DOMAIN resolved }

At(resolved, p) == resolved[p[1]][p[2]]

(* Array.prototype.sort is stable: equal entries keep their order.         *)
RunsBefore(resolved, p, q) ==
    LET a == At(resolved, p)  b == At(resolved, q) IN
    \/ a.priority < b.priority
    \/ a.priority = b.priority /\ ShapeOrder[a.shape] < ShapeOrder[b.shape]
    \/ /\ a.priority = b.priority /\ a.shape = b.shape
       /\ p[1] < q[1] \/ (p[1] = q[1] /\ p[2] < q[2])

Bucket(resolved, signal) == { p \in Places(resolved) : At(resolved, p).signal = signal }

Rank(resolved, bucket, p) == Cardinality({ q \in bucket : RunsBefore(resolved, q, p) })

Sorted(resolved, bucket) ==
    [n \in 1..Cardinality(bucket) |->
        At(resolved, CHOOSE p \in bucket : Rank(resolved, bucket, p) = n - 1)]

(* In a sorted bucket the mappers of one priority are neighbours.          *)
SharesPriority(bucket, i) ==
    /\ bucket[i].shape = "mapper"
    /\ \E j \in DOMAIN bucket \ {i} :
          bucket[j].shape = "mapper" /\ bucket[j].priority = bucket[i].priority

NonCommuting(entry) ==
    [SyntheticFailureRunner(entry.constraint, "obligation")
        EXCEPT !.signal = entry.signal, !.priority = entry.priority]

ReplaceNonCommutingMappers(bucket) ==
    [i \in DOMAIN bucket |->
        IF SharesPriority(bucket, i) THEN NonCommuting(bucket[i]) ELSE bucket[i]]

ScheduleBySignal(resolved) ==
    [signal \in Signal |->
        ReplaceNonCommutingMappers(Sorted(resolved, Bucket(resolved, signal)))]

(* The plan of a decision for a PEP that raises the supported signals.     *)
Resolved(claims, decision, supported) ==
    LET Resolve(constraints, tag) ==
            [i \in DOMAIN constraints |-> ResolveConstraint(claims, supported, constraints[i], tag)]
    IN  Resolve(decision.obligations, "obligation")
        \o Resolve(decision.advice, "advice")
        \o (IF decision.resource THEN << ResourceSubstitutionEntries(supported) >> ELSE << >>)

Plan(claims, decision, supported) == ScheduleBySignal(Resolved(claims, decision, supported))

-----------------------------------------------------------------------------
(* Execution of a plan at a signal.                                        *)
(*                                                                         *)
(* A value is the trail of what made it: the raw value is << >>, and each  *)
(* mapper that returns a value appends its constraint, or Odd when the     *)
(* value has not the type its signal calls for (an array of arguments, an   *)
(* Error).  A behaviour is what the handlers of providers do at a signal,   *)
(* by position.                                                            *)

Absent == [kind |-> "absent"]
Present(value) == [kind |-> "present", value |-> value]

Odd == "odd"

Outcome(entry, behaviour) ==
    CASE entry.handler = "fail"       -> IF entry.tag = "obligation" THEN "throws" ELSE "undefined"
      [] entry.handler = "substitute" -> "returns"
      [] OTHER                        -> behaviour

Mapped(entry, outcome, value) ==
    IF entry.handler = "substitute"
    THEN << Replacement >>
    ELSE CASE outcome = "odd"     -> Append(value, Odd)
           [] outcome = "returns" -> Append(value, entry.constraint)
           [] OTHER               -> value

(* Mappers and consumers need a value, and only mappers make one.          *)
IsCalled(entry, value) == entry.shape = "runner" \/ value.kind = "present"

After(entry, outcome, value) ==
    IF entry.shape = "mapper" THEN Present(Mapped(entry, outcome, value.value)) ELSE value

(* Deliberately wrong: a failing advice denies.                            *)
ObserveStrictly(result, entry, behaviour) ==
    LET outcome == Outcome(entry, behaviour) IN
    IF ~IsCalled(entry, result.value) THEN result
    ELSE [value   |-> After(entry, outcome, result.value),
          failure |-> result.failure \/ outcome = "throws",
          called  |-> Append(result.called, [entry |-> entry, outcome |-> outcome])]

(* One turn of the loop: call the handler, keep what a mapper returns, and  *)
(* remember that an obligation threw.                                      *)
Observe(result, entry, behaviour) ==
    LET outcome == Outcome(entry, behaviour) IN
    IF ~IsCalled(entry, result.value) THEN result
    ELSE [value   |-> After(entry, outcome, result.value),
          failure |-> result.failure \/ (outcome = "throws" /\ entry.tag = "obligation"),
          called  |-> Append(result.called, [entry |-> entry, outcome |-> outcome])]

(* What a handler may do.  A runner or consumer that returns is not asked   *)
(* for a value, so "undefined" stands for all it may return.               *)
MayDo(entry) ==
    {"undefined", "throws"}
    \cup (IF entry.shape = "mapper" THEN {"returns"} ELSE {})
    \cup (IF entry.shape = "mapper" /\ entry.signal \in {"input", "error"} THEN {"odd"} ELSE {})

Behaviours(plan, signal) ==
    LET May(i) == IF plan[signal][i].handler = "claimed" THEN MayDo(plan[signal][i]) ELSE {"undefined"}
    IN  { b \in [DOMAIN plan[signal] -> UNION { May(i) : i \in DOMAIN plan[signal] }] :
              \A i \in DOMAIN b : b[i] \in May(i) }

(* The results before the loop and after each of its turns.                *)
Turns(entries, start, behaviour) ==
    LET run[i \in 0..Len(entries)] ==
            IF i = 0 THEN start ELSE Observe(run[i - 1], entries[i], behaviour[i])
    IN  run

Execute(plan, signal, value, priorFailure, behaviour) ==
    Turns(plan[signal],
          [value |-> value, failure |-> priorFailure, called |-> << >>],
          behaviour)[Len(plan[signal])]

=============================================================================
