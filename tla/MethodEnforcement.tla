------------------------- MODULE MethodEnforcement --------------------------
(***************************************************************************)
(* One call of a method under @PreEnforce or @PostEnforce                  *)
(* (lib/PreEnforceAspect.ts, lib/PostEnforceAspect.ts,                     *)
(* lib/enforcement-utils.ts, lib/SaplTransactionAdapter.ts), with the plan *)
(* that lib/constraints/Planner.ts makes of the decision.                  *)
(*                                                                         *)
(* Between its awaits the aspect runs without interruption: an action is   *)
(* what happens from the answer of the PDP, or of the method, to the next  *)
(* await.  `called` records every handler call and how it ended.           *)
(***************************************************************************)
EXTENDS EnforcementPlanner

CONSTANTS
    Answers,        \* Answers[p][c]: what provider p may answer to constraint c
    Obligations,    \* bound: lists of obligations a decision may carry
    Advice          \* bound: lists of advice a decision may carry

(* There are finitely many providers, and one answers with a list of        *)
(* handlers, or fails.                                                     *)
ASSUME AnswersAssumption ==
    /\ IsFiniteSet(Provider)
    /\ \A p \in Provider, c \in Constraint : Answers[p][c] \subseteq Seq(Handler) \cup {Throws}
    /\ Obligations \subseteq Seq(Constraint)
    /\ Advice \subseteq Seq(Constraint)

VARIABLES
    pep,            \* "pre" or "post": the decorator
    transactional,  \* is a transaction host available (isActive)?
    claims,         \* what the providers answer
    pc,             \* "decide", "method" or "done": what the aspect awaits
    decision,       \* the PDP's answer, or NoDecision
    plan,           \* its enforcement plan, or NoPlan
    args,           \* arguments the method is invoked with
    method,         \* "uncalled", "running", "value", "void" or "error"
    outcome,        \* "pending", "returned", "denied" or "failed"
    result,         \* what the caller gets: the value returned, the error thrown
    called,         \* handlers called, in order, with their outcomes
    transaction     \* "none", "open", "committed" or "rolledBack"

config == << pep, transactional, claims >>
vars == << config, pc, decision, plan, args, method, outcome, result, called, transaction >>

NoDecision == [verdict |-> "none"]
NoPlan == << >>
Raw == << >>

PreSignals  == {"decision", "input", "output", "error"}
PostSignals == {"decision", "output", "error"}
DenySignals == {"decision"}

Decision == [verdict : {"PERMIT", "DENY", "INDETERMINATE"},
             obligations : Obligations, advice : Advice, resource : BOOLEAN]

Init ==
    /\ pep \in {"pre", "post"}
    /\ transactional \in BOOLEAN
    /\ claims \in [Provider -> [Constraint -> UNION { Answers[p][c] : p \in Provider, c \in Constraint }]]
    /\ \A p \in Provider, c \in Constraint : claims[p][c] \in Answers[p][c]
    /\ pc = IF pep = "pre" THEN "decide" ELSE "method"
    /\ decision = NoDecision
    /\ plan = NoPlan
    /\ args = Raw
    /\ method = IF pep = "pre" THEN "uncalled" ELSE "running"
    /\ outcome = "pending"
    /\ result = Absent
    /\ called = << >>
    /\ transaction = IF pep = "post" /\ transactional THEN "open" ELSE "none"

-----------------------------------------------------------------------------
(* Ending the call.                                                        *)

(* Deliberately wrong: only an error of the method rolls back.             *)
TransactionAfterMethod(end) ==
    IF transaction # "open" THEN transaction
    ELSE IF end = "failed" THEN "rolledBack" ELSE "committed"

(* The transaction host commits if the operation it wraps resolves.        *)
TransactionAfter(end) ==
    IF transaction # "open" THEN transaction
    ELSE IF end = "returned" THEN "committed" ELSE "rolledBack"

End(end, value) ==
    /\ pc' = "done"
    /\ outcome' = end
    /\ result' = value
    /\ transaction' = TransactionAfter(end)

(* Deliberately wrong: no plan for a denial.                               *)
HandleDenyUnplanned(d) ==
    /\ UNCHANGED << plan, called >>
    /\ End("denied", Absent)

(* Any verdict but PERMIT: decision-scoped handlers run, then access is     *)
(* denied whatever they did.                                               *)
HandleDeny(d) ==
    /\ plan' = Plan(claims, d, DenySignals)
    /\ \E b \in Behaviours(plan', "decision") :
          called' = called \o Execute(plan', "decision", Present(Raw), FALSE, b).called
    /\ End("denied", Absent)

-----------------------------------------------------------------------------
(* @PreEnforce.                                                            *)

(* Deliberately wrong: the failure of the decision signal is forgotten.    *)
BeforeInvocationForgetful(p, onDecision, onInput) ==
    LET first == Execute(p, "decision", Present(Raw), FALSE, onDecision)
    IN  [Execute(p, "input", Present(Raw), FALSE, onInput)
            EXCEPT !.called = first.called \o @]

(* Deliberately wrong: denied before the input signal.                     *)
BeforeInvocationHasty(p, onDecision, onInput) ==
    LET first == Execute(p, "decision", Present(Raw), FALSE, onDecision)
    IN  IF first.failure THEN first
        ELSE [Execute(p, "input", Present(Raw), FALSE, onInput)
                EXCEPT !.called = first.called \o @]

(* Decision, then input, both unconditionally.                             *)
BeforeInvocation(p, onDecision, onInput) ==
    LET first == Execute(p, "decision", Present(Raw), FALSE, onDecision)
    IN  [Execute(p, "input", Present(Raw), first.failure, onInput)
            EXCEPT !.called = first.called \o @]

(* A value whose last mapper gave it another type is not used.             *)
Usable(value) == value = Raw \/ Last(value) # Odd

HandlePermitPre(d) ==
    /\ plan' = Plan(claims, d, PreSignals)
    /\ \E onDecision \in Behaviours(plan', "decision"), onInput \in Behaviours(plan', "input") :
          LET before == BeforeInvocation(plan', onDecision, onInput) IN
          /\ called' = called \o before.called
          /\ IF before.failure
             THEN End("denied", Absent) /\ UNCHANGED << args, method >>
             ELSE /\ args' = IF Usable(before.value.value) THEN before.value.value ELSE Raw
                  /\ method' = "running"
                  /\ pc' = "method"
                  /\ transaction' = IF transactional THEN "open" ELSE "none"
                  /\ UNCHANGED << outcome, result >>

PreDecide ==
    /\ pep = "pre" /\ pc = "decide"
    /\ \E d \in Decision :
          /\ decision' = d
          /\ IF d.verdict = "PERMIT"
             THEN HandlePermitPre(d)
             ELSE HandleDeny(d) /\ UNCHANGED << args, method >>
    /\ UNCHANGED config

(* A void return raises the output signal without a value.                 *)
ApplyOutput(value) ==
    \E b \in Behaviours(plan, "output") :
        LET output == Execute(plan, "output", value, FALSE, b) IN
        /\ called' = called \o output.called
        /\ IF output.failure THEN End("denied", Absent) ELSE End("returned", output.value)

PreReturns ==
    /\ pep = "pre" /\ pc = "method"
    /\ \/ method' = "value" /\ ApplyOutput(Present(Raw))
       \/ method' = "void"  /\ ApplyOutput(Absent)
    /\ UNCHANGED << config, decision, plan, args >>

(* What the caller gets to see of an error that the error signal handled.  *)
ErrorShown(failure, value) ==
    IF failure THEN Absent ELSE IF Usable(value) THEN Present(value) ELSE Present(Raw)

PreThrows ==
    /\ pep = "pre" /\ pc = "method"
    /\ method' = "error"
    /\ \E b \in Behaviours(plan, "error") :
          LET error == Execute(plan, "error", Present(Raw), FALSE, b) IN
          /\ called' = called \o error.called
          /\ End(IF error.failure THEN "denied" ELSE "failed",
                 ErrorShown(error.failure, error.value.value))
    /\ UNCHANGED << config, decision, plan, args >>

-----------------------------------------------------------------------------
(* @PostEnforce.                                                           *)

PostMethodReturns ==
    /\ pep = "post" /\ pc = "method"
    /\ method' \in {"value", "void"}
    /\ pc' = "decide"
    /\ UNCHANGED << config, decision, plan, args, outcome, result, called, transaction >>

(* An error of the method passes: no decision was asked for yet.           *)
PostMethodThrows ==
    /\ pep = "post" /\ pc = "method"
    /\ method' = "error"
    /\ End("failed", Present(Raw))
    /\ UNCHANGED << config, decision, plan, args, called >>

(* The output signal carries the method's result, undefined or not.        *)
HandlePermitPost(d) ==
    /\ plan' = Plan(claims, d, PostSignals)
    /\ \E onDecision \in Behaviours(plan', "decision"), onOutput \in Behaviours(plan', "output") :
          LET first  == Execute(plan', "decision", Present(Raw), FALSE, onDecision)
              output == Execute(plan', "output", Present(Raw), FALSE, onOutput)
          IN  IF first.failure
              THEN called' = called \o first.called /\ End("denied", Absent)
              ELSE /\ called' = called \o first.called \o output.called
                   /\ IF output.failure THEN End("denied", Absent)
                                        ELSE End("returned", output.value)

PostDecide ==
    /\ pep = "post" /\ pc = "decide"
    /\ \E d \in Decision :
          /\ decision' = d
          /\ IF d.verdict = "PERMIT" THEN HandlePermitPost(d) ELSE HandleDeny(d)
    /\ UNCHANGED << config, args, method >>

Next ==
    \/ PreDecide \/ PreReturns \/ PreThrows
    \/ PostMethodReturns \/ PostMethodThrows \/ PostDecide

Spec == Init /\ [][Next]_vars

-----------------------------------------------------------------------------
(* Properties.                                                             *)

TypeOK ==
    /\ pc \in {"decide", "method", "done"}
    /\ decision \in Decision \cup {NoDecision}
    /\ plan = NoPlan <=> decision = NoDecision
    /\ args \in Seq(Constraint \cup {Odd})
    /\ method \in {"uncalled", "running", "value", "void", "error"}
    /\ outcome \in {"pending", "returned", "denied", "failed"}
    /\ pc = "done" <=> outcome # "pending"
    /\ result.kind = "present" =>
          result.value \in Seq(Constraint \cup {Replacement, Odd})
    /\ transaction \in {"none", "open", "committed", "rolledBack"}

(* What the decision demands, taken from the providers' answers and not     *)
(* from the plan.                                                          *)
Supported == IF pep = "pre" THEN PreSignals ELSE PostSignals

Admissible(c) ==
    \E p \in Provider :
       /\ { q \in Provider : claims[q][c] \notin { << >>, Throws } } = {p}
       /\ \A h \in Range(claims[p][c]) :
             /\ h.signal \in Supported
             /\ h.signal \in DataCarryingSignals \/ h.shape = "runner"

Demanded(c) ==
    UNION { Range(claims[p][c]) : p \in { q \in Provider : claims[q][c] # Throws } }

Called(h, c, outcomes) ==
    \E k \in DOMAIN called :
        /\ called[k].entry.handler = "claimed"
        /\ called[k].entry.constraint = c
        /\ called[k].entry.signal = h.signal
        /\ called[k].entry.priority = h.priority
        /\ called[k].entry.shape = h.shape
        /\ called[k].outcome \in outcomes

(* All that obligation c demands at these signals was called and did not    *)
(* throw; a mapper or consumer of the output of a void method has nothing  *)
(* to work on (the comment at PreEnforceAspect.ts:108).                    *)
Discharged(c, signals) ==
    /\ Admissible(c)
    /\ \A h \in Demanded(c) :
          h.signal \in signals =>
              \/ Called(h, c, {"returns", "odd", "undefined"})
              \/ /\ pep = "pre" /\ method = "void"
                 /\ h.signal = "output" /\ h.shape # "runner"

AllDischarged(signals) == \A c \in Range(decision.obligations) : Discharged(c, signals)

(* The protected method runs only on a PERMIT, all of whose obligations at  *)
(* the decision and input signals were carried out before                  *)
(* (PreEnforceAspect.handlePermit).                                        *)
MethodRunsOnlyIfPermitted ==
    pep = "pre" /\ method # "uncalled" =>
        decision.verdict = "PERMIT" /\ AllDischarged({"decision", "input"})

(* The caller gets a value only on a PERMIT whose every obligation, at      *)
(* every signal of this call, was carried out; so it is with the error of  *)
(* a method that was permitted to run (applyOutput, handlePermit).         *)
ReturnsOnlyIfDischarged ==
    /\ outcome = "returned" =>
          decision.verdict = "PERMIT" /\ AllDischarged({"decision", "input", "output"})
    /\ pep = "pre" /\ outcome = "failed" =>
          AllDischarged({"decision", "input", "error"})

(* Access is denied for a reason: the verdict, or an obligation that could  *)
(* not be carried out.  Advice that fails is no reason.                    *)
DeniedForAReason ==
    outcome = "denied" =>
        \/ decision.verdict # "PERMIT"
        \/ \E c \in Range(decision.obligations) :
              \/ ~Admissible(c)
              \/ \E h \in Demanded(c) : Called(h, c, {"throws"})
              \/ \E h \in Demanded(c) : h.shape = "mapper" /\ ~Called(h, c, MayDo(h))

(* Best effort: once a signal is raised every handler planned for it is     *)
(* called, whichever failed before, and a PERMIT raises decision and input  *)
(* both before it can be denied (the comments of Plan.execute and          *)
(* PreEnforceAspect.handlePermit).  They run by priority, runners before    *)
(* mappers before consumers, and no two mappers of one priority both make  *)
(* the value: the order of registration is never visible.                  *)
CalledAt(signal) == Cardinality({ k \in DOMAIN called : called[k].entry.signal = signal })

InOrder(a, b) ==
    a.signal = b.signal =>
        \/ a.priority < b.priority
        \/ /\ a.priority = b.priority
           /\ ShapeOrder[a.shape] <= ShapeOrder[b.shape]
           /\ ~(a.shape = "mapper" /\ b.shape = "mapper")

BestEffort ==
    /\ \A k, l \in DOMAIN called : k < l => InOrder(called[k].entry, called[l].entry)
    /\ decision # NoDecision =>
        /\ CalledAt("decision") = Len(plan["decision"])
        /\ pep = "pre" /\ decision.verdict = "PERMIT" =>
              /\ CalledAt("input") = Len(plan["input"])
              /\ method = "value" => CalledAt("output") = Len(plan["output"])
              /\ method = "error" => CalledAt("error") = Len(plan["error"])

(* What the method is given, and what the caller gets, is what the mappers  *)
(* of the obligations, never of the advice, made of it, each once and in   *)
(* the order of their priorities, unless the last of them made something   *)
(* that is not a list of arguments or not an error, and then it is what it *)
(* was before any of them.                                                 *)
Mappers(signal) ==
    { k \in DOMAIN called :
        /\ called[k].entry.signal = signal
        /\ called[k].entry.shape = "mapper"
        /\ called[k].outcome \in {"returns", "odd"} }

MappedBy(value, signal) ==
    LET mappers == Mappers(signal)
        last    == CHOOSE k \in mappers : \A l \in mappers : l <= k
    IN  IF mappers # {} /\ called[last].outcome = "odd"
        THEN value = Raw
        ELSE /\ Len(value) = Cardinality(mappers)
             /\ \A k \in mappers : called[k].entry.tag = "obligation"
             /\ \E f \in [DOMAIN value -> mappers] :
                   \A i \in DOMAIN value :
                      /\ value[i] \in {called[f[i]].entry.constraint, Odd}
                      /\ \A j \in 1..(i - 1) :
                            called[f[j]].entry.priority < called[f[i]].entry.priority

MappersApply ==
    /\ pep = "pre" /\ method # "uncalled" => MappedBy(args, "input")
    /\ outcome = "returned" /\ result.kind = "present" => MappedBy(result.value, "output")
    /\ pep = "pre" /\ outcome = "failed" => MappedBy(result.value, "error")

(* With a transaction host, the effects of a method stay only if the caller *)
(* got its value: denial after the method ran undoes them (README.md:32,   *)
(* "obligation failures after a database write trigger a rollback").       *)
EffectsOnlyIfReturned ==
    /\ transaction = "committed" => outcome = "returned"
    /\ transactional /\ pc = "done" /\ method # "uncalled" =>
          transaction \in {"committed", "rolledBack"}

=============================================================================
