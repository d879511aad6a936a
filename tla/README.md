# A TLA+ verification project for sapl-nestjs

sapl-nestjs is a policy enforcement point (PEP) for NestJS. It asks a policy
decision point (PDP) whether a method may run or a stream may flow, and
enforces the answer: the verdict, the obligations and advice that come with it,
and a replacement of the resource. This directory holds TLA+ models of
`src/lib`, the TLC configurations that check them on small instances, and
proofs for every value of the constants.

Paths below are relative to `src/lib`. `PROJECT.json` says for every definition
which lines it models.

Contents: [the system](#the-system), [modules](#modules), [runs](#runs),
[bounds](#bounds), [fairness](#fairness), [proofs](#proofs),
[disagreements found](#disagreements-found), [not modelled](#not-modelled),
[plan](#plan).

## The system

| part | state it keeps | operations | talks to |
|---|---|---|---|
| Mealy machine of the streaming PEP, `streaming/MealyMachine.ts` | none: a pure transition function over Pending, Permitting, Suspended, Terminated | `step` and a handler per event | called by the runner |
| Streaming pipeline runner, `streaming/StreamingPipeline.ts` | per subscription: machine state, `terminated`, the subscriptions to the PDP and to the protected source (RAP) | callbacks for decisions, items, errors, completion, unsubscription | PDP stream, RAP, subscriber: Observables with reentrant callbacks |
| Stream enforcement aspect, `streaming/StreamEnforceAspect.ts` | per call: `currentPlan`, `firstPlanApplied` | plans each decision, fires the lifecycle signals | planner, runner |
| Planner and plan, `constraints/Planner.ts`, `Plan.ts` | the registered providers | `plan`, `execute` | providers written by the application |
| Method aspects, `PreEnforceAspect.ts`, `PostEnforceAspect.ts` | per call only | decide, plan, invoke, map, deny, with or without a transaction | PDP client, planner, transaction host, active plan |
| Request scope and data-layer shims, `constraints/ActivePlan.ts`, `ShimSignalRegistry.ts`, `mongoose/`, `prisma/` | the active plan in continuation-local storage; the process-wide set of shim signals | set and read the plan, register and withdraw a shim, discharge a query | aspects, database client |
| HTTP PDP client, `transport/HttpPdpClient.ts` | per stream: timers, line buffer, abort controller; per Observable: `consecutiveFailures` | streaming and one-shot decisions, reconnect with backoff | PDP over `fetch`, token provider |
| OAuth2 token provider, `transport/auth/OAuth2TokenProvider.ts` | `cached`, `pendingRefresh`, `configurationPromise` | get, invalidate | issuer, both clients |
| RSocket PDP client, `transport/RsocketPdpClient.ts` | `socketPromise`; per attempt: `cancelled`, `firstDecisionSeen`, a timer | streaming and one-shot decisions, reconnect, close | PDP over one shared socket |
| Content filter, `constraints/providers/ContentFilter*.ts` | per constraint: its actions and replacement objects; per element: the copy being edited | collect places, delete, replace, blacken, keep or drop an element | planner (an output mapper), caller |
| Wire codec, `transport/codec/` | none | decode decisions, encode subscriptions | RSocket client |
| the rest: subscription builder, boundary-signal helpers, decorators and module wiring | none or set once at start | pure functions | - |

A decision travels PDP → client → aspect → planner → plan, and for streams on to
the runner and its machine; a query made inside of a method travels shim →
active plan → handlers. Everything runs on one JavaScript thread, so a callback
is atomic; what interleaves are callbacks, timers, settled promises and the two
remote ends. What makes the code hard is therefore

- **reentrancy**: a subscriber that unsubscribes from within `next`, a source
  that emits before its `subscribe()` returns;
- **state across an `await`**: items whose enforcement settles under another
  decision, attempts cancelled while they wait for metadata, tokens invalidated
  while requests that carry them are under way;
- **timers against answers**: connect, first-decision and inactivity timers, the
  abort of an attempt and the handlers that look at it;
- **caches of promises**: sockets, discoveries and refreshes that were rejected
  or have died;
- **partial failure**: one of several handlers throws, one provider of several
  answers badly, one frame of several cannot be decoded, one place of several
  cannot be redacted;
- **shared containers**: the objects of a constraint end up in what methods
  return, and later actions reach into them;
- **ambient state**: a plan that is active for a request, not for a call.

What makes the parts correct, in one sentence each: an item is delivered only
under the decision in force, after its plan has enforced it; a stream that has
ended holds nothing; every obligation is carried out in full or access is
denied; a method runs, returns and commits only when the decision and its
obligations say so; a query of a method is discharged under that method's own
plan and reaches exactly the rows it leaves; a filter changes the places its
paths designate, in one element, and denies when it cannot; a subscriber of a PDP stream never holds a decision the PDP has not made
on the connection being read; every wait ends.

`PROJECT.json` lists under `hazards` the places where these could go wrong,
with the properties aimed at them.

## Modules

```
MealyMachine ──┬── MealyTable ── StreamLifecycle         StreamLifecycle_proof
               └── StreamingPipeline ── StreamContract   StreamingPipeline_proof
EnforcementPlanner ── MethodEnforcement ── MCMethodEnforcement
                                                         MethodEnforcement_proof
ContentFilter ── ContentReference ── MCContentFilter     ContentFilter_proof
RequestScope ── MCRequestScope                           RequestScope_proof
PdpFeed ──┬── HttpPdpClient                              HttpPdpClient_proof
          └── RsocketPdpClient ── MCRsocketPdpClient     RsocketPdpClient_proof
SnapshotText ── PdpRequests ── MCPdpRequests             PdpRequests_proof
```

**MealyMachine** is `step()` with its handlers as one operator, `Step(state,
event)`, that yields a new state and the emissions. **MealyTable** holds the 40
rows of `test/streaming/mealy-table.csv`, the oracle that the repository's own
tests use, and says when a step agrees with them (`FollowsRows`).

**StreamingPipeline** is the runner. Its variables are the runner's fields
(`state`, `terminated`, `rapSubscription`, `pdpSubscription`), the source it is
attached to, the items whose enforcement is pending, and the feed of the
subscriber. One callback is one action, with two exceptions: `ProcessEvent` has
a second disjunct in which the subscriber unsubscribes from within `next`, so
that `dispose()` runs in the middle; and `subscribe()` of the source and its
return are two steps, with the stack of calls that have not returned in
`subscribing`. The planner appears as the number of the decision (the plan's
name) and a flag that tells whether a decision-scoped obligation failed.

**StreamContract** is what the subscriber is promised and says nothing of
machines, plans or subscriptions: a decision puts the stream on a side of the
boundary, items are released on the granted side only and in order, a signal
marks a change of sides, the end is final. `StreamingPipeline` implements it
(`ImplementsContract`).

**StreamLifecycle** is the aspect around the runner: the plan and the flag that
belong to the *call*, and the signals subscribe, error, complete, cancel and
termination that are discharged against them, for several subscriptions to the
Observable of one call. A stream that ends by itself ends in two steps, as in the
code: `Tap` reads the plan for the end signal, then the subscriber's own callback
runs, then `Finalize` reads the plan again for the termination signal. Between
them other subscriptions of the call may get decisions, and this one may get a
last one that its subscriber sends from the callback (`LateDecision`: the runner is
not yet `terminated`). The runner is reduced to its transition function there,
which `FollowsTable` holds against the table in every state a stream comes to.

**EnforcementPlanner** has `plan()` and `execute()` as pure operators. A handler
is a signal, a priority and a shape; an entry adds the tag and constraint it
stands for; a value is the trail of the mappers that made it, so that "which
mappers ran, in which order" is a property of the value. What a provider
answers, and whether a handler returns, returns nothing, throws or returns a
value of the wrong type, is nondeterministic. The stable sort of a signal's
entries is given by rank: the entry that comes n-th is the one before which
n - 1 others run (`RunsBefore`, by priority, shape and place), which says what
`Array.prototype.sort` yields and not how. The loop of `execute` is the function
`Turns` from the number of turns to the result so far. **MethodEnforcement** is a call
under `@PreEnforce` or `@PostEnforce`: the PDP's decision, the plan made from the
answers of two providers, the signals, the method (a value, void or an error)
and the transaction host, which runs the method in a transaction that an
exception rolls back. Its properties are stated over the providers' answers and
over what was called, not over the planner's intermediate results.

**ContentFilter** works on a heap, because the code does: a place is a container
and a key, an element is copied into containers of its own before its first
action, and a replacement object of the constraint is put into place by
reference. A path is a sequence of selectors (child, index, wildcard, recursive
descent), or one that `parsePath` rejects; a text is a sequence of characters; a
regular expression is the set of texts it matches, and whether its author's
pattern is accepted is data. Each action of a constraint on an element is a step
(`Act`): it finds all places first and then changes one after the other, and the
first place that cannot be changed makes the filter deny. The recursive descent
is the function `below` from the number of calls of `collectRecursive` that may
still be nested to the places found: with none left the call stack is exhausted
and the filter denies, which is what happens when a replacement was put into
itself. **ContentReference** is what the filter is held against (`Redacted`): it
knows no containers and no order of places, and rebuilds a tree from which every
designated place of a deletion is gone. Where a path deletes several elements of
one array the code does something else; `ActsAsDesignated` sets that case apart, and
`DeletesEveryPlace` is the statement with it.

**RequestScope** is one request: enforced calls that start and finish (nested or
overlapping if `Overlap`), shims that register and leave, and queries made by a
call or outside of any. An obligation has criteria (a leaf, or a group joined by
"and" or "or"), conditions in the language of the store and a set of columns; a
filter is the set of rows it selects, so that "narrowed" is a statement about
rows. The two shims differ as they do in the code: what they do with a pipeline
or a unique key, which conditions they take, that only one narrows columns.
`unlisted` are operations of the database client that a shim does not know. Work
outside of a request (`clsActive` is false) has nowhere to keep a plan; the code
lets its queries pass on purpose, and so does the model.

**PdpFeed** is the promise of `PdpClient.ts` to a streaming subscriber: what it was
last told is what the PDP said on the connection that is up, and INDETERMINATE
from the loss of a connection until a new one speaks. **HttpPdpClient** is one
streaming call over server-sent events, with time in ticks, and implements it. A last line
without its newline is delivered in one step (`TrailingDecision`) and withdrawn in
the next (`EndReported`), since the subscriber's callback runs in between. A
snapshot names as many ids of the call as the PDP likes, none among them; what it
says of other ids is passed on as well, and not followed.
**RsocketPdpClient** has streaming calls and one-shot requests that share one
cached socket, and implements it per stream; the request that a cancelled
attempt still makes, and the count of attempts that only chooses a log level and
a delay, are left out. Its frames carry decisions as they are on the wire, which
`NormaliseDecision` decodes as the codec does. **PdpRequests** has concurrent
one-shot HTTP requests and the token provider they share, with the retry after
a refusal. A request that has its token is `held` until `Send` resumes it, for the
code awaits `getAccessToken`: others may run in between and have that very token
refused. In the same way a refresh that has cached its token is `settling` until
the callbacks of its promise run. `barred` is a history: the tokens that were
refused when a request asked for its own. **SnapshotText** is the scan that looks for a repeated subscription id
in the text of a snapshot before it is parsed: the text is a sequence of tokens
with nested objects and arrays, the scan keeps its place by counting brackets,
one pass of its loop is `ReadKey`, `TopLevelKeys` the function from the number of
passes to what was read, and `Parsed` is what `JSON.parse` makes of the same members.

Definitions with `Mutant` or `Deliberately wrong` in their comment are used by no
module; each changes the definition below it the way a plausible slip would, and
shows that the property named with it in `PROJECT.json` notices.

## Runs

Passing runs:

| run | module | shows |
|---|---|---|
| pipeline_pause | StreamingPipeline | pause flag and signals on, synchronous items: no leaked subscription, the source attached exactly during grants, items enforced by the plan in force, the contract |
| pipeline_open | StreamingPipeline | source kept through suspensions, late promises, sources that emit during `subscribe()`: the latest decision in force, signals bracket the data, no item released without a grant |
| method_calls | MCMethodEnforcement | each obligation in full or a denial; advice never denies; invoke, return, deny, map and commit exactly when decision and obligations say so |
| content_filter | MCContentFilter | an action changes the places its path designates and nothing else (several deletions in one array apart); elements do not affect each other; what cannot be read, parsed or applied denies |
| scope_sequential | MCRequestScope | calls one after the other: each query reaches exactly the rows and columns its own plan leaves, whatever shims do |
| http_stream | HttpPdpClient | no stale decision, backoff counts the current outage, half-open connections are noticed, the feed contract |
| requests | MCPdpRequests | who asks for a token after a refusal is not sent with the refused one, every request settles, a snapshot is believed unless it repeats an id |
| rsocket | MCRsocketPdpClient | two streams of two ids and a one-shot call on one socket: no stale decision, no socket lost, first decision or outage, one-shot calls settle, the feed contract |
| stream_lifecycle | StreamLifecycle | the obligations of the end are discharged once, in order, against plans new enough, however the stream ends and whatever decision comes between the two signals; the subscribe obligation gates the first decision; the transition table |

Runs that end in a counterexample to a statement of the repository, quoted in
`PROJECT.json` (see [below](#disagreements-found)):

| run | module | shows |
|---|---|---|
| content_deletes | MCContentFilter | a path deletes some elements of an array and leaves others it designates |
| scope_nested | MCRequestScope | calls that nest or overlap: a query escapes the obligations of its own method |
| http_stall | HttpPdpClient | an attempt that runs into the connect timer ends without report or reconnect |

Deadlock checking is off where the system ends: a pipeline whose subscriber has
gone, a value that has been filtered, a call that has returned, streams that are
all over. In the transport modules and in `RequestScope` something can always
happen, and it is on.

## Bounds

- **StreamingPipeline**: 5 decisions, 5 source subscriptions, 2 items each; with
  promises and reentrant sources, where the calls that have not returned and the
  items that have not settled multiply the states, 3 decisions and 2 source
  subscriptions. The machine has 4 states; with 5 decisions every pair of
  successive transitions occurs with items before, between and after, and a
  source can be opened, released and reopened twice; with 3, an item can settle
  under a suspension and under the grant after it. The proofs remove these
  bounds.
- **MethodEnforcement**: two providers, two constraints, up to two obligations
  (the same one twice too) and one advice, with the answers listed in
  `MCMethodEnforcement`: at each signal mappers that collide or do not, handlers
  in the wrong order, inadmissible ones, failures. Conflicts are between two
  claims or two mappers; a third adds none. The proofs remove these bounds: any
  providers, any constraints, handlers of any integer priority, any lists of
  obligations and advice.
- **ContentFilter**: values with names that repeat at different depths, objects in
  arrays in objects, the same container twice; every kind of path with every kind
  of action, one action before another, up to two conditions. Texts have up to
  three characters, and `MaxBlacken` is 4, so that the limit is met. `StackDepth`
  is 8: containers nest to 4 at most, so only a container that contains itself
  meets it. The proofs remove these bounds, and hold for every depth of the stack.
- **RequestScope**: two calls, three rows, two columns, obligations of every form
  (groups nested once, malformed ones, two at once). The proof removes these
  bounds.
- **HttpPdpClient**: 1 tick for the short timer and 2 for the long one keep
  their order; a buffer of 2 chunks has a full and a partial state; failures are
  counted to 2, enough to tell "none", "first" and "later". The proofs hold for
  every set of ids and every limit.
- **PdpRequests**: two callers, two tokens (one refused, one fresh), snapshots of
  up to three members about two ids, with the repetition first, last, or spelled
  otherwise. The proofs remove the bounds on callers, tokens, ids and members.
- **RsocketPdpClient**: two sockets (the old and the new one), two streams with
  two ids and a one-shot caller. The proofs hold for any number of each.
- **StreamLifecycle**: four decisions, two subscriptions. The proofs remove these
  bounds.

`MaxDecisions`, `MaxRaps`, `MaxItems`, `MaxCalls`, `MaxTokens`, `Sockets`,
`MaxPlans`, `MaxSubscriptions` limit the environment by guards; `FailureCap`
saturates a counter of the program, and `StackDepth` stands for the limit the
JavaScript engine sets.

## Fairness

Only the transport modules have fairness, and only for what the client itself
guarantees: its timers fire (`Tick`, `ConnectTimeout`, `LivenessExpires`,
`TimerFires`, `FirstDecisionTimeout`, `RequestTimeout`), its backoff elapses, the
callbacks of a promise that has settled run (`RefreshSettles`, `Send`, and the steps
of an attempt whose socket has settled), a call that has begun goes on
(`EndReported`), and a fetch that was aborted is rejected. The PDP and the
network owe nothing: they may stall in every state. The issuer of tokens
answers in the end, because openid-client (external) limits its own requests.
A fair clock never runs past a timer that is due: `Tick` is disabled while one
is. All fairness is weak: no action of the client has to win against another
that disables it again and again.

The streaming pipeline and the aspects have none: they react, and owe nothing
to an environment that is silent.

## Proofs

TLAPS proves, for all sets of plans and values, all bounds and all settings of
the flags that a statement names:

| theorem | module | assumes | says |
|---|---|---|---|
| TypeCorrect | StreamingPipeline_proof | - | `TypeOK` |
| DecisionAlwaysInForce | StreamingPipeline_proof | - | the machine is in the state the latest decision calls for |
| OnlyGrantedItems | StreamingPipeline_proof | - | no item is handed over unless a grant is in force |
| FeedTellsSides | StreamingPipeline_proof | - | signals bracket the items, alternate, and name the access in force |
| ItemsEnforcedByPlanInForce | StreamingPipeline_proof | items are enforced synchronously | each item went through the plan of the decision in force |
| SubscriptionsHeld | StreamingPipeline_proof | sources do not emit during `subscribe()` | an ended stream holds no subscription, and no source is open that is not held |
| SourceFollowsAccess | StreamingPipeline_proof | sources do not emit during `subscribe()` | the source is attached exactly when the state calls for it |
| ContractImplemented | StreamingPipeline_proof | both | every behaviour is one of `StreamContract` |
| TypeCorrect | StreamLifecycle_proof | - | `TypeOK`: the runner and the signals only name plans of this call |
| EndEnforced | StreamLifecycle_proof | - | each end fires its signal and that of termination, once, in order, against plans no older than the decision it was under |
| FirstDecisionGates | StreamLifecycle_proof | - | the first decision lets nothing through unless the subscribe obligations were discharged |
| TableFollowed | StreamLifecycle_proof | - | in every state a stream comes to, `step()` is the table |
| TypeCorrect | MethodEnforcement_proof | - | `TypeOK`: a plan exactly with a decision, an outcome exactly at the end |
| MethodsRunIfPermitted | MethodEnforcement_proof | - | a method is invoked only on a PERMIT whose obligations were carried out so far |
| ReturnsAreDischarged | MethodEnforcement_proof | - | a value or a permitted method's error is passed on only when every obligation was carried out |
| DenialsAreJustified | MethodEnforcement_proof | - | access is denied for the verdict or an obligation, never for advice |
| EveryHandlerIsTried | MethodEnforcement_proof | - | what is planned for a raised signal is called, in order, whatever failed before |
| EffectsFollowOutcome | MethodEnforcement_proof | - | a transaction commits only if the caller got its value |
| MappersMake | MethodEnforcement_proof | no priority below the replacement's | arguments, result and error are what the obligations' mappers made of them, each once and in order |
| TypeCorrect | RequestScope_proof | - | `TypeOK`, with overlapping methods too |
| SequentialQueriesAreNarrowed | RequestScope_proof | methods do not overlap | a query of a method reaches exactly the rows its own obligations leave |
| TypeCorrect | HttpPdpClient_proof | - | `TypeOK` |
| NoDecisionIsStale | HttpPdpClient_proof | - | the subscriber holds the PDP's last word on the connection it hears, or INDETERMINATE |
| BackoffIsOfThisOutage | HttpPdpClient_proof | - | the count behind the delay is of the outage at hand |
| FeedImplemented | HttpPdpClient_proof | - | every behaviour is one of `PdpFeed` |
| TypeCorrect | RsocketPdpClient_proof | - | `TypeOK` |
| NoDecisionIsStale | RsocketPdpClient_proof | - | as for HTTP, for each stream of the shared socket |
| EverySocketIsHeld | RsocketPdpClient_proof | - | an open socket is the cached one or one `close()` waits for |
| FeedImplemented | RsocketPdpClient_proof | there is a stream | every behaviour of a stream is one of `PdpFeed` |
| TypeCorrect | PdpRequests_proof | - | `TypeOK`: answers, tokens and bodies of requests |
| RefusedTokensAreNotReused | PdpRequests_proof | - | no request is sent with a token whose refusal had been handled when it asked for one |
| SnapshotsAreUnambiguous | PdpRequests_proof | - | a snapshot is answered with nothing exactly if it names a subscription twice in one spelling (or nothing at all), else as it says |
| FilterSound | ContentFilter_proof | - | the invariant of a filtering: where it is, who owns which container, what was decided of which element |
| FilterFailsClosed | ContentFilter_proof | - | an element is returned, kept or dropped only on conditions that could be read up to the decisive one, and changed only by actions whose paths all parse |
| FilterIsolates | ContentFilter_proof | - | filtering an element changes its own copy and, once one was put there, a replacement of the constraint; nothing else of another element or of the method's value |
| FilterActsAtPlaces | ContentFilter_proof | - | an action that ends has deleted, replaced or blackened every place its path resolves to, and left every other place of every container as it was |

The modules' own `ASSUME`s on constants are types: bounds are numbers, sets of
providers are finite, a provider answers with a list of handlers or throws; a
snapshot is a sequence of members with ids of the call and decisions that are
valid or not; the containers of a value refer to each other, as do those of a
constraint's replacements, and paths, conditions and actions are sequences
(`ValuesAssumption`, `ConstraintsAssumption`).

The assumptions on items, sources and methods are not technical: without the first, an item enforced under
one plan may be released under its successor; without the second, a source that
emits during `subscribe()` is subscribed to again, and the handle of the earlier
subscription is lost; without the third, `scope_nested` is the counterexample.

**The argument.** `StepCases` and `StepType` split the `Step` of the machine into
its cases and type them (both proof modules of the streams have them).
`StreamingPipeline_proof` then says once what a processed event does
to a running stream (`Effects`): it changes the state silently, delivers one
element and perhaps loses the subscriber, or ends the stream; everything after
that works with these outcomes and not with the machine. `DecisionInForce`
alone is not inductive: a step reads `terminated`, the state and the
subscriber's status, and they must agree before it can be said which outcome
applies. The invariant is

    IInv == TypeOK /\ Lifecycle /\ InForce

where `Lifecycle` ties the three signs of an ended stream together and `InForce`
ties the state of a running one to the latest decision and its plan's number.
`Held` adds which source subscription the runner holds; it needs `~SyncRap`, as
otherwise the handle is null while the source already emits. The refinement uses
`CInv == IInv /\ Held /\ NothingInFlight /\ Ordered`: nothing waits for a promise,
and the items of the feed are ordered by source subscription and place, which
gives the contract's `InOrder`. `Simulation` then has one step per action.
For `SignalsBracketData`, `Told` says that the last signal of a running stream
names the access in force, and `AllBracketed` that every element of the feed has
the signal it needs before it; an element that is appended changes neither what
governs the earlier ones nor their sides.

For the lifecycle signals, `EndIsEnforced` needs to know that a stream whose
source was opened has a plan (`HasPlan`), that no plan a stream was under or a
signal fired against is newer than the newest (`NoNewerPlan`, which makes the
second read as new as the first), and that what the subscriber has seen tells
where the end is (`EndsOnceSeen`). `TapKeepsInv` serves each end of the stream by
itself, `FinalizeInv` and `UnsubscribeInv` are the other two. The agreement with the table is a lemma about a single step
(`StepAgrees`, for every set of plans and values), which `TypeOK` carries to every
state a stream comes to. `FirstDecisionGated` needs to know that
nothing comes through before the first decision (`NothingBeforeTheFirst`), that a
stream still open has a machine that runs, and that a first decision that failed
the gate has ended the stream it came for.

For a call of a method, the properties speak of the providers' answers and of
the handlers that were called; between them lie the planner's sort and the loop.
`SetInduction` (over subsets of the turns) replaces an induction over the loop:
`ExecuteIs` says of its result that the value is typed, that each entry was
called once and in order, and that the failure flag is set exactly when an
obligation threw. Of the sort, `RankIsPlace` says that the ranks are the numbers
from 0 on, each of one entry, whence `Sorted` is a bijection and in order
(`SortedIs`, `ScheduleInOrder`), also after colliding mappers were replaced
(`PlacedIs`). `ObligationPlanned` and `FailurePlanned` go from an obligation to
its entries in the plan and back: each handler it demands is an entry, or a
failing runner is; a runner that fails stands for an obligation with a reason.
The invariant `MInv` then says where the aspect is (`Stages`), that `called` is a
trace of the plan in force (`Traced`), that signals that were raised have all
their entries in it (`Counted`), and that what lies behind has passed
(`SignalsPassed`); `CallsConcat` carries each of them over a further signal.

`MappersApply` compares a value with the calls that made it. `Tracks` is the link:
an increasing map from the marks in a value's trail onto the mappers called at its
signal. A turn of the loop extends it or leaves it (`TrailGrows`, `TrailStays`),
calls at other signals shift it (`MadeBefore`, `MadeAfter`), and as it is a
bijection the trail is as long as there were mappers. The replacement of the
resource discards what earlier mappers made, so it has to be the first
(`PlanSubstitutesFirst`): the code gives it `Number.MIN_SAFE_INTEGER`, which a
provider's priority is not checked against, and with a lower one the property is
false. So the theorem assumes that there is none. (It also assumes that the mark
of a value of the wrong type is no constraint's.) `Mapping` is the invariant, kept
next to `MInv`.

For the queries of a request, `PlanOfTheRunning` says that a method that runs is
the only one and that the plan in scope is its own; `EveryQueryIsWellDischarged`
says what `Discharge` does under the plan in scope, whatever it is, and rests on
`MergeIsConjunction`: what is merged into a filter selects the rows that satisfy
every criterion and every condition. The two together are the property.

For the shared token, `RefusedTokenNotReused` is about the step that sends, and
the token was read some steps before. The invariant says that no request has
a token in its hand that was refused when it asked (`HeldNotBarred`). For the token
that is read from the cache this needs `CacheNotRefused`; for the one that a
refresh hands to those who wait, whatever the cache holds by then, it needs
`NewestNotRefused`: while a refresh settles, nobody has had its token refused. A
refusal takes its token out of the cache in the same step, and `CarriesToken` has it
that what is refused was granted. `AcquireKeepsInv` is the step that both a first
call and the retry after a refusal take.

For a stream over HTTP, `NoStaleDecision` keeps itself, given the types: whatever
ends an attempt seeds INDETERMINATE in the same step, and `TellKeepsInv` serves a
decision wherever in the stream it stands.
`SpeechClearsFailures` adds that a connection that has spoken has a count of
zero, which `BackoffReflectsOutage` needs to know of the state before a step. In
the refinement, a frame is the feed's delivery, or no step at all where it only
speaks about ids of others, and a failure is its loss (`TellIsDeliver`,
`FailIsLose`).

For RSocket the state is a function from streams to records, and a step changes
one stream and perhaps the sockets: `SocketTyped`, `StreamsTyped` and
`OneShotsTyped` are proved once per kind of step, `Untouched` says that the other
streams keep what they have, and `SilentIsFresh` that a stream on which nothing
was said, and which shows nothing better than INDETERMINATE, is not stale. `PdpFeed` has one
subscriber, so the refinement picks a stream, which must exist.

For a snapshot, `TextIs` says token by token what its text is: 16 tokens for each
member, its key first. `SkipsADecision` counts the braces of a decision, which
are balanced at its last token and at none before. So two passes of the loop
read one more key (`TwoPasses`), the keys that are read are those of the members
and none from inside a decision (`KeysAreRead`), and a text without a repeated key
is of a snapshot that names nothing twice. `LastMemberDecides` is what
`JSON.parse` then makes of it, and `EndsOfASnapshot` says that a request that was
reading one ends with it or with nothing.

For the content filter, the model's recursions (over a path, over nested
containers, over the places an action changes) are functions of numbers, and
`UpTo` replaces an induction over them: if a stage lacked a property, there would
be a first one. What they have in common is `Closed`: a set of containers that
refer to no container outside of it. What is resolved from inside a closed set
stays inside (`PathInside`), reads nothing but it (`PathSame`), and an action whose
places are inside changes nothing else. `FailsClosed` is about conditions on the
value as the method returned it, while the code reads them on the heap in which
earlier elements were changed; so the invariant needs `HeapSound` (the method's
containers are as they were) besides `Judged` (what was decided of each element
before the current one). That in turn needs `CopySound`: the copy being edited
refers to itself, and to a replacement only after an action put one there. The
latter distinction (`PutBefore`) is what `ElementsIsolated` turns on, and without
it the invariant is not inductive: an action could reach a replacement through a
copy that has none. `FilterIsolates` follows from the same invariant.
`FilterActsAtPlaces` counts the places an action has done (`Effect`,
`OneMorePlace`). A place a path finds twice is blackened twice, so what a blackened
place holds is said of those found once; an array closes up behind a deletion, so
of the slots of such an array it says nothing once a place in it is deleted.

**Only model-checked**: that the places a path resolves to are those it
designates, and an array from which one element is deleted (`ActsAsDesignated`: its
reference is recursive); liveness (the properties with `~>`), which is out of the prover's
reach.

## Disagreements found

Three statements of the repository have a run that ends in a counterexample:

- `content_deletes`: a path with a wildcard that deletes the elements of an array
  leaves every other one, since each deletion moves up those behind it
  (`ContentFilter.ts:173`), and nothing is denied;
  `ContentFilterEnforcement.spec.ts:4-7` has it that redaction happens faithfully
  or fails closed.
- `scope_nested`: `setActivePlan` overwrites the plan of the request when an
  enforced method invokes another one or two run at once
  (`PreEnforceAspect.ts:79`), and nothing restores it, so later queries of the
  first are narrowed by the obligations of the second.
- `http_stall`: when the connect timer aborts an attempt, the rejection handler
  takes it for an unsubscription (`HttpPdpClient.ts:674`): no INDETERMINATE, no
  reconnect.

These were noticed while the code was translated. The models contain most of
them, as what the code does; no run is devoted to them:

- a source that emits during `subscribe()` is subscribed to again for each such
  item (`StreamingPipeline.ts:214`; `StreamingPipeline.spec.ts:172` expects one);
- promises of `executePerItem` that settle out of order deliver items out of
  order (`StreamingPipeline.ts:153`; `MealyMachine.ts:37` says order is preserved);
- the outcome of the subscribe signal only reaches the first decision
  (`StreamEnforceAspect.ts:61`), and a SUSPEND ignores it, so a stream that starts
  suspended delivers data after the next PERMIT although its subscribe obligation
  failed; the comment at lines 59-60 has it that such a failure denies the stream
  (`FirstDecisionGated` says what is left of that);
- a second subscription to an enforced stream is not checked against the
  subscribe obligation that denied the first (`StreamEnforceAspect.ts:52`);
- input mappers of which the last returns no array, or error mappers of which the
  last returns no Error, are all forgotten: the method gets the raw arguments, the
  caller the raw error, and the obligations count as discharged
  (`PreEnforceAspect.ts:70`; `MappersApply` takes that for what it is);
- under `@PreEnforce` the resource of a decision does not replace a void result
  (`PreEnforceAspect.ts:110`; `types.ts:33`);
- a plan stays active after its method has returned (`ActivePlan.ts:19` against
  its line 22);
- the body of an error response is awaited without a timer
  (`HttpPdpClient.ts:573`), and keep-alive bytes lift the limit for the first
  decision (`HttpPdpClient.ts:620` against its line 599);
- a frame that is no JSON leaves the old decision in force
  (`HttpPdpClient.ts:640`; `PdpClient.ts:16`);
- a failed discovery of the issuer is cached for good
  (`OAuth2TokenProvider.ts:83` against its line 30);
- an id spelled once with an escape passes the scan for duplicate keys
  (`HttpPdpClient.ts:256` against its line 235);
- the snapshots of a stream (`multiDecideAll`) are not scanned for repeated ids at
  all (`HttpPdpClient.ts:638`);
- an action on the root, `$`, changes nothing, silently (`ContentFilter.ts:154`;
  its line 296 has it that redaction must not be skipped silently), and neither
  does a path that designates no place, as `$['a'].b` of a text;
- a replacement object is the same object wherever it is put, in one element and
  in the next (`ContentFilter.ts:226`): a later action that reaches into it
  changes what was handed on before, and can make it contain itself;
- a negative `discloseLeft` or `discloseRight` discloses characters that it says
  nothing of (`ContentFilter.ts:201`);
- a condition whose path designates several places compares the array of them,
  which equals nothing: `!=` holds and `==` never does, so that the redaction is
  skipped (`ContentFilter.ts:301`);
- an operation that neither list of a shim names passes unnarrowed, and the
  database clients have some that read or write rows by a filter
  (`prisma/shim.ts:75`, `mongoose/shim.ts:13`, against `prisma/shim.ts:59`, which
  has only those without a filter in mind);
- a column that the caller selects with a nested `select` is selected whole by the
  narrowed query (`SqlQueryRewriting.ts:75` against its line 71);
- a failed multi request yields an empty snapshot (`HttpPdpClient.ts:400`,
  `PdpClient.ts:16`);
- a socket that could not be opened, or that was lost, stays cached
  (`RsocketPdpClient.ts:369`, `:337`, against `:340` and `PdpClient.ts:31`);
- attempts are counted over all outages (`RsocketPdpClient.ts:307` against its
  line 33), and with two ids each failed attempt repeats the INDETERMINATEs
  (`RsocketPdpClient.ts:320` against its line 244);
- an attempt that is cancelled while its metadata is built requests the stream
  all the same (`RsocketPdpClient.ts:275` against its line 231);
- a one-shot request waits for its socket without a limit
  (`RsocketPdpClient.ts:193` against its line 62); `OneShotSettles` speaks of
  sockets that have settled.

In the transport modules the passing properties hold in spite of these, because
safety is kept: a stalled attempt is silent, but the subscriber holds
INDETERMINATE or nothing.

## Not modelled

- **Boundary-signal helpers** (`streaming/TransitionSignals.ts`): stateless
  operators that look at one element of the feed at a time; what they can see is
  what `StreamContract` and `SignalsBracketData` say of the feed. A consumer that
  throws unsubscribes from within `next`, which `StreamingPipeline` has.
- **Values on the wire** (`transport/codec/SaplValueCodec.ts`): the decoding of
  decisions is in `RsocketPdpClient`; the values in obligations, advice and
  resources, and the encoding of subscriptions, are data that no property here
  tells apart.
- **Text of paths and of criteria**: the characters of a JSONPath, operators on
  columns and their translation into BSON or Prisma operators; a path is its
  selectors, a leaf the rows it selects.
- **`pdp.service.ts`, `TlsConfig.ts` and the constructors' validation**:
  delegation and start-up checks.
- **Subscription building, decorators, module wiring, types**: no behaviour
  of their own to get wrong over time.
- Within modelled parts: lengths of delays and jitter, log levels and texts,
  bytes of a frame, setup metadata, the JavaScript values a handler sees.
  Promises returned by handlers of a plan are not awaited by the code, so their
  rejection is outside every model of `execute`.
- Two subscribers of *one* Observable of an HTTP stream share its failure
  counter; the model has one subscriber at a time.

## Plan

Done, in this order: the machine and its table, the pipeline with its contract,
the planner, method calls, request scope, both transports, lifecycle signals;
then the content filter, the rewriting of queries, the scan of snapshots and the
decoding of decisions; proofs of the streaming core, of the lifecycle signals,
of queries under sequential calls, of the shared token, of the streams of both
transports, of method calls, of the content filter and of the scan of snapshots.

Next, modules:

1. The pipeline composed with `PdpFeed`: what an outage of the transport does to
   an enforced stream.
2. Two subscribers of one Observable of an HTTP stream.

Next, theorems: what `FilterActsAtPlaces` leaves open about deletions from arrays.
