--------------------------- MODULE HttpPdpClient ----------------------------
(***************************************************************************)
(* One streaming call of the HTTP client, lib/transport/HttpPdpClient.ts:  *)
(* decide, multiDecide or multiDecideAll over server-sent events, with its *)
(* connect timer, its two-phase liveness timer, the INDETERMINATE it emits *)
(* when an attempt fails, and the reconnect with backoff (streamSse).      *)
(*                                                                         *)
(* The PDP and the network are the environment: they accept, refuse, send, *)
(* fall silent or break as they like.  Time passes in ticks, and stands    *)
(* still while a timer of the client is due.                               *)
(***************************************************************************)
EXTENDS Naturals, FiniteSets

CONSTANTS
    Ids,            \* subscription ids a call may ask about
    Verdicts,       \* valid values of a decision field
    Indeterminate,  \* the INDETERMINATE among them
    Malformed,      \* a decision that is not one of DECISION_SET
    NoDecision,     \* nothing said, or nothing shown, yet
    Timeout,        \* timeoutMs, in ticks
    Inactivity,     \* inactivityTimeoutMs, in ticks
    BufferSize,     \* MAX_BUFFER_SIZE, in chunks
    FailureCap      \* bound: failures are counted up to here

ASSUME HttpAssumption ==
    /\ Indeterminate \in Verdicts /\ {Malformed, NoDecision} \cap Verdicts = {}
    /\ Malformed # NoDecision
    /\ {Timeout, Inactivity, BufferSize, FailureCap} \subseteq Nat \ {0}

VARIABLES
    kind,           \* "decide", "multi" or "all": the method called
    ids,            \* the subscription ids of the call
    phase,          \* where the attempt is, see Phases
    aborted,        \* controller.signal.aborted
    live,           \* receivedAnyFrame: bytes arrived on this connection
    silence,        \* ticks since the last bytes, or the response
    age,            \* ticks since the attempt began
    buffered,       \* chunks of the line that is not complete yet
    failures,       \* consecutiveFailures.count
    shown,          \* what the subscriber was last told about each id
    said,           \* environment: what the PDP last sent on this connection
    halfOpen        \* environment: this connection will stay silent forever

vars == <<kind, ids, phase, aborted, live, silence, age, buffered, failures, shown, said, halfOpen>>
call == <<kind, ids>>
connection == <<aborted, live, silence, age, buffered, said, halfOpen>>

(* "refused": reading the body of a response that is not ok.               *)
(* "ended": the stream has, and its last line was delivered.               *)
(* "abandoned": the attempt has settled without telling anyone.            *)
Phases == {"idle", "connecting", "refused", "reading", "ended", "backoff", "abandoned"}

Nothing == [id \in ids |-> NoDecision]
(* Mutants: no seed; a seed for one of the ids only.                       *)
SeedNothing == shown
SeedOne == [shown EXCEPT ![CHOOSE id \in ids : TRUE] = Indeterminate]
Seed == [id \in ids |-> Indeterminate]

(* The ids of the call that one frame speaks about: multiDecide tags a     *)
(* single decision, a snapshot holds as many as the PDP put into it.       *)
(* Decisions about other ids are passed on as well; the call did not ask   *)
(* for them, and the model does not follow them.                           *)
Subjects ==
    CASE kind = "decide" -> {ids}
      [] kind = "multi"  -> {{id} : id \in ids} \cup {{}}
      [] kind = "all"    -> SUBSET ids

Frames == UNION {[S -> Verdicts \cup {Malformed}] : S \in Subjects}

Updated(old, news) == [id \in ids |-> IF id \in DOMAIN news THEN news[id] ELSE old[id]]

(* Mutant: the decision field is passed on as it is.                       *)
ValidatedNot(raw) == raw
Validated(raw) == IF raw \in Verdicts THEN raw ELSE Indeterminate

Liveness == IF live THEN Inactivity ELSE Timeout

Counted(n) == IF n < FailureCap THEN n + 1 ELSE n

(* A new controller, no bytes, nothing said.                               *)
FreshConnection ==
    /\ aborted' = FALSE /\ live' = FALSE /\ silence' = 0 /\ age' = 0 /\ buffered' = 0
    /\ said' = Nothing /\ halfOpen' = FALSE

Init ==
    /\ kind \in {"decide", "multi", "all"}
    /\ ids \in (SUBSET Ids) \ {{}}
    /\ kind = "decide" => Cardinality(ids) = 1
    /\ phase = "idle"
    /\ aborted = FALSE /\ live = FALSE /\ silence = 0 /\ age = 0 /\ buffered = 0
    /\ failures = 0
    /\ shown = Nothing
    /\ said = Nothing /\ halfOpen = FALSE

Subscribe ==
    /\ phase = "idle"
    /\ phase' = "connecting"
    /\ UNCHANGED <<call, connection, failures, shown>>

(* subscriber.error: catchError emits the seed, retry counts the failure   *)
(* and waits.                                                              *)
Fail ==
    /\ phase' = "backoff"
    /\ shown' = Seed
    /\ failures' = Counted(failures)
    /\ FreshConnection
    /\ UNCHANGED call

Connected(next) ==
    /\ phase = "connecting" /\ ~aborted
    /\ phase' = next
    /\ age' = 0
    /\ UNCHANGED <<call, aborted, live, silence, buffered, failures, shown, said, halfOpen>>

ResponseOk == Connected("reading")
ResponseNotOk == Connected("refused")
NoBody == phase = "connecting" /\ ~aborted /\ Fail

(* No timer guards the body of an error response.                          *)
ErrorBodyRead == phase = "refused" /\ Fail

ConnectTimeout ==
    /\ phase = "connecting" /\ ~aborted /\ age = Timeout
    /\ aborted' = TRUE
    /\ UNCHANGED <<call, phase, live, silence, age, buffered, failures, shown, said, halfOpen>>

(* The token or the fetch is rejected. After the abort the handler returns *)
(* before it reports anything.                                             *)
Rejected ==
    /\ phase = "connecting"
    /\ IF aborted
       THEN /\ phase' = "abandoned"
            /\ UNCHANGED <<call, connection, failures, shown>>
       ELSE Fail

(* Bytes of any kind restart the liveness timer for the next read.         *)
Bytes(complete) ==
    /\ phase = "reading" /\ ~halfOpen
    /\ buffered < BufferSize
    /\ live' = TRUE
    /\ silence' = 0
    /\ buffered' = IF complete THEN 0 ELSE buffered + 1
    /\ UNCHANGED <<call, phase, aborted, age, halfOpen>>

PartialLine == Bytes(FALSE) /\ UNCHANGED <<failures, shown, said>>

(* A comment, an empty line, a frame that is not JSON (it is logged), one  *)
(* the validator answers null for.                                         *)
SkippedLine == Bytes(TRUE) /\ UNCHANGED <<failures, shown, said>>

(* Mutant: the tap that resets the counter is missing.                     *)
TellUntapped(f) ==
    /\ said' = Updated(said, f)
    /\ shown' = Updated(shown, [id \in DOMAIN f |-> Validated(f[id])])
    /\ UNCHANGED failures

(* subscriber.next: the subscriber is told what the PDP said.              *)
Tell(f) ==
    /\ said' = Updated(said, f)
    /\ shown' = Updated(shown, [id \in DOMAIN f |-> Validated(f[id])])
    /\ failures' = 0

DecisionFrame == Bytes(TRUE) /\ \E f \in Frames : Tell(f)

BufferOverflow == phase = "reading" /\ ~halfOpen /\ buffered = BufferSize /\ Fail

(* The server ends the stream.  A last line without its newline may still  *)
(* be a decision: the subscriber is told, and only then of the end.        *)
StreamEnds == phase = "reading" /\ ~halfOpen /\ Fail

TrailingDecision ==
    /\ phase = "reading" /\ ~halfOpen /\ buffered > 0
    /\ \E f \in Frames : Tell(f)
    /\ phase' = "ended"
    /\ UNCHANGED <<call, aborted, live, silence, age, buffered, halfOpen>>

EndReported == phase = "ended" /\ Fail

ReadFails == phase = "reading" /\ Fail

(* Mutant: only the wait for the first bytes is limited.                   *)
LivenessExpiresAtFirst == phase = "reading" /\ ~live /\ silence >= Liveness /\ Fail
LivenessExpires == phase = "reading" /\ silence >= Liveness /\ Fail

BackoffElapses ==
    /\ phase = "backoff"
    /\ phase' = "connecting"
    /\ UNCHANGED <<call, connection, failures, shown>>

(* Teardown: timers cleared, reader cancelled, fetch aborted. The counter  *)
(* belongs to the Observable and outlives the subscription.                *)
Unsubscribe ==
    /\ phase # "idle"
    /\ phase' = "idle"
    /\ shown' = Nothing
    /\ FreshConnection
    /\ UNCHANGED <<call, failures>>

FallsSilent ==
    /\ phase = "reading" /\ ~halfOpen
    /\ halfOpen' = TRUE
    /\ UNCHANGED <<call, phase, aborted, live, silence, age, buffered, failures, shown, said>>

Tick ==
    /\ \/ phase = "connecting" /\ ~aborted /\ age < Timeout
          /\ age' = age + 1 /\ UNCHANGED silence
       \/ phase = "reading" /\ silence < Liveness
          /\ silence' = silence + 1 /\ UNCHANGED age
    /\ UNCHANGED <<call, phase, aborted, live, buffered, failures, shown, said, halfOpen>>

Next ==
    \/ Subscribe \/ Unsubscribe
    \/ ResponseOk \/ ResponseNotOk \/ NoBody \/ ErrorBodyRead
    \/ ConnectTimeout \/ Rejected
    \/ PartialLine \/ SkippedLine \/ DecisionFrame
    \/ BufferOverflow \/ StreamEnds \/ TrailingDecision \/ EndReported
    \/ ReadFails \/ LivenessExpires \/ BackoffElapses \/ FallsSilent \/ Tick

(* Only what the client's own timers and an aborted fetch guarantee; the   *)
(* server owes nothing.                                                    *)
Fairness ==
    /\ WF_vars(Tick) /\ WF_vars(ConnectTimeout) /\ WF_vars(LivenessExpires)
    /\ WF_vars(EndReported) /\ WF_vars(BackoffElapses) /\ WF_vars(Rejected /\ aborted)

Spec == Init /\ [][Next]_vars /\ Fairness

-----------------------------------------------------------------------------
TypeOK ==
    /\ kind \in {"decide", "multi", "all"} /\ ids \in (SUBSET Ids) \ {{}}
    /\ phase \in Phases
    /\ {aborted, live, halfOpen} \subseteq BOOLEAN
    /\ silence \in 0..(Timeout + Inactivity) /\ age \in 0..Timeout
    /\ buffered \in 0..BufferSize /\ failures \in 0..FailureCap
    /\ shown \in [ids -> Verdicts \cup {NoDecision}]
    /\ said \in [ids -> Verdicts \cup {Malformed, NoDecision}]

(* What the subscriber holds about an id is what the PDP last said about   *)
(* it on the connection it still hears, and where it said nothing readable yet *)
(* (or no connection is read) nothing better than INDETERMINATE, which it  *)
(* holds as soon as one attempt has failed (streamSse, catchError).        *)
NoStaleDecision ==
    \A id \in ids :
        IF said[id] \in Verdicts THEN phase \in {"reading", "ended"} /\ shown[id] = said[id]
        ELSE shown[id] \in {Indeterminate, NoDecision}

(* The backoff reflects the current outage: once a decision has come over  *)
(* the connection nothing is left of earlier failures, and an attempt that *)
(* never got as far raises the count, the seed it emits notwithstanding    *)
(* (tap, catchError, retry).                                               *)
BackoffReflectsOutage ==
    [][/\ (\E id \in ids : said'[id] # NoDecision) => failures' = 0
       /\ phase \in {"connecting", "refused"} /\ phase' = "backoff"
             => failures' = failures + 1 \/ failures = FailureCap]_vars

(* A connection that has gone silent for good does not pin the subscriber  *)
(* to its last decision: the liveness timer fails it                       *)
(* (readWithLiveness).                                                     *)
HalfOpenNoticed == (phase = "reading" /\ halfOpen) ~> (phase # "reading")

(* PdpClient.ts: "The stream reconnects on transport failure and emits     *)
(* INDETERMINATE across the gap": an attempt to connect comes to a         *)
(* response or to a failure that is reported (streamSse).                  *)
OutageReported == (phase = "connecting") ~> (phase \notin {"connecting", "abandoned"})

(* The stream keeps the promise of PdpClient.ts.                           *)
Feed == INSTANCE PdpFeed WITH
    link <- CASE phase = "idle" -> "idle"
              [] phase \in {"reading", "ended"} -> "up"
              [] OTHER -> "down"

ImplementsFeed == Feed!Feed
=============================================================================
