-------------------------- MODULE RsocketPdpClient --------------------------
(***************************************************************************)
(* The RSocket client, lib/transport/RsocketPdpClient.ts: streaming calls  *)
(* (requestStreamObs) and one-shot requests (requestResponseOnce) over one *)
(* socket, whose promise is cached (connect, close).                       *)
(*                                                                         *)
(* The RSocket library is external: a socket that has closed fails its     *)
(* streams, and every request made on it.  The server owes nothing.        *)
(***************************************************************************)
EXTENDS Naturals, Sequences, Functions

CONSTANTS
    Streams,        \* subscribers of streaming calls
    OneShots,       \* callers of one-shot requests
    IdSeq,          \* the subscription ids of a streaming call, in order
    Verdicts,       \* decisions of the client, DECISION_BY_INT
    Indeterminate,  \* the INDETERMINATE among them
    Foreign,        \* a decision on the wire that is none of them
    NoDecision,     \* nothing said, or nothing shown, yet
    Sockets         \* bound: sockets are numbered from 1 up to here

ASSUME RsocketAssumption ==
    /\ Indeterminate \in Verdicts /\ NoDecision \notin Verdicts
    /\ Foreign \notin Verdicts \cup {NoDecision}
    /\ Sockets \in Nat /\ IdSeq \in Seq(Range(IdSeq)) /\ IdSeq # <<>>

VARIABLES
    current,        \* socketPromise: the socket it is about, 0 for null
    status,         \* what became of each socket
    closing,        \* sockets close() waits for
    kind,           \* the streaming method: "decide", or "multi"
    phase,          \* where each stream's attempt is, see Phases
    on,             \* the socket the attempt uses
    seen,           \* firstDecisionSeen
    timer,          \* is firstDecisionTimer set?
    shown,          \* what the subscriber was last told about each id
    said,           \* environment: what the PDP last sent on this stream
    pc,             \* where each one-shot request is
    uses            \* the socket it awaits or uses

socketVars == <<current, status, closing>>
stream == <<phase, on, seen, timer, shown, said>>
vars == <<socketVars, kind, stream, pc, uses>>

Ids == Range(IdSeq)

(* "awaiting": the socket; "metadata": buildMetadata, a microtask.         *)
Phases == {"idle", "awaiting", "metadata", "streaming", "backoff"}

Nothing == [id \in Ids |-> NoDecision]
Outage == [id \in Ids |-> Indeterminate]

Init ==
    /\ current = 0 /\ closing = {}
    /\ status = [c \in 1..Sockets |-> "unused"]
    /\ kind \in IF Len(IdSeq) = 1 THEN {"decide", "multi"} ELSE {"multi"}
    /\ phase = [s \in Streams |-> "idle"]
    /\ on = [s \in Streams |-> 0]
    /\ seen = [s \in Streams |-> FALSE]
    /\ timer = [s \in Streams |-> FALSE]
    /\ shown = [s \in Streams |-> Nothing]
    /\ said = [s \in Streams |-> Nothing]
    /\ pc = [r \in OneShots |-> "idle"]
    /\ uses = [r \in OneShots |-> 0]

-----------------------------------------------------------------------------
(* The socket.                                                             *)

(* The cached promise, whatever became of it, or a fresh one.              *)
Connect(c) ==
    /\ IF current # 0 THEN c = current /\ UNCHANGED status
       ELSE /\ status[c] = "unused" /\ \A d \in 1..Sockets : status[d] = "unused" => c <= d
            /\ status' = [status EXCEPT ![c] = "connecting"]
    /\ current' = c
    /\ UNCHANGED closing

Becomes(c, s) == status' = [status EXCEPT ![c] = s]

Opens(c) ==
    /\ status[c] = "connecting"
    /\ Becomes(c, "open")
    /\ UNCHANGED <<current, closing, kind, stream, pc, uses>>

(* Token, TCP, TLS or setup fails.  The handler compares the promise it    *)
(* was made from with the one that is cached: they are never the same.     *)
Refused(c) ==
    /\ status[c] = "connecting"
    /\ Becomes(c, "rejected")
    /\ closing' = closing \ {c}
    /\ UNCHANGED <<current, kind, stream, pc, uses>>

(* Connection lost, keepalive expired, or the server is gone.              *)
Dies(c) ==
    /\ status[c] = "open"
    /\ Becomes(c, "dead")
    /\ UNCHANGED <<current, closing, kind, stream, pc, uses>>

(* Mutant: close() only closes a socket that is open already.              *)
AwaitsOpen(c) == status[c] \in {"open", "dead"}
Awaits(c) == status[c] # "rejected"

Close ==
    /\ current # 0 /\ \E c \in 1..Sockets : status[c] = "unused"
    /\ current' = 0
    /\ closing' = IF Awaits(current) THEN closing \cup {current} ELSE closing
    /\ UNCHANGED <<status, kind, stream, pc, uses>>

(* close() got the socket it waited for.                                   *)
CloseSocket(c) ==
    /\ c \in closing /\ status[c] \in {"open", "dead"}
    /\ Becomes(c, "dead")
    /\ closing' = closing \ {c}
    /\ UNCHANGED <<current, kind, stream, pc, uses>>

-----------------------------------------------------------------------------
(* A streaming call.                                                       *)

(* A new attempt: its timer runs from the start.                           *)
Attempt(s) ==
    /\ \E c \in 1..Sockets : Connect(c) /\ on' = [on EXCEPT ![s] = c]
    /\ phase' = [phase EXCEPT ![s] = "awaiting"]
    /\ seen' = [seen EXCEPT ![s] = FALSE]
    /\ timer' = [timer EXCEPT ![s] = TRUE]
    /\ said' = [said EXCEPT ![s] = Nothing]

Subscribe(s) ==
    /\ phase[s] = "idle"
    /\ Attempt(s)
    /\ UNCHANGED <<kind, shown, pc, uses>>

BackoffElapses(s) ==
    /\ phase[s] = "backoff"
    /\ Attempt(s)
    /\ UNCHANGED <<kind, shown, pc, uses>>

(* Mutants: fallback() is forgotten, covers one id only, or names none.    *)
EmitFallbackNot(s) == UNCHANGED shown
EmitFallbackBare(s) == shown' = [shown EXCEPT ![s] = Indeterminate]
EmitFallbackOne(s) == shown' = [shown EXCEPT ![s][IdSeq[1]] = Indeterminate]

(* Every value of fallback() is emitted; the one that distinctUntilChanged *)
(* drops repeats what the subscriber holds already.                        *)
EmitFallback(s) == shown' = [shown EXCEPT ![s] = Outage]

(* fail: INDETERMINATE, then the error that retry waits upon.              *)
Fail(s) ==
    /\ EmitFallback(s)
    /\ phase' = [phase EXCEPT ![s] = "backoff"]
    /\ on' = [on EXCEPT ![s] = 0]
    /\ seen' = [seen EXCEPT ![s] = FALSE]
    /\ timer' = [timer EXCEPT ![s] = FALSE]
    /\ said' = [said EXCEPT ![s] = Nothing]
    /\ UNCHANGED <<socketVars, kind, pc, uses>>

ConnectFails(s) == phase[s] = "awaiting" /\ status[on[s]] = "rejected" /\ Fail(s)

Connected(s) ==
    /\ phase[s] = "awaiting" /\ status[on[s]] \in {"open", "dead"}
    /\ phase' = [phase EXCEPT ![s] = "metadata"]
    /\ UNCHANGED <<socketVars, kind, on, seen, timer, shown, said, pc, uses>>

(* Mutant: the timer is stopped with the request.                          *)
StillTimedNot(s) == FALSE
StillTimed(s) == timer[s]

RequestStream(s) ==
    /\ phase[s] = "metadata"
    /\ IF status[on[s]] = "dead" THEN Fail(s)
       ELSE /\ phase' = [phase EXCEPT ![s] = "streaming"]
            /\ timer' = [timer EXCEPT ![s] = StillTimed(s)]
            /\ UNCHANGED <<socketVars, kind, on, seen, shown, said, pc, uses>>

Reading(s) == phase[s] = "streaming" /\ status[on[s]] = "open"

FirstDecisionTimeout(s) ==
    /\ phase[s] \in {"awaiting", "streaming"} /\ timer[s] /\ ~seen[s]
    /\ Fail(s)

Arrived(s) ==
    /\ Reading(s)
    /\ seen' = [seen EXCEPT ![s] = TRUE]
    /\ timer' = [timer EXCEPT ![s] = FALSE]
    /\ UNCHANGED <<socketVars, kind, phase, on, pc, uses>>

(* The ids of the call that one frame speaks about: multiDecide names a    *)
(* single one, a snapshot of multiDecideAll as many as the PDP put into it *)
(* (one among them, so "multi" stands for both).  Decisions about other    *)
(* ids are passed on as well; the call did not ask for them, and the model *)
(* does not follow them.                                                   *)
Subjects == IF kind = "decide" THEN {Ids} ELSE SUBSET Ids

Frames == UNION {[S -> Verdicts \cup {Foreign}] : S \in Subjects}

Updated(old, news) == [id \in Ids |-> IF id \in DOMAIN news THEN news[id] ELSE old[id]]

(* The codec (lib/transport/codec/SaplProtoCodec.ts): each subject with    *)
(* its decision, and a decision it does not know is INDETERMINATE.         *)
NormaliseDecision(raw) == IF raw \in Verdicts THEN raw ELSE Indeterminate

Decode(frame) == [id \in DOMAIN frame |-> NormaliseDecision(frame[id])]

DecisionFrame(s) ==
    \E f \in Frames :
        /\ Arrived(s)
        /\ said' = [said EXCEPT ![s] = Updated(@, f)]
        /\ shown' = [shown EXCEPT ![s] = Updated(@, Decode(f))]

(* One frame cannot be decoded: INDETERMINATE for it, and the stream lives *)
(* on.                                                                     *)
UndecodableFrame(s) ==
    /\ Arrived(s)
    /\ EmitFallback(s)
    /\ said' = [said EXCEPT ![s] = Nothing]

(* The server completes or fails the stream, or the socket is closed.      *)
StreamEnds(s) == phase[s] = "streaming" /\ Fail(s)

(* The teardown: `cancelled`, timer, cancellable.cancel().  An attempt in  *)
(* buildMetadata has nothing to cancel yet; the request it then makes      *)
(* reaches nobody and is left out.                                         *)
Unsubscribe(s) ==
    /\ phase[s] # "idle"
    /\ phase' = [phase EXCEPT ![s] = "idle"]
    /\ on' = [on EXCEPT ![s] = 0]
    /\ seen' = [seen EXCEPT ![s] = FALSE]
    /\ timer' = [timer EXCEPT ![s] = FALSE]
    /\ shown' = [shown EXCEPT ![s] = Nothing]
    /\ said' = [said EXCEPT ![s] = Nothing]
    /\ UNCHANGED <<socketVars, kind, pc, uses>>

-----------------------------------------------------------------------------
(* A one-shot request: "awaiting" the socket, then "pending" under its     *)
(* timer, then "done" with a decision or the fallback.                     *)
Step(r, from, to) ==
    /\ pc[r] = from
    /\ pc' = [pc EXCEPT ![r] = to]
    /\ UNCHANGED <<kind, stream>>

Call(r) ==
    /\ Step(r, "idle", "awaiting")
    /\ \E c \in 1..Sockets : Connect(c) /\ uses' = [uses EXCEPT ![r] = c]

Send(r) ==
    /\ pc[r] = "awaiting" /\ status[uses[r]] \in {"open", "dead"}
    /\ Step(r, "awaiting", "pending")
    /\ UNCHANGED <<socketVars, uses>>

(* The socket could not be had.                                            *)
SendFails(r) ==
    /\ pc[r] = "awaiting" /\ status[uses[r]] = "rejected"
    /\ Step(r, "awaiting", "done")
    /\ UNCHANGED <<socketVars, uses>>

(* A payload, which decodes or not, or an error.                           *)
Answered(r) ==
    /\ Step(r, "pending", "done")
    /\ UNCHANGED <<socketVars, uses>>

(* Mutant: the timer waits upon a socket that lives.                       *)
TimedWhileOpen(r) == pc[r] = "pending" /\ status[uses[r]] = "open"
Timed(r) == pc[r] = "pending"

(* withTimeout: the only timer of a one-shot request.                      *)
RequestTimeout(r) == Timed(r) /\ Answered(r)

CallAgain(r) ==
    /\ Step(r, "done", "idle")
    /\ uses' = [uses EXCEPT ![r] = 0]
    /\ UNCHANGED socketVars

-----------------------------------------------------------------------------
Next ==
    \/ Close
    \/ \E c \in 1..Sockets : Opens(c) \/ Refused(c) \/ Dies(c) \/ CloseSocket(c)
    \/ \E s \in Streams :
        \/ Subscribe(s) \/ BackoffElapses(s) \/ ConnectFails(s) \/ Connected(s)
        \/ RequestStream(s) \/ FirstDecisionTimeout(s) \/ DecisionFrame(s)
        \/ UndecodableFrame(s) \/ StreamEnds(s) \/ Unsubscribe(s)
    \/ \E r \in OneShots :
        \/ Call(r) \/ Send(r) \/ SendFails(r) \/ Answered(r) \/ RequestTimeout(r)
        \/ CallAgain(r)

(* Timers, and the continuations of promises that have settled.            *)
Fairness ==
    /\ \A s \in Streams :
        /\ WF_vars(BackoffElapses(s)) /\ WF_vars(FirstDecisionTimeout(s))
        /\ WF_vars(ConnectFails(s)) /\ WF_vars(Connected(s)) /\ WF_vars(RequestStream(s))
    /\ \A r \in OneShots : WF_vars(Send(r)) /\ WF_vars(SendFails(r)) /\ WF_vars(RequestTimeout(r))

Spec == Init /\ [][Next]_vars /\ Fairness

-----------------------------------------------------------------------------
TypeOK ==
    /\ current \in 0..Sockets /\ closing \subseteq 1..Sockets
    /\ status \in [1..Sockets -> {"unused", "connecting", "open", "dead", "rejected"}]
    /\ phase \in [Streams -> Phases]
    /\ on \in [Streams -> 0..Sockets] /\ uses \in [OneShots -> 0..Sockets]
    /\ {seen, timer} \subseteq [Streams -> BOOLEAN]
    /\ shown \in [Streams -> [Ids -> Verdicts \cup {NoDecision}]]
    /\ said \in [Streams -> [Ids -> Verdicts \cup {Foreign, NoDecision}]]
    /\ pc \in [OneShots -> {"idle", "awaiting", "pending", "done"}]

(* What a subscriber holds about an id is what the PDP last said on the    *)
(* stream it reads, and else nothing better than INDETERMINATE, whatever   *)
(* happens to the socket it shares (requestStreamObs, fail).               *)
NoStaleDecision ==
    \A s \in Streams : \A id \in Ids :
        IF said[s][id] \in Verdicts THEN phase[s] = "streaming" /\ shown[s][id] = said[s][id]
        ELSE shown[s][id] \in {Indeterminate, NoDecision}

(* An attempt brings its first decision, fails with INDETERMINATE, or is   *)
(* given up, however long the socket or the server take: the timer that    *)
(* runs from its start covers all of it (firstDecisionTimer).              *)
FirstDecisionOrOutage ==
    \A s \in Streams :
        (phase[s] = "awaiting") ~> (seen[s] \/ phase[s] \in {"backoff", "idle"})

(* close() releases the socket even while it is being opened: none is open  *)
(* or opening that is neither cached nor waited for (close).               *)
NoSocketLost ==
    \A c \in 1..Sockets : status[c] \in {"connecting", "open"} => c = current \/ c \in closing

(* A one-shot request does not hang on a stalled server: from the moment   *)
(* the socket's promise has settled, whatever the socket does next, the    *)
(* caller gets an answer (requestResponseOnce, withTimeout).               *)
OneShotSettles ==
    \A r \in OneShots :
        (pc[r] = "awaiting" /\ status[uses[r]] \in {"open", "dead", "rejected"}) ~> (pc[r] = "done")

(* A stream keeps the promise of PdpClient.ts (one stands for all: nothing *)
(* tells them apart).                                                      *)
TheStream == CHOOSE s \in Streams : TRUE

Feed == INSTANCE PdpFeed WITH
    ids   <- Ids,
    shown <- shown[TheStream],
    link  <- CASE phase[TheStream] = "idle"      -> "idle"
               [] phase[TheStream] = "streaming" -> "up"
               [] OTHER                          -> "down"

ImplementsFeed == Feed!Feed
=============================================================================
