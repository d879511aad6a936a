---------------------------- MODULE PdpRequests -----------------------------
(***************************************************************************)
(* Concurrent one-shot requests to the PDP over HTTP: decideOnce and       *)
(* multiDecideAllOnce (fetchOnce in lib/transport/HttpPdpClient.ts), with  *)
(* the OAuth2 token they share (lib/transport/auth/OAuth2TokenProvider.ts).*)
(*                                                                         *)
(* The PDP and the issuer are the environment: they answer what they like. *)
(* The issuer answers every request in the end, because the client library *)
(* (openid-client, external) limits its own requests.                      *)
(***************************************************************************)
EXTENDS SnapshotText

CONSTANTS
    Requests,       \* callers, each with one request at a time
    Ids,            \* subscription ids of a multi request
    TheId,          \* stands for the subject of a decideOnce
    Verdicts,       \* valid values of a decision field
    Indeterminate,  \* the INDETERMINATE among them
    Malformed,      \* a decision that is not one of DECISION_SET
    Snapshots,      \* bodies of a multiDecideAllOnce, see SnapshotText
    MaxTokens       \* bound: tokens the issuer grants

ASSUME RequestsAssumption ==
    /\ Indeterminate \in Verdicts /\ Malformed \notin Verdicts /\ TheId \in Ids
    /\ \A snapshot \in Snapshots :
          /\ snapshot \in Seq(Range(snapshot))
          /\ \A i \in DOMAIN snapshot :
                snapshot[i].id \in Ids /\ snapshot[i].decision \in Verdicts \cup {Malformed}
    /\ MaxTokens \in Nat

VARIABLES
    auth,           \* "static" (header or none) or "oauth2"
    cached,         \* the cached token, 0 for none
    stale,          \* is the cached token within the guard of its expiry?
    refresh,        \* pendingRefresh: "none", "discovering", "granting" or "settling"
    configuration,  \* configurationPromise: "none", "ready" or "failed"
    granted,        \* environment: tokens granted so far
    refused,        \* environment: tokens whose refusal the client has handled
    pc,             \* where each request is, see Steps
    method,         \* "one" (decideOnce) or "all" (multiDecideAllOnce)
    token,          \* the token each request was given
    retried,        \* is this the retry?
    aborted,        \* has the timer of fetchOnce fired?
    body,           \* the snapshot a multiDecideAllOnce is reading
    answer,         \* what the caller got: ids to decisions
    barred          \* history: the tokens refused when the request asked for its own

provider == <<cached, stale, refresh, configuration, granted>>
requests == <<pc, method, token, retried, aborted, body, answer, barred>>
vars == <<auth, provider, refused, requests>>

(* "token": waiting for the refresh; "held": the promise of its token has  *)
(* settled, and fetchOnce has not resumed yet; "denied": reading the body  *)
(* of a 401 or 403; "erred": of another error.                             *)
Steps == {"idle", "token", "held", "sent", "denied", "erred", "body", "done"}

NoAnswer == [id \in {} |-> Indeterminate]

About(verdict) == [id \in {TheId} |-> verdict]

(* fetchOnce answers null.                                                 *)
NullAnswer(r) == IF method[r] = "one" THEN About(Indeterminate) ELSE NoAnswer

(* Mutant: the decision field is taken as it is.                           *)
ValidatedNot(raw) == raw
Validated(raw) == IF raw \in Verdicts THEN raw ELSE Indeterminate

Waiting == {r \in Requests : pc[r] = "token"}

Init ==
    /\ auth \in {"static", "oauth2"}
    /\ cached = 0 /\ stale = FALSE /\ refresh = "none" /\ configuration = "none"
    /\ granted = 0 /\ refused = {}
    /\ pc = [r \in Requests |-> "idle"]
    /\ method \in [Requests -> {"one", "all"}]
    /\ token = [r \in Requests |-> 0]
    /\ retried = [r \in Requests |-> FALSE]
    /\ aborted = [r \in Requests |-> FALSE]
    /\ body = [r \in Requests |-> << >>]
    /\ answer = [r \in Requests |-> NoAnswer]
    /\ barred = [r \in Requests |-> {}]

Go(r, step) == pc' = [pc EXCEPT ![r] = step]

(* getAccessToken with `c` in the cache: the token cached, a place in the  *)
(* pending refresh, or a refresh of its own, which a failed discovery ends *)
(* before it began.                                                        *)
HasToken(c) == auth = "static" \/ (c # 0 /\ ~stale)

Acquire(r, c) ==
    /\ cached' = c
    /\ token' = [token EXCEPT ![r] = IF HasToken(c) THEN c ELSE 0]
    /\ barred' = [barred EXCEPT ![r] = refused']
    /\ IF HasToken(c) THEN Go(r, "held") /\ UNCHANGED <<refresh, answer>>
       ELSE IF refresh = "none" /\ configuration = "failed"
       THEN Go(r, "done") /\ answer' = [answer EXCEPT ![r] = NullAnswer(r)] /\ UNCHANGED refresh
       ELSE /\ Go(r, "token")
            /\ refresh' = IF refresh # "none" THEN refresh
                          ELSE IF configuration = "ready" THEN "granting" ELSE "discovering"
            /\ UNCHANGED answer

Call(r) ==
    /\ pc[r] = "idle"
    /\ UNCHANGED <<auth, stale, configuration, granted, refused, method, retried, aborted, body>>
    /\ Acquire(r, cached)

(* The caller makes its next call.                                         *)
CallAgain(r) ==
    /\ pc[r] = "done"
    /\ Go(r, "idle")
    /\ method' \in {[method EXCEPT ![r] = m] : m \in {"one", "all"}}
    /\ token' = [token EXCEPT ![r] = 0]
    /\ retried' = [retried EXCEPT ![r] = FALSE]
    /\ aborted' = [aborted EXCEPT ![r] = FALSE]
    /\ answer' = [answer EXCEPT ![r] = NoAnswer]
    /\ barred' = [barred EXCEPT ![r] = {}]
    /\ UNCHANGED <<auth, provider, refused, body>>

-----------------------------------------------------------------------------
(* The refresh.                                                            *)

(* The promise the waiting callers share is rejected: all of them fail.    *)
RefreshFails ==
    /\ refresh' = "none"
    /\ pc' = [r \in Requests |-> IF r \in Waiting THEN "done" ELSE pc[r]]
    /\ answer' = [r \in Requests |-> IF r \in Waiting THEN NullAnswer(r) ELSE answer[r]]
    /\ UNCHANGED <<auth, cached, stale, granted, refused, method, token, retried, aborted, body, barred>>

DiscoverySucceeds ==
    /\ refresh = "discovering"
    /\ refresh' = "granting"
    /\ configuration' = "ready"
    /\ UNCHANGED <<auth, cached, stale, granted, refused, requests>>

DiscoveryFails ==
    /\ refresh = "discovering"
    /\ configuration' = "failed"
    /\ RefreshFails

GrantFails == refresh = "granting" /\ RefreshFails /\ UNCHANGED configuration

(* refreshOnce caches the token it was granted ...                         *)
GrantSucceeds ==
    /\ refresh = "granting" /\ granted < MaxTokens
    /\ refresh' = "settling"
    /\ granted' = granted + 1
    /\ cached' = granted'
    /\ stale' \in BOOLEAN
    /\ UNCHANGED <<auth, configuration, refused, requests>>

(* ... and when its promise has settled, finally ends the refresh and the  *)
(* waiting callers have that token, whatever the cache holds by then.      *)
RefreshSettles ==
    /\ refresh = "settling"
    /\ refresh' = "none"
    /\ pc' = [r \in Requests |-> IF r \in Waiting THEN "held" ELSE pc[r]]
    /\ token' = [r \in Requests |-> IF r \in Waiting THEN granted ELSE token[r]]
    /\ UNCHANGED <<auth, cached, stale, configuration, granted, refused,
                   method, retried, aborted, body, answer, barred>>

TokenNearsExpiry ==
    /\ cached # 0 /\ ~stale
    /\ stale' = TRUE
    /\ UNCHANGED <<auth, cached, refresh, configuration, granted, refused, requests>>

-----------------------------------------------------------------------------
(* The request.                                                            *)

(* fetchOnce resumes and sends; a fetch aborted by now is rejected at once.*)
Send(r) ==
    /\ pc[r] = "held"
    /\ IF aborted[r] THEN Go(r, "done") /\ answer' = [answer EXCEPT ![r] = NullAnswer(r)]
       ELSE Go(r, "sent") /\ UNCHANGED answer
    /\ UNCHANGED <<auth, provider, refused, method, token, retried, aborted, body, barred>>

(* A response comes from the network: to a request with the token that was *)
(* just granted, not before the callbacks of that grant have run.          *)
Responds(r) ==
    /\ pc[r] = "sent" /\ ~aborted[r]
    /\ refresh = "settling" => token[r] # granted
    /\ \/ /\ Go(r, "body")
          /\ body' \in { [body EXCEPT ![r] = snapshot] :
                         snapshot \in IF method[r] = "all" THEN Snapshots ELSE {<< >>} }
       \/ (Go(r, "denied") \/ Go(r, "erred")) /\ UNCHANGED body
    /\ UNCHANGED <<auth, provider, refused, method, token, retried, aborted, answer, barred>>

(* Mutant: the timer is cleared with the response.                         *)
TimedUntilResponse(r) == pc[r] \in {"token", "sent"}

(* No timer runs between a promise that settles and its callbacks.         *)
Timed(r) == pc[r] \in {"token", "sent", "denied", "erred", "body"}

TimerFires(r) ==
    /\ Timed(r) /\ ~aborted[r]
    /\ aborted' = [aborted EXCEPT ![r] = TRUE]
    /\ UNCHANGED <<auth, provider, refused, pc, method, token, retried, body, answer, barred>>

Settle(r, a) == Go(r, "done") /\ answer' = [answer EXCEPT ![r] = a]

BodyGone(r) == body' = [body EXCEPT ![r] = << >>]

(* The fetch or the body is rejected, or the body is not JSON.             *)
Fails(r) ==
    /\ pc[r] \in {"sent", "body"}
    /\ Settle(r, NullAnswer(r)) /\ BodyGone(r)
    /\ UNCHANGED <<auth, provider, refused, method, token, retried, aborted, barred>>

ErrorRead(r) ==
    /\ pc[r] = "erred"
    /\ Settle(r, NullAnswer(r))
    /\ UNCHANGED <<auth, provider, refused, method, token, retried, aborted, body, barred>>

(* Mutant: the cache survives the refusal.                                 *)
InvalidatedNot(c) == c
Invalidated(c) == 0

(* handleAuthFailure, then a retry with a timer of its own, or null.  An   *)
(* unreadable body is ignored.                                             *)
RefusalRead(r) ==
    /\ pc[r] = "denied"
    /\ IF auth = "oauth2"
       THEN /\ refused' = refused \cup {token[r]}
            /\ IF retried[r]
               THEN /\ Settle(r, NullAnswer(r))
                    /\ cached' = Invalidated(cached)
                    /\ UNCHANGED <<refresh, token, retried, aborted, barred>>
               ELSE /\ retried' = [retried EXCEPT ![r] = TRUE]
                    /\ aborted' = [aborted EXCEPT ![r] = FALSE]
                    /\ Acquire(r, Invalidated(cached))
       ELSE /\ Settle(r, NullAnswer(r))
            /\ UNCHANGED <<cached, refused, refresh, token, retried, aborted, barred>>
    /\ UNCHANGED <<auth, stale, configuration, granted, method, body>>

DecisionRead(r) ==
    /\ pc[r] = "body" /\ method[r] = "one" /\ ~aborted[r]
    /\ \E raw \in Verdicts \cup {Malformed} : Settle(r, About(Validated(raw)))
    /\ UNCHANGED <<auth, provider, refused, method, token, retried, aborted, body, barred>>

(* A snapshot decides about whichever ids it names, unless its text names  *)
(* one twice.                                                              *)
SnapshotRead(r) ==
    /\ pc[r] = "body" /\ method[r] = "all" /\ ~aborted[r]
    /\ LET raw == Parsed(body[r])
       IN  Settle(r, IF RepeatsAKey(Text(body[r])) THEN NullAnswer(r)
                     ELSE [id \in DOMAIN raw |-> Validated(raw[id])])
    /\ BodyGone(r)
    /\ UNCHANGED <<auth, provider, refused, method, token, retried, aborted, barred>>

Next ==
    \/ DiscoverySucceeds \/ DiscoveryFails \/ GrantFails \/ GrantSucceeds \/ RefreshSettles
    \/ TokenNearsExpiry
    \/ \E r \in Requests :
        \/ Call(r) \/ CallAgain(r) \/ Send(r) \/ Responds(r) \/ TimerFires(r) \/ Fails(r)
        \/ ErrorRead(r) \/ RefusalRead(r) \/ DecisionRead(r) \/ SnapshotRead(r)

(* The issuer answers, what has settled is resumed, the timer fires, and   *)
(* what was aborted is rejected.                                           *)
Fairness ==
    /\ WF_vars(DiscoverySucceeds \/ DiscoveryFails \/ GrantFails \/ GrantSucceeds)
    /\ WF_vars(RefreshSettles)
    /\ \A r \in Requests :
        /\ WF_vars(Send(r))
        /\ WF_vars(TimerFires(r))
        /\ WF_vars(aborted[r] /\ (Fails(r) \/ ErrorRead(r) \/ RefusalRead(r)))

Spec == Init /\ [][Next]_vars /\ Fairness

-----------------------------------------------------------------------------
Answers == UNION {[S -> Verdicts] : S \in SUBSET Ids}

TypeOK ==
    /\ auth \in {"static", "oauth2"}
    /\ cached \in 0..granted /\ stale \in BOOLEAN /\ granted \in 0..MaxTokens
    /\ refresh \in {"none", "discovering", "granting", "settling"}
    /\ configuration \in {"none", "ready", "failed"}
    /\ refused \subseteq 1..granted
    /\ pc \in [Requests -> Steps]
    /\ method \in [Requests -> {"one", "all"}]
    /\ token \in [Requests -> 0..granted]
    /\ retried \in [Requests -> BOOLEAN] /\ aborted \in [Requests -> BOOLEAN]
    /\ answer \in [Requests -> Answers]
    /\ body \in [Requests -> Snapshots \cup {<< >>}]
    /\ barred \in [Requests -> SUBSET (1..granted)]
    /\ \A r \in Requests : body[r] # << >> => pc[r] = "body" /\ method[r] = "all"

(* "Forces a fresh token on the next call": once the client has handled    *)
(* the refusal of a token, no request that asks for one after that is sent *)
(* with it, whichever refresh was pending and whatever other callers do    *)
(* between the asking and the sending (handleAuthFailure, invalidate).  A  *)
(* request that had asked before may still be sent with it.                *)
RefusedTokenNotReused ==
    [][\A r \in Requests : pc[r] # "sent" /\ pc'[r] = "sent" => token'[r] \notin barred[r]]_vars

(* A snapshot that names a subscription twice in the same spelling decides *)
(* about nothing (HttpPdpClient.ts:234, "fail closed instead of merging"); *)
(* every other one that is read decides about just the subscriptions it    *)
(* names, about each as it says, and a decision that is none is            *)
(* INDETERMINATE.                                                          *)
SnapshotsUnambiguous ==
    [][\A r \in Requests : SnapshotRead(r) =>
        IF \E i, j \in DOMAIN body[r] :
                i # j /\ body[r][i].id = body[r][j].id /\ body[r][i].spelling = body[r][j].spelling
        THEN answer'[r] = NoAnswer
        ELSE /\ DOMAIN answer'[r] = {body[r][i].id : i \in DOMAIN body[r]}
             /\ \A i \in DOMAIN body[r] :
                   \/ answer'[r][body[r][i].id] = body[r][i].decision
                   \/ body[r][i].decision = Malformed /\ answer'[r][body[r][i].id] = Indeterminate
                   \/ \E j \in i + 1 .. Len(body[r]) : body[r][j].id = body[r][i].id]_vars

(* A request is answered in the end, however the PDP stalls: the timer     *)
(* covers everything up to the last byte, and a refusal is retried once    *)
(* (fetchOnce).                                                            *)
EveryRequestSettles ==
    \A r \in Requests : (pc[r] \notin {"idle", "done"}) ~> (pc[r] = "done")
=============================================================================
