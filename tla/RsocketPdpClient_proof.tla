---------------------- MODULE RsocketPdpClient_proof ------------------------
(***************************************************************************)
(* Proofs about the RSocket client, for any number of streams, one-shot    *)
(* requests, sockets and ids: no socket is lost, no decision is stale, and *)
(* every stream keeps the promise of PdpFeed.                              *)
(***************************************************************************)
EXTENDS RsocketPdpClient, TLAPS

(* The types of what the socket, the streams and the one-shot requests     *)
(* keep.                                                                   *)
SocketTyped ==
    /\ current \in 0..Sockets /\ closing \subseteq 1..Sockets
    /\ status \in [1..Sockets -> {"unused", "connecting", "open", "dead", "rejected"}]

StreamsTyped ==
    /\ phase \in [Streams -> Phases] /\ on \in [Streams -> 0..Sockets]
    /\ seen \in [Streams -> BOOLEAN] /\ timer \in [Streams -> BOOLEAN]
    /\ shown \in [Streams -> [Ids -> Verdicts \cup {NoDecision}]]
    /\ said \in [Streams -> [Ids -> Verdicts \cup {Foreign, NoDecision}]]

OneShotsTyped ==
    /\ uses \in [OneShots -> 0..Sockets]
    /\ pc \in [OneShots -> {"idle", "awaiting", "pending", "done"}]

(* NoStaleDecision, of one stream.                                         *)
Fresh(s) ==
    \A id \in Ids :
        IF said[s][id] \in Verdicts THEN phase[s] = "streaming" /\ shown[s][id] = said[s][id]
        ELSE shown[s][id] \in {Indeterminate, NoDecision}

IInv == TypeOK /\ NoStaleDecision /\ NoSocketLost

LEMMA TypeParts ==
    /\ TypeOK <=> SocketTyped /\ StreamsTyped /\ OneShotsTyped
    /\ TypeOK' <=> SocketTyped' /\ StreamsTyped' /\ OneShotsTyped'
BY DEF TypeOK, SocketTyped, StreamsTyped, OneShotsTyped

-----------------------------------------------------------------------------
(* Ids, values and frames.                                                 *)

LEMMA SomeId == Ids # {}
<1>1. Len(IdSeq) > 0 /\ DOMAIN IdSeq = 1..Len(IdSeq) /\ Len(IdSeq) \in Nat
  BY RsocketAssumption
<1>2. 1 \in DOMAIN IdSeq
  BY <1>1
<1>. QED BY <1>2 DEF Ids, Range

LEMMA ValueTypes ==
    /\ Nothing \in [Ids -> Verdicts \cup {NoDecision}]
    /\ Nothing \in [Ids -> Verdicts \cup {Foreign, NoDecision}]
    /\ Outage \in [Ids -> Verdicts \cup {NoDecision}]
BY RsocketAssumption DEF Nothing, Outage

LEMMA NormalisedIsVerdict == ASSUME NEW raw PROVE NormaliseDecision(raw) \in Verdicts
BY RsocketAssumption DEF NormaliseDecision

LEMMA FrameType ==
    ASSUME NEW f \in Frames
    PROVE  /\ DOMAIN f \in SUBSET Ids
           /\ f \in [DOMAIN f -> Verdicts \cup {Foreign}]
<1>1. PICK S \in Subjects : f \in [S -> Verdicts \cup {Foreign}]
  BY DEF Frames
<1>2. S \in SUBSET Ids
  BY DEF Subjects
<1>. QED BY <1>1, <1>2

LEMMA UpdateType ==
    ASSUME NEW T, NEW old \in [Ids -> T], NEW news, \A id \in DOMAIN news : news[id] \in T
    PROVE  Updated(old, news) \in [Ids -> T]
BY DEF Updated

-----------------------------------------------------------------------------
(* The socket.                                                             *)

LEMMA InitInv == Init => IInv
<1> SUFFICES ASSUME Init PROVE IInv
  OBVIOUS
<1> USE DEF Init
<1>1. SocketTyped /\ OneShotsTyped
  BY RsocketAssumption DEF SocketTyped, OneShotsTyped
<1>2. StreamsTyped
  BY ValueTypes, RsocketAssumption DEF StreamsTyped, Phases
<1>3. NoStaleDecision
  BY RsocketAssumption DEF NoStaleDecision, Nothing
<1>4. NoSocketLost
  BY DEF NoSocketLost
<1>. QED BY <1>1, <1>2, <1>3, <1>4, TypeParts DEF IInv

(* connect() hands out a socket and loses none: the one it replaces, if    *)
(* any, is waited for.                                                     *)
LEMMA ConnectKeepsSockets ==
    ASSUME SocketTyped, NoSocketLost, NEW c \in 1..Sockets, Connect(c)
    PROVE  SocketTyped' /\ NoSocketLost'
<1>1. CASE current # 0
  BY <1>1 DEF Connect, SocketTyped, NoSocketLost
<1>2. CASE current = 0
  <2>1. /\ status' = [status EXCEPT ![c] = "connecting"] /\ current' = c /\ closing' = closing
    BY <1>2 DEF Connect
  <2>2. SocketTyped'
    BY <2>1 DEF SocketTyped
  <2>3. NoSocketLost'
    BY <1>2, <2>1 DEF SocketTyped, NoSocketLost
  <2>. QED BY <2>2, <2>3
<1>. QED BY <1>1, <1>2

(* Steps of the socket itself, and of close().                             *)
LEMMA SocketStepKeepsSockets ==
    ASSUME SocketTyped, NoSocketLost,
           Close \/ \E c \in 1..Sockets : Opens(c) \/ Refused(c) \/ Dies(c) \/ CloseSocket(c)
    PROVE  SocketTyped' /\ NoSocketLost' /\ UNCHANGED <<kind, stream, pc, uses>>
<1> USE DEF SocketTyped, NoSocketLost
<1>1. CASE Close
  <2>1. current \in 1..Sockets /\ current' = 0 /\ status' = status
    BY <1>1, RsocketAssumption DEF Close
  <2>2. closing' = IF Awaits(current) THEN closing \cup {current} ELSE closing
    BY <1>1 DEF Close
  <2>3. SocketTyped'
    BY <2>1, <2>2, RsocketAssumption
  <2>4. NoSocketLost'
    BY <2>1, <2>2 DEF Awaits
  <2>. QED BY <1>1, <2>3, <2>4 DEF Close
<1>2. ASSUME NEW c \in 1..Sockets, Opens(c) PROVE SocketTyped' /\ NoSocketLost'
  BY <1>2 DEF Opens, Becomes
<1>3. ASSUME NEW c \in 1..Sockets, Refused(c) PROVE SocketTyped' /\ NoSocketLost'
  BY <1>3 DEF Refused, Becomes
<1>4. ASSUME NEW c \in 1..Sockets, Dies(c) PROVE SocketTyped' /\ NoSocketLost'
  BY <1>4 DEF Dies, Becomes
<1>5. ASSUME NEW c \in 1..Sockets, CloseSocket(c) PROVE SocketTyped' /\ NoSocketLost'
  BY <1>5 DEF CloseSocket, Becomes
<1>. QED BY <1>1, <1>2, <1>3, <1>4, <1>5 DEF Opens, Refused, Dies, CloseSocket

-----------------------------------------------------------------------------
(* The streams.                                                            *)

(* A step of stream s touches no other stream.                             *)
Untouched(s) ==
    \A t \in Streams \ {s} :
        shown'[t] = shown[t] /\ said'[t] = said[t] /\ phase'[t] = phase[t]

LEMMA OthersStayFresh ==
    ASSUME NoStaleDecision, NEW s \in Streams, Untouched(s),
           \A id \in Ids :
              IF said'[s][id] \in Verdicts THEN phase'[s] = "streaming" /\ shown'[s][id] = said'[s][id]
              ELSE shown'[s][id] \in {Indeterminate, NoDecision}
    PROVE  NoStaleDecision'
<1> SUFFICES ASSUME NEW t \in Streams, NEW id \in Ids
             PROVE  IF said'[t][id] \in Verdicts
                    THEN phase'[t] = "streaming" /\ shown'[t][id] = said'[t][id]
                    ELSE shown'[t][id] \in {Indeterminate, NoDecision}
  BY DEF NoStaleDecision
<1>1. CASE t = s
  BY <1>1
<1>2. CASE t # s
  BY <1>2 DEF Untouched, NoStaleDecision
<1>. QED BY <1>1, <1>2

(* A stream that has said nothing since holds nothing better than          *)
(* INDETERMINATE, if that is so of what it shows.                          *)
LEMMA SilentIsFresh ==
    ASSUME NoStaleDecision, NEW s \in Streams, Untouched(s), said'[s] = Nothing,
           \A id \in Ids : shown'[s][id] \in {Indeterminate, NoDecision}
    PROVE  NoStaleDecision'
<1>1. \A id \in Ids : said'[s][id] \notin Verdicts
  BY RsocketAssumption DEF Nothing
<1>. QED BY <1>1, OthersStayFresh

LEMMA FailStep ==
    ASSUME StreamsTyped, NoStaleDecision, NEW s \in Streams, Fail(s)
    PROVE  StreamsTyped' /\ NoStaleDecision'
<1>1. /\ shown' = [shown EXCEPT ![s] = Outage] /\ said' = [said EXCEPT ![s] = Nothing]
      /\ phase' = [phase EXCEPT ![s] = "backoff"] /\ on' = [on EXCEPT ![s] = 0]
      /\ seen' = [seen EXCEPT ![s] = FALSE] /\ timer' = [timer EXCEPT ![s] = FALSE]
  BY DEF Fail, EmitFallback
<1>2. StreamsTyped'
  BY <1>1, ValueTypes, RsocketAssumption DEF StreamsTyped, Phases
<1>3. Untouched(s) /\ said'[s] = Nothing /\ shown'[s] = Outage
  BY <1>1 DEF StreamsTyped, Untouched
<1>. QED BY <1>2, <1>3, SilentIsFresh DEF Outage

LEMMA AttemptStep ==
    ASSUME StreamsTyped, NoStaleDecision, NEW s \in Streams, Attempt(s), shown' = shown,
           phase[s] # "streaming"
    PROVE  StreamsTyped' /\ NoStaleDecision'
<1>1. PICK c \in 1..Sockets : on' = [on EXCEPT ![s] = c]
  BY DEF Attempt
<1>2. /\ said' = [said EXCEPT ![s] = Nothing] /\ phase' = [phase EXCEPT ![s] = "awaiting"]
      /\ seen' = [seen EXCEPT ![s] = FALSE] /\ timer' = [timer EXCEPT ![s] = TRUE]
  BY DEF Attempt
<1>3. StreamsTyped'
  <2>1. on' \in [Streams -> 0..Sockets]
    BY <1>1, RsocketAssumption DEF StreamsTyped
  <2>. QED BY <1>2, <2>1, ValueTypes DEF StreamsTyped, Phases
<1>4. Untouched(s) /\ said'[s] = Nothing
  BY <1>2 DEF StreamsTyped, Untouched
<1>5. \A id \in Ids : shown[s][id] \in {Indeterminate, NoDecision}
  BY DEF NoStaleDecision
<1>. QED BY <1>3, <1>4, <1>5, SilentIsFresh

(* Steps in which a stream shows and hears nothing, and does not leave     *)
(* the stream it reads.                                                    *)
LEMMA QuietStep ==
    ASSUME NoStaleDecision, NEW s \in Streams, Untouched(s), shown' = shown, said' = said,
           phase[s] = "streaming" => phase'[s] = "streaming"
    PROVE  NoStaleDecision'
BY OthersStayFresh DEF NoStaleDecision

LEMMA UnsubscribeStep ==
    ASSUME StreamsTyped, NoStaleDecision, NEW s \in Streams, Unsubscribe(s)
    PROVE  StreamsTyped' /\ NoStaleDecision'
<1>1. /\ shown' = [shown EXCEPT ![s] = Nothing] /\ said' = [said EXCEPT ![s] = Nothing]
      /\ phase' = [phase EXCEPT ![s] = "idle"] /\ on' = [on EXCEPT ![s] = 0]
      /\ seen' = [seen EXCEPT ![s] = FALSE] /\ timer' = [timer EXCEPT ![s] = FALSE]
  BY DEF Unsubscribe
<1>2. StreamsTyped'
  BY <1>1, ValueTypes, RsocketAssumption DEF StreamsTyped, Phases
<1>3. Untouched(s) /\ said'[s] = Nothing /\ shown'[s] = Nothing
  BY <1>1 DEF StreamsTyped, Untouched
<1>. QED BY <1>2, <1>3, SilentIsFresh DEF Nothing

(* What arrives arrives on the stream that is read.                        *)
LEMMA ArrivedStep ==
    ASSUME StreamsTyped, NEW s \in Streams, Arrived(s)
    PROVE  /\ phase[s] = "streaming" /\ UNCHANGED <<socketVars, kind, phase, on, pc, uses>>
           /\ seen' \in [Streams -> BOOLEAN] /\ timer' \in [Streams -> BOOLEAN]
BY DEF Arrived, Reading, StreamsTyped

LEMMA DecisionStep ==
    ASSUME StreamsTyped, NoStaleDecision, NEW s \in Streams, DecisionFrame(s)
    PROVE  StreamsTyped' /\ NoStaleDecision'
<1>1. PICK f \in Frames :
          /\ Arrived(s)
          /\ said' = [said EXCEPT ![s] = Updated(said[s], f)]
          /\ shown' = [shown EXCEPT ![s] = Updated(shown[s], Decode(f))]
  BY DEF DecisionFrame
<1>2. phase[s] = "streaming" /\ phase' = phase
  BY <1>1, ArrivedStep
<1>3. f \in [DOMAIN f -> Verdicts \cup {Foreign}]
  BY FrameType
<1>4. /\ said[s] \in [Ids -> Verdicts \cup {Foreign, NoDecision}]
      /\ shown[s] \in [Ids -> Verdicts \cup {NoDecision}]
  BY DEF StreamsTyped
<1>5. Updated(said[s], f) \in [Ids -> Verdicts \cup {Foreign, NoDecision}]
  BY <1>3, <1>4, UpdateType
<1>6. Updated(shown[s], Decode(f)) \in [Ids -> Verdicts \cup {NoDecision}]
  BY <1>4, NormalisedIsVerdict, UpdateType DEF Decode
<1>7. StreamsTyped'
  <2>1. said' \in [Streams -> [Ids -> Verdicts \cup {Foreign, NoDecision}]]
    BY <1>1, <1>5 DEF StreamsTyped
  <2>2. shown' \in [Streams -> [Ids -> Verdicts \cup {NoDecision}]]
    BY <1>1, <1>6 DEF StreamsTyped
  <2>. QED BY <1>1, <2>1, <2>2, ArrivedStep DEF StreamsTyped
<1>8. /\ Untouched(s)
      /\ said'[s] = Updated(said[s], f) /\ shown'[s] = Updated(shown[s], Decode(f))
  BY <1>1, <1>2 DEF StreamsTyped, Untouched
<1>9. ASSUME NEW id \in Ids
      PROVE  IF said'[s][id] \in Verdicts THEN shown'[s][id] = said'[s][id]
             ELSE shown'[s][id] \in {Indeterminate, NoDecision}
  <2>1. CASE id \in DOMAIN f
    <3>1. said'[s][id] = f[id] /\ shown'[s][id] = NormaliseDecision(f[id])
      BY <1>8, <2>1 DEF Updated, Decode
    <3>. QED BY <3>1 DEF NormaliseDecision
  <2>2. CASE id \notin DOMAIN f
    <3>1. said'[s][id] = said[s][id] /\ shown'[s][id] = shown[s][id]
      BY <1>8, <2>2 DEF Updated, Decode
    <3>. QED BY <3>1 DEF NoStaleDecision
  <2>. QED BY <2>1, <2>2
<1>. QED BY <1>2, <1>7, <1>8, <1>9, OthersStayFresh

LEMMA UndecodableStep ==
    ASSUME StreamsTyped, NoStaleDecision, NEW s \in Streams, UndecodableFrame(s)
    PROVE  StreamsTyped' /\ NoStaleDecision'
<1>1. /\ Arrived(s)
      /\ shown' = [shown EXCEPT ![s] = Outage] /\ said' = [said EXCEPT ![s] = Nothing]
  BY DEF UndecodableFrame, EmitFallback
<1>2. StreamsTyped'
  BY <1>1, ArrivedStep, ValueTypes DEF StreamsTyped
<1>3. Untouched(s) /\ said'[s] = Nothing /\ shown'[s] = Outage
  BY <1>1, ArrivedStep DEF StreamsTyped, Untouched
<1>. QED BY <1>2, <1>3, SilentIsFresh DEF Outage

-----------------------------------------------------------------------------
(* The invariant.                                                          *)

LEMMA SocketsUntouched ==
    ASSUME SocketTyped, NoSocketLost, UNCHANGED socketVars
    PROVE  SocketTyped' /\ NoSocketLost'
BY DEF socketVars, SocketTyped, NoSocketLost

LEMMA StreamsUntouched ==
    ASSUME StreamsTyped, NoStaleDecision, UNCHANGED stream
    PROVE  StreamsTyped' /\ NoStaleDecision'
BY DEF stream, StreamsTyped, NoStaleDecision

LEMMA OneShotsUntouched ==
    ASSUME OneShotsTyped, UNCHANGED <<pc, uses>>
    PROVE  OneShotsTyped'
BY DEF OneShotsTyped

(* Steps of one stream.                                                    *)
LEMMA StreamStep ==
    ASSUME IInv, NEW s \in Streams,
           \/ Subscribe(s) \/ BackoffElapses(s) \/ ConnectFails(s) \/ Connected(s)
           \/ RequestStream(s) \/ FirstDecisionTimeout(s) \/ DecisionFrame(s)
           \/ UndecodableFrame(s) \/ StreamEnds(s) \/ Unsubscribe(s)
    PROVE  IInv'
<1>0. SocketTyped /\ StreamsTyped /\ OneShotsTyped /\ NoStaleDecision /\ NoSocketLost
  BY TypeParts DEF IInv
<1>. SUFFICES /\ SocketTyped' /\ NoSocketLost'
              /\ StreamsTyped' /\ NoStaleDecision'
              /\ UNCHANGED <<pc, uses>>
  BY <1>0, TypeParts, OneShotsUntouched DEF IInv
<1>1. CASE Subscribe(s) \/ BackoffElapses(s)
  <2>1. Attempt(s) /\ shown' = shown /\ phase[s] # "streaming" /\ UNCHANGED <<pc, uses>>
    BY <1>1 DEF Subscribe, BackoffElapses
  <2>2. PICK c \in 1..Sockets : Connect(c)
    BY <2>1 DEF Attempt
  <2>. QED BY <1>0, <2>1, <2>2, ConnectKeepsSockets, AttemptStep
<1>2. ASSUME Fail(s)
      PROVE  /\ SocketTyped' /\ NoSocketLost' /\ StreamsTyped' /\ NoStaleDecision'
             /\ UNCHANGED <<pc, uses>>
  <2>1. UNCHANGED <<socketVars, pc, uses>>
    BY <1>2 DEF Fail
  <2>. QED BY <1>0, <1>2, <2>1, SocketsUntouched, FailStep
<1>3. CASE ConnectFails(s) \/ FirstDecisionTimeout(s) \/ StreamEnds(s)
  BY <1>2, <1>3 DEF ConnectFails, FirstDecisionTimeout, StreamEnds
<1>4. ASSUME phase[s] # "streaming", NEW p \in Phases, phase' = [phase EXCEPT ![s] = p],
             timer' \in [Streams -> BOOLEAN], UNCHANGED <<socketVars, on, seen, shown, said, pc, uses>>
      PROVE  /\ SocketTyped' /\ NoSocketLost' /\ StreamsTyped' /\ NoStaleDecision'
             /\ UNCHANGED <<pc, uses>>
  <2>1. StreamsTyped'
    BY <1>0, <1>4 DEF StreamsTyped
  <2>2. Untouched(s)
    BY <1>0, <1>4 DEF StreamsTyped, Untouched
  <2>. QED BY <1>0, <1>4, <2>1, <2>2, SocketsUntouched, QuietStep
<1>5. CASE Connected(s)
  BY <1>0, <1>4, <1>5 DEF Connected, StreamsTyped, Phases
<1>6. CASE RequestStream(s)
  <2>1. CASE status[on[s]] = "dead"
    BY <1>2, <1>6, <2>1 DEF RequestStream
  <2>2. CASE status[on[s]] # "dead"
    <3>1. /\ phase[s] = "metadata" /\ phase' = [phase EXCEPT ![s] = "streaming"]
          /\ timer' = [timer EXCEPT ![s] = timer[s]]
          /\ UNCHANGED <<socketVars, on, seen, shown, said, pc, uses>>
      BY <1>6, <2>2 DEF RequestStream, StillTimed
    <3>2. timer' \in [Streams -> BOOLEAN] /\ "streaming" \in Phases
      BY <1>0, <3>1 DEF StreamsTyped, Phases
    <3>. QED BY <1>4, <3>1, <3>2
  <2>. QED BY <2>1, <2>2
<1>7. CASE DecisionFrame(s)
  <2>1. UNCHANGED <<socketVars, pc, uses>>
    BY <1>0, <1>7, ArrivedStep DEF DecisionFrame
  <2>. QED BY <1>0, <1>7, <2>1, SocketsUntouched, DecisionStep
<1>8. CASE UndecodableFrame(s)
  <2>1. UNCHANGED <<socketVars, pc, uses>>
    BY <1>0, <1>8, ArrivedStep DEF UndecodableFrame
  <2>. QED BY <1>0, <1>8, <2>1, SocketsUntouched, UndecodableStep
<1>9. CASE Unsubscribe(s)
  <2>1. UNCHANGED <<socketVars, pc, uses>>
    BY <1>9 DEF Unsubscribe
  <2>. QED BY <1>0, <1>9, <2>1, SocketsUntouched, UnsubscribeStep
<1>. QED BY <1>1, <1>3, <1>5, <1>6, <1>7, <1>8, <1>9

(* Steps of one caller.                                                    *)
LEMMA OneShotStep ==
    ASSUME IInv, NEW r \in OneShots,
           \/ Call(r) \/ Send(r) \/ SendFails(r) \/ Answered(r) \/ RequestTimeout(r)
           \/ CallAgain(r)
    PROVE  IInv'
<1>0. SocketTyped /\ StreamsTyped /\ OneShotsTyped /\ NoStaleDecision /\ NoSocketLost
  BY TypeParts DEF IInv
<1>1. /\ UNCHANGED stream
      /\ \E to \in {"idle", "awaiting", "pending", "done"} : pc' = [pc EXCEPT ![r] = to]
  BY DEF Call, Send, SendFails, Answered, RequestTimeout, CallAgain, Step
<1>2. SocketTyped' /\ NoSocketLost' /\ uses' \in [OneShots -> 0..Sockets]
  <2>1. CASE Call(r)
    <3>1. PICK c \in 1..Sockets : Connect(c) /\ uses' = [uses EXCEPT ![r] = c]
      BY <2>1 DEF Call
    <3>2. SocketTyped' /\ NoSocketLost'
      BY <1>0, <3>1, ConnectKeepsSockets
    <3>. QED BY <1>0, <3>1, <3>2, RsocketAssumption DEF OneShotsTyped
  <2>2. CASE CallAgain(r)
    <3>1. UNCHANGED socketVars /\ uses' = [uses EXCEPT ![r] = 0]
      BY <2>2 DEF CallAgain
    <3>2. SocketTyped' /\ NoSocketLost'
      BY <1>0, <3>1, SocketsUntouched
    <3>. QED BY <1>0, <3>1, <3>2, RsocketAssumption DEF OneShotsTyped
  <2>3. CASE Send(r) \/ SendFails(r) \/ Answered(r) \/ RequestTimeout(r)
    <3>1. UNCHANGED <<socketVars, uses>>
      BY <2>3 DEF Send, SendFails, Answered, RequestTimeout
    <3>. QED BY <1>0, <3>1, SocketsUntouched DEF OneShotsTyped
  <2>. QED BY <2>1, <2>2, <2>3
<1>3. OneShotsTyped'
  BY <1>0, <1>1, <1>2 DEF OneShotsTyped
<1>4. StreamsTyped' /\ NoStaleDecision'
  BY <1>0, <1>1, StreamsUntouched
<1>. QED BY <1>2, <1>3, <1>4, TypeParts DEF IInv

LEMMA NextInv == IInv /\ [Next]_vars => IInv'
<1> SUFFICES ASSUME IInv, [Next]_vars PROVE IInv'
  OBVIOUS
<1>0. SocketTyped /\ StreamsTyped /\ OneShotsTyped /\ NoStaleDecision /\ NoSocketLost
  BY TypeParts DEF IInv
<1>1. CASE Close \/ \E c \in 1..Sockets : Opens(c) \/ Refused(c) \/ Dies(c) \/ CloseSocket(c)
  <2>1. SocketTyped' /\ NoSocketLost' /\ UNCHANGED <<kind, stream, pc, uses>>
    BY <1>0, <1>1, SocketStepKeepsSockets
  <2>. QED BY <1>0, <2>1, StreamsUntouched, OneShotsUntouched, TypeParts DEF IInv
<1>2. CASE UNCHANGED vars
  BY <1>0, <1>2, SocketsUntouched, StreamsUntouched, OneShotsUntouched, TypeParts DEF IInv, vars
<1>. QED BY <1>1, <1>2, StreamStep, OneShotStep DEF Next

LEMMA Invariance == Spec => []IInv
BY InitInv, NextInv, PTL DEF Spec

(* Streams and callers only use sockets that are numbered, and every frame *)
(* is shown as a decision about the ids of the call.                       *)
THEOREM TypeCorrect == Spec => []TypeOK
<1>1. IInv => TypeOK
  BY DEF IInv
<1>. QED BY Invariance, <1>1, PTL

(* No subscriber holds a decision that is not the last one of the stream   *)
(* it reads, whatever the others do to the socket (requestStreamObs).      *)
THEOREM NoDecisionIsStale == Spec => []NoStaleDecision
<1>1. IInv => NoStaleDecision
  BY DEF IInv
<1>. QED BY Invariance, <1>1, PTL

(* A socket that is open or being opened is cached or waited for by        *)
(* close().                                                                *)
THEOREM EverySocketIsHeld == Spec => []NoSocketLost
<1>1. IInv => NoSocketLost
  BY DEF IInv
<1>. QED BY Invariance, <1>1, PTL

-----------------------------------------------------------------------------
(* The promise of PdpFeed, of a stream.                                    *)

(* What others do, and what the stream does not show, is no step of it.    *)
StandsStill(s) == shown'[s] = shown[s] /\ phase'[s] = phase[s]

LEMMA StillIsStutter ==
    ASSUME StandsStill(TheStream)
    PROVE  UNCHANGED Feed!feedVars
BY DEF StandsStill, Feed!feedVars

LEMMA OthersStandStill ==
    ASSUME StreamsTyped, NEW s \in Streams, NEW t \in Streams, s # t,
           \/ Subscribe(t) \/ BackoffElapses(t) \/ ConnectFails(t) \/ Connected(t)
           \/ RequestStream(t) \/ FirstDecisionTimeout(t) \/ DecisionFrame(t)
           \/ UndecodableFrame(t) \/ StreamEnds(t) \/ Unsubscribe(t)
    PROVE  StandsStill(s)
<1> USE DEF StandsStill, StreamsTyped
<1>1. ASSUME Fail(t) PROVE StandsStill(s)
  BY <1>1 DEF Fail, EmitFallback
<1>2. CASE ConnectFails(t) \/ FirstDecisionTimeout(t) \/ StreamEnds(t)
  BY <1>1, <1>2 DEF ConnectFails, FirstDecisionTimeout, StreamEnds
<1>3. CASE Subscribe(t) \/ BackoffElapses(t)
  BY <1>3 DEF Subscribe, BackoffElapses, Attempt
<1>4. CASE Connected(t)
  BY <1>4 DEF Connected
<1>5. CASE RequestStream(t)
  BY <1>1, <1>5 DEF RequestStream
<1>6. CASE DecisionFrame(t) \/ UndecodableFrame(t)
  BY <1>6 DEF DecisionFrame, UndecodableFrame, EmitFallback, Arrived
<1>7. CASE Unsubscribe(t)
  BY <1>7 DEF Unsubscribe
<1>. QED BY <1>2, <1>3, <1>4, <1>5, <1>6, <1>7

LEMMA FailIsLose ==
    ASSUME StreamsTyped, TheStream \in Streams, Fail(TheStream), phase[TheStream] # "idle"
    PROVE  Feed!Lose
<1>1. shown'[TheStream] = Outage /\ phase'[TheStream] = "backoff"
  BY DEF Fail, EmitFallback, StreamsTyped
<1>. QED BY <1>1 DEF Feed!Lose, Feed!Outage, Outage

(* A frame delivers decisions about some ids (none of the call, and it     *)
(* changes nothing), the fallback for a frame that cannot be decoded is    *)
(* about all of them.                                                      *)
LEMMA FrameIsDeliver ==
    ASSUME StreamsTyped, TheStream \in Streams,
           DecisionFrame(TheStream) \/ UndecodableFrame(TheStream)
    PROVE  Feed!Deliver \/ UNCHANGED Feed!feedVars
<1>1. phase[TheStream] = "streaming" /\ phase' = phase
  BY ArrivedStep DEF DecisionFrame, UndecodableFrame
<1>2. ASSUME NEW S \in (SUBSET Ids) \ {{}}, NEW news \in [S -> Verdicts],
             shown'[TheStream] = [id \in Ids |-> IF id \in S THEN news[id] ELSE shown[TheStream][id]]
      PROVE  Feed!Deliver
  BY <1>1, <1>2 DEF Feed!Deliver
<1>3. CASE DecisionFrame(TheStream)
  <2>1. PICK f \in Frames : shown' = [shown EXCEPT ![TheStream] = Updated(shown[TheStream], Decode(f))]
    BY <1>3 DEF DecisionFrame
  <2>2. Decode(f) \in [DOMAIN f -> Verdicts] /\ DOMAIN Decode(f) = DOMAIN f /\ DOMAIN f \in SUBSET Ids
    BY NormalisedIsVerdict, FrameType DEF Decode
  <2>3. shown'[TheStream]
          = [id \in Ids |-> IF id \in DOMAIN f THEN Decode(f)[id] ELSE shown[TheStream][id]]
    BY <2>1, <2>2 DEF StreamsTyped, Updated
  <2>4. CASE DOMAIN f = {}
    <3>1. shown'[TheStream] = shown[TheStream]
      BY <2>3, <2>4 DEF StreamsTyped
    <3>. QED BY <1>1, <3>1, StillIsStutter DEF StandsStill
  <2>5. CASE DOMAIN f # {}
    BY <1>2, <2>2, <2>3, <2>5
  <2>. QED BY <2>4, <2>5
<1>4. CASE UndecodableFrame(TheStream)
  <2>1. shown'[TheStream] = Outage
    BY <1>4 DEF UndecodableFrame, EmitFallback, StreamsTyped
  <2>2. Outage \in [Ids -> Verdicts]
    BY RsocketAssumption DEF Outage
  <2>3. Outage = [id \in Ids |-> IF id \in Ids THEN Outage[id] ELSE shown[TheStream][id]]
    BY DEF Outage
  <2>. QED BY <1>2, <2>1, <2>2, <2>3, SomeId
<1>. QED BY <1>3, <1>4

LEMMA StepOfFeed ==
    ASSUME IInv, TheStream \in Streams, [Next]_vars
    PROVE  [Feed!Next]_Feed!feedVars
<1> DEFINE s == TheStream
<1>0. StreamsTyped
  BY TypeParts DEF IInv
<1> USE DEF Feed!Next
<1>1. ASSUME UNCHANGED stream PROVE UNCHANGED Feed!feedVars
  BY <1>1, StillIsStutter DEF StandsStill, stream
<1>2. CASE Close \/ \E c \in 1..Sockets : Opens(c) \/ Refused(c) \/ Dies(c) \/ CloseSocket(c)
  BY <1>1, <1>2 DEF Close, Opens, Refused, Dies, CloseSocket
<1>3. CASE \E r \in OneShots : \/ Call(r) \/ Send(r) \/ SendFails(r) \/ Answered(r)
                               \/ RequestTimeout(r) \/ CallAgain(r)
  BY <1>1, <1>3 DEF Call, Send, SendFails, Answered, RequestTimeout, CallAgain, Step
<1>4. ASSUME NEW t \in Streams, t # s,
             \/ Subscribe(t) \/ BackoffElapses(t) \/ ConnectFails(t) \/ Connected(t)
             \/ RequestStream(t) \/ FirstDecisionTimeout(t) \/ DecisionFrame(t)
             \/ UndecodableFrame(t) \/ StreamEnds(t) \/ Unsubscribe(t)
      PROVE  UNCHANGED Feed!feedVars
  BY <1>0, <1>4, OthersStandStill, StillIsStutter
<1>5. CASE Subscribe(s)
  <2>1. phase[s] = "idle" /\ phase'[s] = "awaiting" /\ shown' = shown
    BY <1>0, <1>5 DEF Subscribe, Attempt, StreamsTyped
  <2>. QED BY <2>1 DEF Feed!Subscribe
<1>6. CASE BackoffElapses(s) \/ Connected(s)
  <2>1. /\ phase[s] \in {"backoff", "awaiting"} /\ phase'[s] \in {"awaiting", "metadata"}
        /\ shown' = shown
    BY <1>0, <1>6 DEF BackoffElapses, Connected, Attempt, StreamsTyped
  <2>. QED BY <2>1 DEF Feed!feedVars
<1>7. CASE ConnectFails(s) \/ FirstDecisionTimeout(s) \/ StreamEnds(s)
  BY <1>0, <1>7, FailIsLose DEF ConnectFails, FirstDecisionTimeout, StreamEnds
<1>8. CASE RequestStream(s)
  <2>1. CASE Fail(s)
    BY <1>0, <1>8, <2>1, FailIsLose DEF RequestStream
  <2>2. CASE ~Fail(s)
    <3>1. phase[s] = "metadata" /\ phase'[s] = "streaming" /\ shown' = shown
      BY <1>0, <1>8, <2>2 DEF RequestStream, StreamsTyped
    <3>. QED BY <3>1 DEF Feed!Connect
  <2>. QED BY <2>1, <2>2
<1>9. CASE DecisionFrame(s) \/ UndecodableFrame(s)
  BY <1>0, <1>9, FrameIsDeliver
<1>10. CASE Unsubscribe(s)
  <2>1. phase[s] # "idle" /\ phase'[s] = "idle" /\ shown'[s] = Nothing
    BY <1>0, <1>10 DEF Unsubscribe, StreamsTyped
  <2>. QED BY <2>1 DEF Feed!Unsubscribe, Feed!Nothing, Nothing
<1>11. CASE UNCHANGED vars
  BY <1>1, <1>11 DEF vars
<1>. QED BY <1>2, <1>3, <1>4, <1>5, <1>6, <1>7, <1>8, <1>9, <1>10, <1>11 DEF Next

(* A stream keeps the promise of PdpClient.ts: it never ends by itself,    *)
(* speaks only over a socket that answers it, and tells every loss at once *)
(* and about every id.                                                     *)
THEOREM FeedImplemented == ASSUME Streams # {} PROVE Spec => ImplementsFeed
<1>1. TheStream \in Streams
  BY DEF TheStream
<1>2. Init => Feed!Init
  BY <1>1, SomeId DEF Init, Feed!Init, Feed!Nothing, Nothing
<1>3. IInv /\ [Next]_vars => [Feed!Next]_Feed!feedVars
  BY <1>1, StepOfFeed
<1>. QED BY Invariance, <1>2, <1>3, PTL DEF Spec, ImplementsFeed, Feed!Feed
=============================================================================
