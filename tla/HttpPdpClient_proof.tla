------------------------ MODULE HttpPdpClient_proof -------------------------
(***************************************************************************)
(* Proofs about one streaming call of the HTTP client, for any set of ids  *)
(* and decisions and any limits: what the subscriber holds is never older  *)
(* than the connection, and the call keeps the promise of PdpFeed.         *)
(***************************************************************************)
EXTENDS HttpPdpClient, TLAPS

(* A decision on this connection has cleared the count of failures.        *)
SpeechClearsFailures == (\E id \in ids : said[id] # NoDecision) => failures = 0

IInv == TypeOK /\ NoStaleDecision /\ SpeechClearsFailures

-----------------------------------------------------------------------------
(* Values and frames.                                                      *)

LEMMA ValidatedIsVerdict ==
    ASSUME NEW raw  PROVE Validated(raw) \in Verdicts
BY HttpAssumption DEF Validated

(* A frame is about some of the ids of the call.                           *)
LEMMA FrameType ==
    ASSUME TypeOK, NEW f \in Frames
    PROVE  /\ DOMAIN f \in SUBSET ids
           /\ f \in [DOMAIN f -> Verdicts \cup {Malformed}]
<1>1. PICK S \in Subjects : f \in [S -> Verdicts \cup {Malformed}]
  BY DEF Frames
<1>2. S \in SUBSET ids
  BY DEF Subjects, TypeOK
<1>. QED BY <1>1, <1>2

(* What an update keeps and what it changes.                               *)
LEMMA UpdateType ==
    ASSUME NEW T, NEW old \in [ids -> T], NEW news, \A id \in DOMAIN news : news[id] \in T
    PROVE  Updated(old, news) \in [ids -> T]
BY DEF Updated

-----------------------------------------------------------------------------
(* Type correctness.                                                       *)

LEMMA Bounds ==
    /\ 0 \in 0..(Timeout + Inactivity) /\ 0 \in 0..Timeout
    /\ 0 \in 0..BufferSize /\ 0 \in 0..FailureCap
    /\ 0 \in Nat
BY HttpAssumption

LEMMA NothingType ==
    /\ Nothing \in [ids -> Verdicts \cup {NoDecision}]
    /\ Nothing \in [ids -> Verdicts \cup {Malformed, NoDecision}]
    /\ Seed \in [ids -> Verdicts \cup {NoDecision}]
BY HttpAssumption DEF Nothing, Seed

LEMMA InitInv == Init => IInv
<1> SUFFICES ASSUME Init PROVE IInv
  OBVIOUS
<1> USE DEF Init
<1>1. TypeOK
  <2>1. phase \in Phases /\ {aborted, live, halfOpen} \subseteq BOOLEAN
    BY DEF Phases
  <2>2. /\ silence \in 0..(Timeout + Inactivity) /\ age \in 0..Timeout
        /\ buffered \in 0..BufferSize /\ failures \in 0..FailureCap
    BY Bounds
  <2>. QED BY <2>1, <2>2, NothingType DEF TypeOK
<1>2. NoStaleDecision /\ SpeechClearsFailures
  BY HttpAssumption DEF NoStaleDecision, SpeechClearsFailures, Nothing
<1>. QED BY <1>1, <1>2 DEF IInv

(* A failure: everything of the connection is new, INDETERMINATE is shown. *)
LEMMA FailKeepsInv ==
    ASSUME IInv, Fail
    PROVE  IInv'
<1>1. /\ phase' = "backoff" /\ shown' = Seed /\ failures' = Counted(failures) /\ said' = Nothing
      /\ kind' = kind /\ ids' = ids
      /\ aborted' = FALSE /\ live' = FALSE /\ silence' = 0 /\ age' = 0 /\ buffered' = 0
      /\ halfOpen' = FALSE
  BY DEF Fail, FreshConnection, call
<1>2. Counted(failures) \in 0..FailureCap
  BY HttpAssumption DEF Counted, IInv, TypeOK
<1>3. TypeOK'
  <2>1. phase' \in Phases /\ {aborted, live, halfOpen}' \subseteq BOOLEAN
    BY <1>1 DEF Phases
  <2>2. /\ silence' \in 0..(Timeout + Inactivity) /\ age' \in 0..Timeout
        /\ buffered' \in 0..BufferSize /\ failures' \in 0..FailureCap
    BY <1>1, <1>2, Bounds
  <2>3. kind' \in {"decide", "multi", "all"} /\ ids' \in (SUBSET Ids) \ {{}}
    BY <1>1 DEF IInv, TypeOK
  <2>4. /\ shown' \in [ids' -> Verdicts \cup {NoDecision}]
        /\ said' \in [ids' -> Verdicts \cup {Malformed, NoDecision}]
    BY <1>1, NothingType
  <2>. QED BY <2>1, <2>2, <2>3, <2>4 DEF TypeOK
<1>4. NoStaleDecision' /\ SpeechClearsFailures'
  BY <1>1, HttpAssumption DEF NoStaleDecision, SpeechClearsFailures, Nothing, Seed
<1>. QED BY <1>3, <1>4 DEF IInv

(* A step that says nothing, shows nothing and counts nothing, and does    *)
(* not leave a connection that is read.                                    *)
TimersTyped ==
    /\ {aborted, live, halfOpen} \subseteq BOOLEAN
    /\ silence \in 0..(Timeout + Inactivity) /\ age \in 0..Timeout
    /\ buffered \in 0..BufferSize

LEMMA QuietStepKeepsInv ==
    ASSUME IInv, UNCHANGED <<kind, ids, failures, shown, said>>, TimersTyped',
           phase' \in Phases, phase' = phase \/ phase \notin {"reading", "ended"}
    PROVE  IInv'
<1>1. TypeOK'
  BY DEF IInv, TypeOK, TimersTyped
<1>2. NoStaleDecision'
  BY DEF IInv, NoStaleDecision
<1>3. SpeechClearsFailures'
  BY DEF IInv, SpeechClearsFailures
<1>. QED BY <1>1, <1>2, <1>3 DEF IInv

(* Bytes on a connection that is read.                                     *)
LEMMA BytesType ==
    ASSUME TypeOK, NEW complete \in BOOLEAN, Bytes(complete)
    PROVE  /\ TimersTyped'
           /\ phase = "reading" /\ phase' = "reading"
           /\ kind' = kind /\ ids' = ids
<1>1. /\ buffered < BufferSize /\ live' = TRUE /\ silence' = 0 /\ age' = age
      /\ aborted' = aborted /\ halfOpen' = halfOpen
      /\ buffered' = IF complete THEN 0 ELSE buffered + 1
      /\ phase = "reading" /\ phase' = phase /\ kind' = kind /\ ids' = ids
  BY DEF Bytes, call
<1>2. buffered' \in 0..BufferSize
  BY <1>1, HttpAssumption DEF TypeOK
<1>. QED BY <1>1, <1>2, Bounds DEF TimersTyped, TypeOK

(* A decision: it is shown as it was said, validated, and the count of     *)
(* failures is cleared.                                                    *)
LEMMA TellKeepsInv ==
    ASSUME IInv, NEW f \in Frames, Tell(f), TimersTyped', phase' \in {"reading", "ended"},
           kind' = kind, ids' = ids
    PROVE  IInv'
<1>1. /\ said' = Updated(said, f)
      /\ shown' = Updated(shown, [id \in DOMAIN f |-> Validated(f[id])])
      /\ failures' = 0
  BY DEF Tell
<1>3. f \in [DOMAIN f -> Verdicts \cup {Malformed}]
  BY FrameType DEF IInv
<1>4. TypeOK'
  <2>1. said' \in [ids -> Verdicts \cup {Malformed, NoDecision}]
    BY <1>1, <1>3, UpdateType DEF IInv, TypeOK
  <2>2. shown' \in [ids -> Verdicts \cup {NoDecision}]
    BY <1>1, ValidatedIsVerdict, UpdateType DEF IInv, TypeOK
  <2>3. failures' \in 0..FailureCap /\ phase' \in Phases
    BY <1>1, Bounds DEF Phases
  <2>. QED BY <2>1, <2>2, <2>3 DEF IInv, TypeOK, TimersTyped
<1>5. NoStaleDecision'
  <2> SUFFICES ASSUME NEW id \in ids
               PROVE  IF said'[id] \in Verdicts
                      THEN phase' \in {"reading", "ended"} /\ shown'[id] = said'[id]
                      ELSE shown'[id] \in {Indeterminate, NoDecision}
    BY DEF NoStaleDecision
  <2>1. CASE id \in DOMAIN f
    <3>1. said'[id] = f[id] /\ shown'[id] = Validated(f[id])
      BY <1>1, <2>1 DEF Updated
    <3>. QED BY <3>1 DEF Validated
  <2>2. CASE id \notin DOMAIN f
    <3>1. said'[id] = said[id] /\ shown'[id] = shown[id]
      BY <1>1, <2>2 DEF Updated
    <3>. QED BY <3>1 DEF IInv, NoStaleDecision
  <2>. QED BY <2>1, <2>2
<1>6. SpeechClearsFailures'
  BY <1>1 DEF SpeechClearsFailures
<1>. QED BY <1>4, <1>5, <1>6 DEF IInv

LEMMA NextInv == IInv /\ [Next]_vars => IInv'
<1> SUFFICES ASSUME IInv, [Next]_vars PROVE IInv'
  OBVIOUS
<1> USE DEF call, connection
<1>0. TypeOK /\ failures \in 0..FailureCap /\ TimersTyped
  BY DEF IInv, TypeOK, TimersTyped
<1>1. CASE Subscribe
  BY <1>0, <1>1, QuietStepKeepsInv DEF Subscribe, Phases, TimersTyped
<1>2. CASE Unsubscribe
  <2>1. phase' = "idle" /\ shown' = Nothing /\ said' = Nothing /\ UNCHANGED <<kind, ids, failures>>
    BY <1>2 DEF Unsubscribe, FreshConnection
  <2>2. TypeOK'
    <3>1. TimersTyped'
      BY <1>2, Bounds DEF Unsubscribe, FreshConnection, TimersTyped
    <3>. QED BY <1>0, <2>1, <3>1, NothingType DEF TypeOK, TimersTyped, Phases
  <2>3. NoStaleDecision' /\ SpeechClearsFailures'
    BY <2>1, HttpAssumption DEF NoStaleDecision, SpeechClearsFailures, Nothing
  <2>. QED BY <2>2, <2>3 DEF IInv
<1>3. CASE ResponseOk
  BY <1>0, <1>3, Bounds, QuietStepKeepsInv DEF ResponseOk, Connected, Phases, TimersTyped
<1>4. CASE ResponseNotOk
  BY <1>0, <1>4, Bounds, QuietStepKeepsInv DEF ResponseNotOk, Connected, Phases, TimersTyped
<1>5. CASE NoBody
  BY <1>0, <1>5, FailKeepsInv DEF NoBody
<1>6. CASE ErrorBodyRead
  BY <1>0, <1>6, FailKeepsInv DEF ErrorBodyRead
<1>7. CASE ConnectTimeout
  BY <1>0, <1>7, QuietStepKeepsInv DEF ConnectTimeout, Phases, TimersTyped
<1>8. CASE Rejected
  <2>1. CASE aborted
    BY <1>0, <1>8, <2>1, QuietStepKeepsInv DEF Rejected, Phases, TimersTyped
  <2>2. CASE ~aborted
    BY <1>0, <1>8, <2>2, FailKeepsInv DEF Rejected
  <2>. QED BY <2>1, <2>2
<1>9. CASE PartialLine
  <2>1. TimersTyped' /\ phase = "reading" /\ phase' = "reading" /\ kind' = kind /\ ids' = ids
    BY <1>0, <1>9, BytesType DEF PartialLine
  <2>. QED BY <1>9, <2>1, QuietStepKeepsInv DEF PartialLine, Phases
<1>10. CASE SkippedLine
  <2>1. TimersTyped' /\ phase = "reading" /\ phase' = "reading" /\ kind' = kind /\ ids' = ids
    BY <1>0, <1>10, BytesType DEF SkippedLine
  <2>. QED BY <1>10, <2>1, QuietStepKeepsInv DEF SkippedLine, Phases
<1>11. CASE DecisionFrame
  <2>1. PICK f \in Frames : Tell(f)
    BY <1>11 DEF DecisionFrame
  <2>2. TimersTyped' /\ phase' = "reading" /\ kind' = kind /\ ids' = ids
    BY <1>0, <1>11, BytesType DEF DecisionFrame
  <2>. QED BY <2>1, <2>2, TellKeepsInv
<1>12. CASE BufferOverflow
  BY <1>0, <1>12, FailKeepsInv DEF BufferOverflow
<1>13. CASE StreamEnds \/ EndReported
  BY <1>0, <1>13, FailKeepsInv DEF StreamEnds, EndReported
<1>14. CASE ReadFails
  BY <1>0, <1>14, FailKeepsInv DEF ReadFails
<1>15. CASE LivenessExpires
  BY <1>0, <1>15, FailKeepsInv DEF LivenessExpires
<1>16. CASE BackoffElapses
  BY <1>0, <1>16, QuietStepKeepsInv DEF BackoffElapses, Phases, TimersTyped
<1>17. CASE FallsSilent
  BY <1>0, <1>17, QuietStepKeepsInv DEF FallsSilent, Phases, TimersTyped
<1>18. CASE Tick
  <2>1. /\ UNCHANGED <<kind, ids, failures, shown, said, phase, aborted, live, buffered, halfOpen>>
        /\ \/ age < Timeout /\ age' = age + 1 /\ silence' = silence
           \/ silence < Liveness /\ silence' = silence + 1 /\ age' = age
    BY <1>18 DEF Tick
  <2>2. age' \in 0..Timeout /\ silence' \in 0..(Timeout + Inactivity)
    BY <1>0, <2>1, HttpAssumption DEF TimersTyped, Liveness
  <2>3. TimersTyped' /\ phase' \in Phases
    BY <1>0, <2>1, <2>2 DEF TimersTyped, TypeOK
  <2>. QED BY <2>1, <2>3, QuietStepKeepsInv
<1>19. CASE TrailingDecision
  <2>1. PICK f \in Frames : Tell(f)
    BY <1>19 DEF TrailingDecision
  <2>2. TimersTyped' /\ phase' = "ended" /\ kind' = kind /\ ids' = ids
    BY <1>0, <1>19 DEF TrailingDecision, TimersTyped
  <2>. QED BY <2>1, <2>2, TellKeepsInv
<1>20. CASE UNCHANGED vars
  <2>1. TimersTyped' /\ phase' \in Phases /\ phase' = phase
        /\ UNCHANGED <<kind, ids, failures, shown, said>>
    BY <1>0, <1>20 DEF vars, TimersTyped, TypeOK
  <2>. QED BY <2>1, QuietStepKeepsInv
<1>. QED
  BY <1>1, <1>2, <1>3, <1>4, <1>5, <1>6, <1>7, <1>8, <1>9, <1>10, <1>11, <1>12, <1>13, <1>14,
     <1>15, <1>16, <1>17, <1>18, <1>19, <1>20
  DEF Next

LEMMA Invariance == Spec => []IInv
BY InitInv, NextInv, PTL DEF Spec

(* Times and counts stay within their limits, and subscriber and PDP only  *)
(* name decisions about the ids of the call.                               *)
THEOREM TypeCorrect == Spec => []TypeOK
<1>1. IInv => TypeOK
  BY DEF IInv
<1>. QED BY Invariance, <1>1, PTL

(* The subscriber holds what the PDP last said on the connection being     *)
(* read, or nothing better than INDETERMINATE (streamSse).                 *)
THEOREM NoDecisionIsStale == Spec => []NoStaleDecision
<1>1. IInv => NoStaleDecision
  BY DEF IInv
<1>. QED BY Invariance, <1>1, PTL

-----------------------------------------------------------------------------
(* What a step may do.                                                     *)

LEMMA CallIsFixed == [Next]_vars => kind' = kind /\ ids' = ids
BY DEF Next, vars, call, Subscribe, Unsubscribe, ResponseOk, ResponseNotOk, Connected, NoBody,
       ErrorBodyRead, ConnectTimeout, Rejected, PartialLine, SkippedLine, DecisionFrame, Bytes,
       BufferOverflow, StreamEnds, TrailingDecision, EndReported, ReadFails, LivenessExpires, Fail,
       BackoffElapses, FallsSilent, Tick

(* An attempt that never read anything raises the count when it fails.     *)
LEMMA FailureCounts ==
    ASSUME TypeOK, [Next]_vars, phase \in {"connecting", "refused"}, phase' = "backoff"
    PROVE  failures' = failures + 1 \/ failures = FailureCap
<1>1. Fail => failures' = failures + 1 \/ failures = FailureCap
  BY HttpAssumption DEF Fail, Counted, TypeOK
<1>2. \/ NoBody \/ ErrorBodyRead \/ Rejected
  BY DEF Next, vars, Subscribe, Unsubscribe, ResponseOk, ResponseNotOk, Connected, ConnectTimeout,
         PartialLine, SkippedLine, DecisionFrame, Bytes, BufferOverflow, StreamEnds, TrailingDecision,
         EndReported, ReadFails, LivenessExpires, BackoffElapses, FallsSilent, Tick
<1>. QED BY <1>1, <1>2 DEF NoBody, ErrorBodyRead, Rejected

(* The backoff reflects the current outage: a decision clears the count,   *)
(* and an attempt that failed before any raises it (streamSse).            *)
THEOREM BackoffIsOfThisOutage == Spec => BackoffReflectsOutage
<1>1. ASSUME IInv, IInv', [Next]_vars
      PROVE  [/\ (\E id \in ids : said'[id] # NoDecision) => failures' = 0
              /\ phase \in {"connecting", "refused"} /\ phase' = "backoff"
                    => failures' = failures + 1 \/ failures = FailureCap]_vars
  <2>1. (\E id \in ids : said'[id] # NoDecision) => failures' = 0
    BY <1>1, CallIsFixed DEF IInv, SpeechClearsFailures
  <2>2. phase \in {"connecting", "refused"} /\ phase' = "backoff"
           => failures' = failures + 1 \/ failures = FailureCap
    BY <1>1, FailureCounts DEF IInv
  <2>. QED BY <2>1, <2>2
<1>. QED BY Invariance, <1>1, PTL DEF Spec, BackoffReflectsOutage

-----------------------------------------------------------------------------
(* The promise of PdpFeed.                                                 *)

(* A failure is a loss, wherever the attempt was.                          *)
LEMMA FailIsLose ==
    ASSUME Fail, phase # "idle"
    PROVE  Feed!Lose
BY DEF Fail, call, Feed!Lose, Feed!Outage, Seed

(* A frame delivers what it was validated to, and nothing where it only    *)
(* speaks about ids that the call did not ask for.                         *)
LEMMA TellIsDeliver ==
    ASSUME TypeOK, NEW f \in Frames, Tell(f), phase = "reading", phase' \in {"reading", "ended"},
           ids' = ids
    PROVE  [Feed!Next]_Feed!feedVars
<1>1. shown' = Updated(shown, [id \in DOMAIN f |-> Validated(f[id])])
  BY DEF Tell
<1>2. DOMAIN f \in SUBSET ids
  BY FrameType
<1> DEFINE news == [id \in DOMAIN f |-> Validated(f[id])]
<1>3. news \in [DOMAIN f -> Verdicts]
  BY ValidatedIsVerdict
<1>4. shown' = [id \in ids |-> IF id \in DOMAIN f THEN news[id] ELSE shown[id]]
  BY <1>1 DEF Updated
<1>5. CASE DOMAIN f = {}
  <2>1. shown' = shown
    BY <1>4, <1>5 DEF TypeOK
  <2>. QED BY <2>1 DEF Feed!feedVars
<1>6. CASE DOMAIN f # {}
  <2> HIDE DEF news
  <2>1. Feed!Deliver
    BY <1>2, <1>3, <1>4, <1>6 DEF Feed!Deliver
  <2>. QED BY <2>1 DEF Feed!Next
<1>. QED BY <1>5, <1>6

LEMMA StepOfFeed ==
    ASSUME TypeOK, [Next]_vars
    PROVE  [Feed!Next]_Feed!feedVars
<1> USE DEF Feed!Next, Feed!feedVars, call
<1>1. CASE Subscribe
  BY <1>1 DEF Subscribe, Feed!Subscribe
<1>2. CASE Unsubscribe
  BY <1>2 DEF Unsubscribe, Feed!Unsubscribe, Feed!Nothing, Nothing
<1>3. CASE ResponseOk
  BY <1>3 DEF ResponseOk, Connected, Feed!Connect
<1>4. CASE ResponseNotOk
  BY <1>4 DEF ResponseNotOk, Connected
<1>5. CASE \/ NoBody \/ ErrorBodyRead \/ BufferOverflow \/ StreamEnds \/ EndReported
           \/ ReadFails \/ LivenessExpires
  BY <1>5, FailIsLose
  DEF NoBody, ErrorBodyRead, BufferOverflow, StreamEnds, EndReported, ReadFails, LivenessExpires
<1>6. CASE Rejected
  <2>1. CASE aborted
    BY <1>6, <2>1 DEF Rejected
  <2>2. CASE ~aborted
    BY <1>6, <2>2, FailIsLose DEF Rejected
  <2>. QED BY <2>1, <2>2
<1>7. CASE ConnectTimeout \/ FallsSilent \/ Tick
  BY <1>7 DEF ConnectTimeout, FallsSilent, Tick
<1>8. CASE PartialLine \/ SkippedLine
  BY <1>8 DEF PartialLine, SkippedLine, Bytes
<1>9. CASE DecisionFrame \/ TrailingDecision
  <2>1. PICK f \in Frames : Tell(f)
    BY <1>9 DEF DecisionFrame, TrailingDecision
  <2>2. phase = "reading" /\ phase' \in {"reading", "ended"} /\ ids' = ids
    BY <1>9 DEF DecisionFrame, TrailingDecision, Bytes
  <2>. QED BY <2>1, <2>2, TellIsDeliver
<1>10. CASE BackoffElapses
  BY <1>10 DEF BackoffElapses
<1>11. CASE UNCHANGED vars
  BY <1>11 DEF vars
<1>. QED
  BY <1>1, <1>2, <1>3, <1>4, <1>5, <1>6, <1>7, <1>8, <1>9, <1>10, <1>11 DEF Next

(* The stream keeps the promise of PdpClient.ts: it never ends by itself,  *)
(* speaks only over a connection, and tells every loss at once.            *)
THEOREM FeedImplemented == Spec => ImplementsFeed
<1>1. Init => Feed!Init
  BY DEF Init, Feed!Init, Feed!Nothing, Nothing
<1>2. IInv /\ [Next]_vars => [Feed!Next]_Feed!feedVars
  BY StepOfFeed DEF IInv
<1>. QED BY Invariance, <1>1, <1>2, PTL DEF Spec, ImplementsFeed, Feed!Feed
=============================================================================
