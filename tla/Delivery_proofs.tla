--------------------------- MODULE Delivery_proofs ---------------------------
(* Theorems about Conversation: what the client of a message is sent, and     *)
(* what of it stays in the history and in the media directory.               *)
EXTENDS Queues_proofs

-----------------------------------------------------------------------------
(* The course of a message *)

(* Steps of a message without an event, and with one. *)
Silent(m, st) == /\ stage' = [stage EXCEPT ![m] = st]
                 /\ sent' = sent
Spoken(m, st, e) == /\ stage' = [stage EXCEPT ![m] = st]
                    /\ Send(m, e)

(* What an action can do to stage and sent: every handler's order of awaits   *)
(* and events, without the rest of its work.                                 *)
MessageMove ==
    \/ sent' = sent /\ \A m \in Msgs : stage'[m] = stage[m]
    \/ \E m \in Msgs :
         \/ stage[m] = "idle" /\ Silent(m, "saving")
         \/ stage[m] = "saving" /\ Silent(m, "transcribing")
         \/ stage[m] = "transcribing" /\ \E st \in {"streaming", "crisis"} : Silent(m, st)
         \/ stage[m] = "streaming" /\ Silent(m, "masking")
         \/ stage[m] = "text_done" /\ Silent(m, "synthesizing")
         \/ stage[m] = "synthesizing" /\ Silent(m, "rendering")
         \/ stage[m] \in Pipeline \cup {"saving"} /\ Silent(m, "done")
         \/ stage[m] = "streaming" /\ Spoken(m, "streaming", "token")
         \/ stage[m] \in {"streaming", "masking"} /\ Spoken(m, "text_done", "text_done")
         \/ stage[m] = "rendering" /\ Spoken(m, "closing", "media_ready")
         \/ stage[m] = "crisis" /\ Spoken(m, "closing", "crisis")
         \/ /\ stage[m] \in {"transcribing", "streaming", "text_done", "synthesizing",
                             "rendering"}
            /\ Spoken(m, "closing", "error")
    \/ /\ sent' = sent
       /\ \A m \in Msgs : stage'[m] = IF stage[m] = "idle" THEN "idle" ELSE "done"

(* Every step is one of those. *)
LEMMA MessageMoves ==
    ASSUME ConversationAssumption, TypeOK, [Next]_vars
    PROVE  MessageMove
<1> USE DEF MessageMove, Silent, Spoken, TypeOK, RequestsTypeOK, Goto
<1>0. /\ Msgs \subseteq Requests /\ Msgs \cap Ends = {}
      /\ \A e \in Ends : \A st : stage' = [stage EXCEPT ![e] = st]
             => \A m \in Msgs : stage'[m] = stage[m]
  BY DEF Requests, ConversationAssumption
<1>1. ASSUME NEW s \in Sessions, StartSession(s) \/ GoStale(s) PROVE MessageMove
  BY <1>1 DEF StartSession, GoStale
<1>2. CASE Sweep
  BY <1>2 DEF Sweep
<1>3. ASSUME NEW e \in Ends, NEW s \in Sessions, EndSession(e, s) \/ EndSessionWaits(e, s)
      PROVE  MessageMove
  BY <1>0, <1>3 DEF EndSession, EndSessionWaits
<1>4. ASSUME NEW e \in Ends, EndStep(e) PROVE MessageMove
  BY <1>0, <1>4 DEF EndStep, EndPop, EndClean
<1>5. ASSUME NEW m \in Msgs, NEW s \in Sessions, PostMessage(m, s) PROVE MessageMove
  BY <1>5 DEF PostMessage
<1>6. ASSUME NEW m \in Msgs, SaveAudio(m) \/ SaveAudioFails(m) PROVE MessageMove
  BY <1>6 DEF SaveAudio, SaveAudioFails
<1>7. ASSUME NEW m \in Msgs, Transcribed(m) \/ CrisisFound(m) \/ Forbidden(m)
      PROVE  MessageMove
  BY <1>7 DEF Transcribed, CrisisFound, Forbidden, Running
<1>8. ASSUME NEW m \in Msgs, Crisis(m) \/ ModelFails(m) PROVE MessageMove
  BY <1>8 DEF Crisis, ModelFails, LastEvent, Running
<1>9. ASSUME NEW m \in Msgs, Token(m) PROVE MessageMove
  <2>1. stage[m] = "streaming" /\ stage' = [stage EXCEPT ![m] = "streaming"]
        /\ Send(m, "token")
    BY <1>0, <1>9 DEF Token
  <2> QED
    BY <2>1
<1>10. ASSUME NEW m \in Msgs, StreamEnds(m) \/ Masked(m) PROVE MessageMove
  BY <1>10 DEF StreamEnds, Masked
<1>11. ASSUME NEW m \in Msgs, StartMedia(m) PROVE MessageMove
  BY <1>11 DEF StartMedia
<1>12. ASSUME NEW m \in Msgs, StartMediaFails(m) \/ MediaFails(m) PROVE MessageMove
  BY <1>12 DEF StartMediaFails, MediaFails, LastEvent, Running
<1>13. ASSUME NEW m \in Msgs, Synthesized(m) PROVE MessageMove
  BY <1>13 DEF Synthesized, Running
<1>14. ASSUME NEW m \in Msgs, Rendered(m) PROVE MessageMove
  BY <1>14 DEF Rendered, Running, LastEvent
<1>15. ASSUME NEW m \in Msgs, Close(m) \/ Disconnect(m) PROVE MessageMove
  BY <1>15 DEF Close, Disconnect, Finish, Pipeline
<1>16. ASSUME NEW r \in Runs, RunLeaves(r) \/ \E k \in {GPU, DITTO} : RunAsks(r, k)
       PROVE  MessageMove
  BY <1>16 DEF RunLeaves, RunAsks
<1>17. ASSUME NEW a \in Actors, Granted(a) PROVE MessageMove
  BY <1>17 DEF Granted
<1>18. ASSUME NEW m \in Msgs, NEW k \in Models, StrayEnds(m, k) PROVE MessageMove
  BY <1>18 DEF StrayEnds
<1>19. CASE Restart
  BY <1>0, <1>19 DEF Restart
<1>20. CASE Quiet \/ UNCHANGED vars
  BY <1>20 DEF Quiet, vars
<1> QED
  BY <1>1, <1>2, <1>3, <1>4, <1>5, <1>6, <1>7, <1>8, <1>9, <1>10, <1>11, <1>12, <1>13,
      <1>14, <1>15, <1>16, <1>17, <1>18, <1>19, <1>20 DEF Next, MessageStep

(* An event is the last of what its message has been sent. *)
LEMMA SendEffect ==
    ASSUME TypeOK, NEW m \in Msgs, NEW e \in Events, Send(m, e)
    PROVE  /\ sent'[m] # <<>> /\ sent'[m][Len(sent'[m])] = e
           /\ \A f : WasSent(m, f)' <=> WasSent(m, f) \/ f = e
           /\ \A n \in Msgs \ {m} : sent'[n] = sent[n]
<1>1. sent'[m] = Append(sent[m], e) /\ sent[m] \in Seq(Events)
  BY DEF Send, TypeOK, RequestsTypeOK
<1>2. /\ Len(sent'[m]) = Len(sent[m]) + 1 /\ Len(sent[m]) \in Nat
      /\ DOMAIN sent'[m] = 1 .. Len(sent[m]) + 1
      /\ \A i \in 1 .. Len(sent[m]) : sent'[m][i] = sent[m][i]
      /\ sent'[m][Len(sent[m]) + 1] = e
      /\ DOMAIN sent[m] = 1 .. Len(sent[m])
  BY <1>1
<1>3. \A f : WasSent(m, f)' <=> WasSent(m, f) \/ f = e
  BY <1>2 DEF WasSent
<1>4. \A n \in Msgs \ {m} : sent'[n] = sent[n]
  BY DEF Send, TypeOK, RequestsTypeOK
<1> QED
  BY <1>1, <1>2, <1>3, <1>4

(* What a message has been sent at each point of its handler. *)
Course(m) ==
    /\ stage[m] \in {"idle", "saving", "transcribing", "crisis"} => sent[m] = <<>>
    /\ stage[m] \in {"streaming", "masking"} =>
          /\ Phase(m) \in {"opened", "token"}
          /\ \A e : WasSent(m, e) => e = "token"
    /\ stage[m] \in {"text_done", "synthesizing", "rendering"} =>
          /\ Phase(m) = "text_done" /\ WasSent(m, "text_done")
          /\ \A e : WasSent(m, e) => e \in {"token", "text_done"}
    /\ WasSent(m, "media_ready") => stage[m] \in {"closing", "done"}
    /\ ~(WasSent(m, "crisis") /\ WasSent(m, "text_done"))

StreamInv == \A m \in Msgs : Course(m)

(* Nothing has been sent in the beginning. *)
LEMMA StreamInit == Init => StreamInv
BY DEF Init, StreamInv, Course, WasSent, Requests

(* A message keeps its course when it is not the one that takes the step, and *)
(* when it ends.                                                             *)
LEMMA CourseUntouched ==
    ASSUME NEW n \in Msgs, Course(n), stage'[n] = stage[n] \/ stage'[n] = "done",
           sent'[n] = sent[n]
    PROVE  Course(n)'
<1>1. \A e : WasSent(n, e)' <=> WasSent(n, e)
  BY DEF WasSent
<1>2. stage'[n] = stage[n] => Phase(n)' = Phase(n)
  BY DEF Phase
<1> QED
  BY <1>1, <1>2 DEF Course

(* A step without an event. *)
LEMMA CourseSilent ==
    ASSUME TypeOK, NEW m \in Msgs, Course(m), NEW st, Silent(m, st),
           \/ stage[m] = "idle" /\ st = "saving"
           \/ stage[m] = "saving" /\ st = "transcribing"
           \/ stage[m] = "transcribing" /\ st \in {"streaming", "crisis"}
           \/ stage[m] = "streaming" /\ st = "masking"
           \/ stage[m] = "text_done" /\ st = "synthesizing"
           \/ stage[m] = "synthesizing" /\ st = "rendering"
    PROVE  Course(m)'
<1>1. stage'[m] = st /\ sent'[m] = sent[m]
  BY DEF Silent, TypeOK, RequestsTypeOK, Requests
<1>2. \A e : WasSent(m, e)' <=> WasSent(m, e)
  BY <1>1 DEF WasSent
<1>3. CASE stage[m] \in {"idle", "saving", "transcribing"}
  <2>1. sent[m] = <<>> /\ \A e : ~WasSent(m, e)
    BY <1>3 DEF Course, WasSent
  <2>2. Phase(m)' = "opened"
    BY <1>1, <1>3, <2>1 DEF Phase
  <2> QED
    BY <1>1, <1>2, <1>3, <2>1, <2>2 DEF Course
<1>4. CASE stage[m] \in {"streaming", "text_done", "synthesizing"}
  <2>1. Phase(m)' = Phase(m)
    BY <1>1, <1>4 DEF Phase
  <2> QED
    BY <1>1, <1>2, <1>4, <2>1 DEF Course
<1> QED
  BY <1>3, <1>4

(* A step with one. *)
LEMMA CourseSpoken ==
    ASSUME TypeOK, NEW m \in Msgs, Course(m), NEW st, NEW e \in Events, Spoken(m, st, e),
           \/ stage[m] = "streaming" /\ st = "streaming" /\ e = "token"
           \/ stage[m] \in {"streaming", "masking"} /\ st = "text_done" /\ e = "text_done"
           \/ stage[m] = "rendering" /\ st = "closing" /\ e = "media_ready"
           \/ stage[m] = "crisis" /\ st = "closing" /\ e = "crisis"
           \/ /\ stage[m] \in {"transcribing", "streaming", "text_done", "synthesizing",
                               "rendering"}
              /\ st = "closing" /\ e = "error"
    PROVE  Course(m)'
<1>1. stage'[m] = st
  BY DEF Spoken, TypeOK, RequestsTypeOK, Requests
<1>2. /\ sent'[m] # <<>> /\ sent'[m][Len(sent'[m])] = e
      /\ \A f : WasSent(m, f)' <=> WasSent(m, f) \/ f = e
  BY SendEffect DEF Spoken
<1>3. Phase(m)' = e
  BY <1>1, <1>2 DEF Phase
<1>4. sent[m] = <<>> => \A f : ~WasSent(m, f)
  BY DEF WasSent
<1> QED
  BY <1>1, <1>2, <1>3, <1>4 DEF Course

(* Every step keeps every message on its course. *)
LEMMA StreamStep ==
    ASSUME ConversationAssumption, TypeOK, StreamInv, [Next]_vars
    PROVE  StreamInv'
<1> SUFFICES ASSUME NEW n \in Msgs PROVE Course(n)'
  BY DEF StreamInv
<1>1. Course(n)
  BY DEF StreamInv
<1>2. CASE sent' = sent /\ \A m \in Msgs : stage'[m] = stage[m]
  BY <1>1, <1>2, CourseUntouched
<1>3. CASE /\ sent' = sent
           /\ \A m \in Msgs : stage'[m] = IF stage[m] = "idle" THEN "idle" ELSE "done"
  BY <1>1, <1>3, CourseUntouched
<1>4. ASSUME NEW m \in Msgs, NEW st, Silent(m, st) \/ \E e \in Events : Spoken(m, st, e),
             n # m
      PROVE  Course(n)'
  <2>1. stage'[n] = stage[n] /\ sent'[n] = sent[n]
    BY <1>4, SendEffect DEF Silent, Spoken, TypeOK, RequestsTypeOK, Requests
  <2> QED
    BY <1>1, <2>1, CourseUntouched
<1>5. ASSUME Silent(n, "done") PROVE Course(n)'
  <2>1. stage'[n] = "done" /\ sent'[n] = sent[n]
    BY <1>5 DEF Silent, TypeOK, RequestsTypeOK, Requests
  <2> QED
    BY <1>1, <2>1, CourseUntouched
<1>6. \A e : e \in {"token", "text_done", "media_ready", "crisis", "error"} => e \in Events
  BY DEF Events
<1>7. MessageMove
  BY MessageMoves
<1>8. ASSUME NEW m \in Msgs, n # m,
             \/ \E st : Silent(m, st)
             \/ \E st, e : e \in Events /\ Spoken(m, st, e)
      PROVE  Course(n)'
  BY <1>4, <1>8
<1> QED
  BY <1>1, <1>2, <1>3, <1>5, <1>6, <1>7, <1>8, CourseSilent, CourseSpoken DEF MessageMove
-----------------------------------------------------------------------------
(* The contract of the event stream *)

(* A step of a message is one of its stream in SseStream, or none. *)
LEMMA StepOfStream ==
    ASSUME ConversationAssumption, TypeOK, StreamInv, [Next]_vars
    PROVE  [SSE!Next]_[m \in Msgs |-> Phase(m)]
<1> DEFINE phase == [m \in Msgs |-> Phase(m)]
<1>1. ASSUME sent' = sent, \A m \in Msgs : stage'[m] = stage[m]
      PROVE  phase' = phase
  BY <1>1 DEF Phase
<1>2. ASSUME sent' = sent,
             \A m \in Msgs : stage'[m] = IF stage[m] = "idle" THEN "idle" ELSE "done"
      PROVE  SSE!Close
  <2> DEFINE gone == {m \in Msgs : stage[m] # "idle"}
  <2>1. phase' = [m \in Msgs |-> IF m \in gone THEN "closed" ELSE phase[m]]
    BY <1>2 DEF Phase
  <2> QED
    BY <2>1 DEF SSE!Close
<1>3. ASSUME NEW m \in Msgs, Silent(m, "done") PROVE SSE!Close
  <2>1. phase' = [n \in Msgs |-> IF n \in {m} THEN "closed" ELSE phase[n]]
    BY <1>3 DEF Silent, Phase, TypeOK, RequestsTypeOK, Requests
  <2> QED
    BY <2>1 DEF SSE!Close
<1>4. ASSUME NEW m \in Msgs, NEW st, Silent(m, st), st # "done", stage[m] # "done"
      PROVE  phase' = phase
  BY <1>4 DEF Silent, Phase, TypeOK, RequestsTypeOK, Requests
<1>5. ASSUME NEW m \in Msgs, NEW st, NEW e \in Events, Spoken(m, st, e), st # "done"
      PROVE  phase' = [phase EXCEPT ![m] = e]
  <2>1. stage'[m] = st /\ \A n \in Msgs \ {m} : stage'[n] = stage[n]
    BY <1>5 DEF Spoken, TypeOK, RequestsTypeOK, Requests
  <2>2. /\ sent'[m] # <<>> /\ sent'[m][Len(sent'[m])] = e
        /\ \A n \in Msgs \ {m} : sent'[n] = sent[n]
    BY <1>5, SendEffect DEF Spoken
  <2>3. Phase(m)' = e /\ \A n \in Msgs \ {m} : Phase(n)' = Phase(n)
    BY <1>5, <2>1, <2>2 DEF Phase
  <2> QED
    BY <2>3
<1>6. \A m \in Msgs : phase[m] = Phase(m)
  OBVIOUS
<1>7. \A m \in Msgs :
        /\ stage[m] \in {"transcribing", "crisis"} => Phase(m) = "opened"
        /\ stage[m] \in {"streaming", "masking"} => Phase(m) \in {"opened", "token"}
        /\ stage[m] \in {"text_done", "synthesizing", "rendering"} => Phase(m) = "text_done"
  BY DEF StreamInv, Course, Phase
<1> HIDE DEF phase
<1>8. ASSUME NEW m \in Msgs, stage[m] = "streaming", Spoken(m, "streaming", "token")
      PROVE  SSE!Token(m)
  BY <1>5, <1>6, <1>7, <1>8 DEF SSE!Token, SSE!Deliver, Events, phase
<1>9. ASSUME NEW m \in Msgs, stage[m] \in {"streaming", "masking"},
             Spoken(m, "text_done", "text_done")
      PROVE  SSE!TextDone(m)
  BY <1>5, <1>6, <1>7, <1>9 DEF SSE!TextDone, SSE!Deliver, Events, phase
<1>10. ASSUME NEW m \in Msgs, stage[m] = "rendering", Spoken(m, "closing", "media_ready")
       PROVE  SSE!MediaReady(m)
  BY <1>5, <1>6, <1>7, <1>10 DEF SSE!MediaReady, SSE!Deliver, Events, phase
<1>11. ASSUME NEW m \in Msgs, stage[m] = "crisis", Spoken(m, "closing", "crisis")
       PROVE  SSE!Crisis(m)
  BY <1>5, <1>6, <1>7, <1>11 DEF SSE!Crisis, SSE!Deliver, Events, phase
<1>12. ASSUME NEW m \in Msgs,
              stage[m] \in {"transcribing", "streaming", "text_done", "synthesizing",
                            "rendering"},
              Spoken(m, "closing", "error")
       PROVE  SSE!Error(m)
  BY <1>5, <1>6, <1>7, <1>12 DEF SSE!Error, SSE!Deliver, Events, phase
<1>13. MessageMove
  BY MessageMoves
<1>14. ASSUME NEW m \in Msgs,
              \/ stage[m] = "idle" /\ Silent(m, "saving")
              \/ stage[m] = "saving" /\ Silent(m, "transcribing")
              \/ stage[m] = "transcribing" /\ \E st \in {"streaming", "crisis"} : Silent(m, st)
              \/ stage[m] = "streaming" /\ Silent(m, "masking")
              \/ stage[m] = "text_done" /\ Silent(m, "synthesizing")
              \/ stage[m] = "synthesizing" /\ Silent(m, "rendering")
       PROVE  phase' = phase
  BY <1>4, <1>14
<1>15. SSE!Next \/ phase' = phase
  BY <1>1, <1>2, <1>3, <1>8, <1>9, <1>10, <1>11, <1>12, <1>13, <1>14
     DEF MessageMove, SSE!Next
<1> QED
  BY <1>15 DEF phase

(* The invariants that the course of a message rests on. *)
LEMMA StreamInvariance == Spec => [](TypeOK /\ StreamInv)
<1>1. Init => StreamInv
  BY StreamInit
<1>2. TypeOK /\ StreamInv /\ [Next]_vars => StreamInv'
  BY ConversationAssumption, StreamStep
<1> QED
  BY <1>1, <1>2, TypeCorrect, PTL DEF Spec

(* The event stream of every message keeps the contract of its client: the   *)
(* handler's awaits, failures, cancellations and restarts never send an      *)
(* event after a last one, media before the text or anything with a crisis.  *)
THEOREM KeepsSseContract == Spec => SseContract
<1>1. Init => SSE!Init
  BY DEF Init, SSE!Init, Phase, Requests
<1>2. TypeOK /\ StreamInv /\ [Next]_vars => [SSE!Next]_[m \in Msgs |-> Phase(m)]
  BY ConversationAssumption, StepOfStream
<1> QED
  BY <1>1, <1>2, StreamInvariance, PTL DEF Spec, SSE!Spec, SseContract
-----------------------------------------------------------------------------
(* What is recorded *)

(* A request keeps its session from the moment it has one. *)
LEMMA TargetKept ==
    ASSUME ConversationAssumption, TypeOK, [Next]_vars, NEW a \in Requests, stage[a] # "idle"
    PROVE  target'[a] = target[a] /\ stage'[a] # "idle"
<1> USE DEF TypeOK, RequestsTypeOK, Goto
<1>0. Msgs \subseteq Requests /\ Ends \subseteq Requests
  BY DEF Requests
<1>1. ASSUME NEW s \in Sessions, StartSession(s) \/ GoStale(s)
      PROVE  target'[a] = target[a] /\ stage'[a] # "idle"
  BY <1>1 DEF StartSession, GoStale
<1>2. CASE Sweep
  BY <1>2 DEF Sweep
<1>3. ASSUME NEW e \in Ends, NEW s \in Sessions, EndSession(e, s) \/ EndSessionWaits(e, s)
      PROVE  target'[a] = target[a] /\ stage'[a] # "idle"
  BY <1>0, <1>3 DEF EndSession, EndSessionWaits
<1>4. ASSUME NEW e \in Ends, EndStep(e) PROVE target'[a] = target[a] /\ stage'[a] # "idle"
  BY <1>0, <1>4 DEF EndStep, EndPop, EndClean
<1>5. ASSUME NEW m \in Msgs, NEW s \in Sessions, PostMessage(m, s)
      PROVE  target'[a] = target[a] /\ stage'[a] # "idle"
  BY <1>0, <1>5 DEF PostMessage
<1>6. ASSUME NEW m \in Msgs, MessageStep(m) PROVE target'[a] = target[a] /\ stage'[a] # "idle"
  BY <1>0, <1>6 DEF MessageStep, SaveAudio, SaveAudioFails, Transcribed, CrisisFound, Crisis,
      ModelFails, Token, StreamEnds, Forbidden, Masked, StartMedia, StartMediaFails,
      Synthesized, Rendered, MediaFails, Close, Finish, LastEvent
<1>7. ASSUME NEW m \in Msgs, Disconnect(m) PROVE target'[a] = target[a] /\ stage'[a] # "idle"
  BY <1>0, <1>7 DEF Disconnect, Finish
<1>8. ASSUME NEW r \in Runs, RunLeaves(r) \/ \E k \in {GPU, DITTO} : RunAsks(r, k)
      PROVE  target'[a] = target[a] /\ stage'[a] # "idle"
  BY <1>8 DEF RunLeaves, RunAsks
<1>9. ASSUME NEW x \in Actors, Granted(x) PROVE target'[a] = target[a] /\ stage'[a] # "idle"
  BY <1>9 DEF Granted
<1>10. ASSUME NEW m \in Msgs, NEW k \in Models, StrayEnds(m, k)
       PROVE  target'[a] = target[a] /\ stage'[a] # "idle"
  BY <1>10 DEF StrayEnds
<1>11. CASE Restart
  BY <1>11 DEF Restart
<1>12. CASE Quiet \/ UNCHANGED vars
  BY <1>12 DEF Quiet, vars
<1> QED
  BY <1>1, <1>2, <1>3, <1>4, <1>5, <1>6, <1>7, <1>8, <1>9, <1>10, <1>11, <1>12 DEF Next

(* Only a message whose text has been delivered is recorded, as it goes on to *)
(* its media or fails to.                                                    *)
Records(m) ==
    /\ stage[m] = "text_done"
    /\ history' = [history EXCEPT ![target[m]] = Append(@, m)]
    /\ stage'[m] \in {"synthesizing", "closing"}

(* Every step records that way or not at all. *)
LEMMA HistoryMoves ==
    ASSUME ConversationAssumption, TypeOK, [Next]_vars
    PROVE  history' = history \/ \E m \in Msgs : Records(m)
<1>1. ASSUME NEW s \in Sessions, StartSession(s) \/ GoStale(s) PROVE history' = history
  BY <1>1 DEF StartSession, GoStale
<1>2. CASE Sweep
  BY <1>2 DEF Sweep
<1>3. ASSUME NEW e \in Ends, NEW s \in Sessions, EndSession(e, s) \/ EndSessionWaits(e, s)
      PROVE  history' = history
  BY <1>3 DEF EndSession, EndSessionWaits, sessionVars
<1>4. ASSUME NEW e \in Ends, EndStep(e) PROVE history' = history
  BY <1>4 DEF EndStep, EndPop, EndClean, sessionVars
<1>5. ASSUME NEW m \in Msgs, NEW s \in Sessions, PostMessage(m, s) PROVE history' = history
  BY <1>5 DEF PostMessage, sessionVars
<1>6. ASSUME NEW m \in Msgs, StartMedia(m) \/ StartMediaFails(m) PROVE Records(m)
  BY <1>6 DEF StartMedia, StartMediaFails, Record, Records, Goto, LastEvent, TypeOK,
      RequestsTypeOK, Requests
<1>7. ASSUME NEW m \in Msgs, MessageStep(m), ~(StartMedia(m) \/ StartMediaFails(m))
      PROVE  history' = history
  BY <1>7 DEF MessageStep, SaveAudio, SaveAudioFails, Transcribed, CrisisFound, Crisis,
      ModelFails, Token, StreamEnds, Forbidden, Masked, Synthesized, Rendered, MediaFails,
      Close, sessionVars
<1>8. ASSUME NEW m \in Msgs, Disconnect(m) PROVE history' = history
  BY <1>8 DEF Disconnect, sessionVars
<1>9. ASSUME NEW r \in Runs, RunLeaves(r) \/ \E k \in {GPU, DITTO} : RunAsks(r, k)
      PROVE  history' = history
  BY <1>9 DEF RunLeaves, RunAsks, sessionVars
<1>10. ASSUME NEW x \in Actors, Granted(x) PROVE history' = history
  BY <1>10 DEF Granted, sessionVars
<1>11. ASSUME NEW m \in Msgs, NEW k \in Models, StrayEnds(m, k) PROVE history' = history
  BY <1>11 DEF StrayEnds, sessionVars
<1>12. CASE Restart \/ Quiet \/ UNCHANGED vars
  BY <1>12 DEF Restart, Quiet, vars, sessionVars
<1> QED
  BY <1>1, <1>2, <1>3, <1>4, <1>5, <1>6, <1>7, <1>8, <1>9, <1>10, <1>11, <1>12 DEF Next

(* The stages of a message that has been recorded. *)
Past == {"synthesizing", "rendering", "closing", "done"}

(* A recorded message is past its text and was recorded once. *)
RecordInv ==
    \A s \in Sessions, m \in Msgs : \A i \in DOMAIN history[s] : history[s][i] = m =>
        /\ target[m] = s
        /\ stage[m] \in Past
        /\ WasSent(m, "text_done")
        /\ \A j \in DOMAIN history[s] : history[s][j] = m => j = i

(* What a message has been sent stays sent, and what is past stays past. *)
LEMMA SentStays ==
    ASSUME ConversationAssumption, TypeOK, [Next]_vars, NEW m \in Msgs
    PROVE  /\ \A e : WasSent(m, e) => WasSent(m, e)'
           /\ stage[m] \in Past => stage'[m] \in Past
<1> USE DEF Past
<1>1. sent' = sent => \A e : WasSent(m, e) => WasSent(m, e)'
  BY DEF WasSent
<1>2. ASSUME NEW n \in Msgs, NEW st, Silent(n, st)
      PROVE  sent' = sent /\ stage'[m] = IF n = m THEN st ELSE stage[m]
  BY <1>2 DEF Silent, TypeOK, RequestsTypeOK, Requests
<1>3. ASSUME NEW n \in Msgs, NEW st, NEW e \in Events, Spoken(n, st, e)
      PROVE  /\ \A f : WasSent(m, f) => WasSent(m, f)'
             /\ stage'[m] = IF n = m THEN st ELSE stage[m]
  <2>1. stage'[m] = IF n = m THEN st ELSE stage[m]
    BY <1>3 DEF Spoken, TypeOK, RequestsTypeOK, Requests
  <2>2. CASE n = m
    BY <1>3, <2>1, <2>2, SendEffect DEF Spoken
  <2>3. CASE n # m
    <3>1. sent'[m] = sent[m]
      BY <1>3, <2>3, SendEffect DEF Spoken
    <3> QED
      BY <2>1, <3>1 DEF WasSent
  <2> QED
    BY <2>2, <2>3
<1>4. \A e : e \in {"token", "text_done", "media_ready", "crisis", "error"} => e \in Events
  BY DEF Events
<1>5. MessageMove
  BY MessageMoves
<1> QED
  BY <1>1, <1>2, <1>3, <1>4, <1>5 DEF MessageMove

(* Nothing is recorded in the beginning. *)
LEMMA RecordInit == Init => RecordInv
BY DEF Init, RecordInv

(* Every step keeps the records as they are, or adds one of a message that    *)
(* had none.                                                                *)
LEMMA RecordStep ==
    ASSUME ConversationAssumption, TypeOK, StreamInv, RecordInv, [Next]_vars
    PROVE  RecordInv'
<1>1. ASSUME NEW s \in Sessions, NEW n \in Msgs, NEW i \in DOMAIN history[s],
             history[s][i] = n
      PROVE  /\ target'[n] = s
             /\ stage'[n] \in Past
             /\ WasSent(n, "text_done")'
             /\ \A j \in DOMAIN history[s] : history[s][j] = n => j = i
  <2>1. /\ target[n] = s /\ WasSent(n, "text_done") /\ stage[n] \in Past
        /\ \A j \in DOMAIN history[s] : history[s][j] = n => j = i
    BY <1>1 DEF RecordInv
  <2>2. n \in Requests /\ stage[n] # "idle"
    BY <2>1 DEF Requests, Past
  <2> QED
    BY <2>1, <2>2, TargetKept, SentStays
<1>2. CASE history' = history
  BY <1>1, <1>2 DEF RecordInv
<1>3. ASSUME NEW m \in Msgs, Records(m) PROVE RecordInv'
  <2>1. m \in Requests /\ target[m] \in Sessions /\ target'[m] = target[m]
    BY <1>3, TargetKept DEF Records, TypeOK, RequestsTypeOK, Requests
  <2>2. /\ history[target[m]] \in Seq(Msgs)
        /\ history'[target[m]] = Append(history[target[m]], m)
        /\ \A s \in Sessions : s # target[m] => history'[s] = history[s]
    BY <1>3, <2>1 DEF Records, TypeOK, SessionsTypeOK
  <2>3. \A i \in DOMAIN history[target[m]] : history[target[m]][i] # m
    BY <1>3, <2>1 DEF Records, RecordInv, Past
  <2>4. stage'[m] \in Past /\ WasSent(m, "text_done")'
    BY <1>3, SentStays DEF Records, StreamInv, Course, Past
  <2>5. ASSUME NEW s \in Sessions, s # target[m], NEW n \in Msgs, NEW i \in DOMAIN history'[s],
               history'[s][i] = n
        PROVE  /\ target'[n] = s
               /\ stage'[n] \in Past
               /\ WasSent(n, "text_done")'
               /\ \A j \in DOMAIN history'[s] : history'[s][j] = n => j = i
    BY <1>1, <2>2, <2>5
  <2>6. ASSUME NEW n \in Msgs, NEW i \in DOMAIN history'[target[m]],
               history'[target[m]][i] = n
        PROVE  /\ target'[n] = target[m]
               /\ stage'[n] \in Past
               /\ WasSent(n, "text_done")'
               /\ \A j \in DOMAIN history'[target[m]] : history'[target[m]][j] = n => j = i
    <3> DEFINE h == history[target[m]]
    <3>1. /\ Len(h) \in Nat /\ DOMAIN h = 1 .. Len(h)
          /\ DOMAIN history'[target[m]] = 1 .. Len(h) + 1
          /\ \A j \in 1 .. Len(h) : history'[target[m]][j] = h[j]
          /\ history'[target[m]][Len(h) + 1] = m
      BY <2>2
    <3>2. \A j \in DOMAIN h : h[j] # m
      BY <2>3
    <3>3. ASSUME i \in DOMAIN h, h[i] = n
          PROVE  /\ target'[n] = target[m]
                 /\ stage'[n] \in Past
                 /\ WasSent(n, "text_done")'
                 /\ \A j \in DOMAIN h : h[j] = n => j = i
      BY <1>1, <2>1, <3>3
    <3> HIDE DEF h
    <3>4. CASE i = Len(h) + 1
      <4>1. n = m
        BY <2>6, <3>1, <3>4
      <4> QED
        BY <2>1, <2>4, <3>1, <3>2, <3>4, <4>1
    <3>5. CASE i \in 1 .. Len(h)
      <4>1. i \in DOMAIN h /\ h[i] = n
        BY <2>6, <3>1, <3>5
      <4> QED
        BY <3>1, <3>2, <3>3, <3>5, <4>1
    <3> QED
      BY <3>1, <3>4, <3>5
  <2> QED
    BY <2>1, <2>5, <2>6 DEF RecordInv
<1> QED
  BY <1>2, <1>3, HistoryMoves

(* The invariants that the records rest on. *)
LEMMA RecordInvariance == Spec => [](TypeOK /\ StreamInv /\ RecordInv)
<1>1. Init => RecordInv
  BY RecordInit
<1>2. TypeOK /\ StreamInv /\ RecordInv /\ [Next]_vars => RecordInv'
  BY ConversationAssumption, RecordStep
<1> QED
  BY <1>1, <1>2, StreamInvariance, PTL DEF Spec

(* What is recorded was delivered. *)
LEMMA RecordsDelivered ==
    ASSUME TypeOK, StreamInv, RecordInv
    PROVE  HistoryDelivered
<1> SUFFICES ASSUME NEW s \in Sessions, NEW i \in DOMAIN history[s]
             PROVE  /\ target[history[s][i]] = s
                    /\ WasSent(history[s][i], "text_done")
                    /\ ~WasSent(history[s][i], "crisis")
                    /\ \A j \in DOMAIN history[s] : history[s][j] = history[s][i] => j = i
  BY DEF HistoryDelivered
<1>1. history[s][i] \in Msgs
  BY DEF TypeOK, SessionsTypeOK
<1> QED
  BY <1>1 DEF RecordInv, StreamInv, Course

(* The history holds what its clients were told, and holds it once: a message *)
(* that is cancelled, fails or meets a crisis before its text is delivered    *)
(* leaves no trace in it.                                                    *)
THEOREM HistoryAlwaysDelivered == Spec => []HistoryDelivered
BY RecordsDelivered, RecordInvariance, PTL
-----------------------------------------------------------------------------
(* The lives of sessions *)

(* A session lives once: every step leaves its life, begins it or ends it.   *)
LEMMA LifeMoves ==
    ASSUME TypeOK, [Next]_vars, NEW s \in Sessions
    PROVE  \/ life'[s] = life[s]
           \/ life[s] = "unborn" /\ life'[s] = "live"
           \/ life[s] = "live" /\ life'[s] \in {"ended", "swept", "lost"}
<1> DEFINE Goal == \/ life'[s] = life[s]
                   \/ life[s] = "unborn" /\ life'[s] = "live"
                   \/ life[s] = "live" /\ life'[s] \in {"ended", "swept", "lost"}
<1> USE DEF TypeOK, SessionsTypeOK, Store
<1>1. ASSUME NEW t \in Sessions, StartSession(t) \/ GoStale(t) PROVE Goal
  BY <1>1 DEF StartSession, GoStale
<1>2. CASE Sweep
  BY <1>2 DEF Sweep
<1>3. ASSUME NEW e \in Ends, NEW t \in Sessions, EndSession(e, t) PROVE Goal
  BY <1>3 DEF EndSession
<1>4. ASSUME NEW e \in Ends, NEW t \in Sessions, EndSessionWaits(e, t) PROVE Goal
  BY <1>4 DEF EndSessionWaits, sessionVars
<1>5. ASSUME NEW e \in Ends, EndPop(e) PROVE Goal
  BY <1>5 DEF EndPop
<1>6. ASSUME NEW e \in Ends, EndClean(e) PROVE Goal
  BY <1>6 DEF EndClean, sessionVars
<1>7. ASSUME NEW m \in Msgs, NEW t \in Sessions, PostMessage(m, t) PROVE Goal
  BY <1>7 DEF PostMessage, sessionVars
<1>8. ASSUME NEW m \in Msgs, MessageStep(m) PROVE Goal
  BY <1>8 DEF MessageStep, SaveAudio, SaveAudioFails, Transcribed, CrisisFound, Crisis,
      ModelFails, Token, StreamEnds, Forbidden, Masked, StartMedia, StartMediaFails, Record,
      Synthesized, Rendered, MediaFails, Close, sessionVars
<1>9. ASSUME NEW m \in Msgs, Disconnect(m) PROVE Goal
  BY <1>9 DEF Disconnect, sessionVars
<1>10. ASSUME NEW r \in Runs, RunLeaves(r) \/ \E k \in {GPU, DITTO} : RunAsks(r, k)
       PROVE  Goal
  BY <1>10 DEF RunLeaves, RunAsks, sessionVars
<1>11. ASSUME NEW x \in Actors, Granted(x) PROVE Goal
  BY <1>11 DEF Granted, sessionVars
<1>12. ASSUME NEW m \in Msgs, NEW k \in Models, StrayEnds(m, k) PROVE Goal
  BY <1>12 DEF StrayEnds, sessionVars
<1>13. CASE Restart
  BY <1>13 DEF Restart
<1>14. CASE Quiet \/ UNCHANGED vars
  BY <1>14 DEF Quiet, vars, sessionVars
<1> QED
  BY <1>1, <1>2, <1>3, <1>4, <1>5, <1>6, <1>7, <1>8, <1>9, <1>10, <1>11, <1>12, <1>13, <1>14
     DEF Next, EndStep

(* A request is admitted to a session of the store only.                     *)
LEMMA Admitted ==
    ASSUME ConversationAssumption, TypeOK, [Next]_vars, NEW a \in Requests,
           stage[a] = "idle", stage'[a] # "idle"
    PROVE  target'[a] \in Store
<1> USE DEF TypeOK, RequestsTypeOK, Goto
<1>0. Msgs \subseteq Requests /\ Ends \subseteq Requests
  BY DEF Requests
<1>1. ASSUME NEW s \in Sessions, StartSession(s) \/ GoStale(s) PROVE FALSE
  BY <1>1 DEF StartSession, GoStale
<1>2. CASE Sweep
  BY <1>2 DEF Sweep
<1>3. ASSUME NEW e \in Ends, NEW s \in Sessions, EndSession(e, s) \/ EndSessionWaits(e, s)
      PROVE  target'[a] \in Store
  BY <1>0, <1>3 DEF EndSession, EndSessionWaits
<1>4. ASSUME NEW e \in Ends, EndStep(e) PROVE FALSE
  BY <1>0, <1>4 DEF EndStep, EndPop, EndClean, Running
<1>5. ASSUME NEW m \in Msgs, NEW s \in Sessions, PostMessage(m, s)
      PROVE  target'[a] \in Store
  BY <1>0, <1>5 DEF PostMessage
<1>6. ASSUME NEW m \in Msgs, MessageStep(m) PROVE FALSE
  BY <1>0, <1>6 DEF MessageStep, SaveAudio, SaveAudioFails, Transcribed, CrisisFound, Crisis,
      ModelFails, Token, StreamEnds, Forbidden, Masked, StartMedia, StartMediaFails,
      Synthesized, Rendered, MediaFails, Close, Finish, LastEvent, Running
<1>7. ASSUME NEW m \in Msgs, Disconnect(m) PROVE FALSE
  BY <1>0, <1>7 DEF Disconnect, Finish, Pipeline
<1>8. ASSUME NEW r \in Runs, RunLeaves(r) \/ \E k \in {GPU, DITTO} : RunAsks(r, k)
      PROVE  FALSE
  BY <1>8 DEF RunLeaves, RunAsks
<1>9. ASSUME NEW x \in Actors, Granted(x) PROVE FALSE
  BY <1>9 DEF Granted
<1>10. ASSUME NEW m \in Msgs, NEW k \in Models, StrayEnds(m, k) PROVE FALSE
  BY <1>10 DEF StrayEnds
<1>11. CASE Restart
  BY <1>11 DEF Restart
<1>12. CASE Quiet \/ UNCHANGED vars
  BY <1>12 DEF Quiet, vars
<1> QED
  BY <1>1, <1>2, <1>3, <1>4, <1>5, <1>6, <1>7, <1>8, <1>9, <1>10, <1>11, <1>12 DEF Next

(* A directory is cleaned by an /end that has popped its session.            *)
LEMMA CleansEnded ==
    ASSUME ConversationAssumption, TypeOK, [Next]_vars, NEW e \in Ends,
           stage[e] # "cleaning", stage'[e] = "cleaning"
    PROVE  life'[target'[e]] = "ended"
<1> USE DEF TypeOK, SessionsTypeOK, RequestsTypeOK, Goto
<1>0. Msgs \cap Ends = {} /\ Msgs \subseteq Requests /\ Ends \subseteq Requests
  BY DEF Requests, ConversationAssumption
<1>1. ASSUME NEW s \in Sessions, StartSession(s) \/ GoStale(s) PROVE FALSE
  BY <1>0, <1>1 DEF StartSession, GoStale
<1>2. CASE Sweep
  BY <1>0, <1>2 DEF Sweep
<1>3. ASSUME NEW d \in Ends, NEW s \in Sessions, EndSession(d, s)
      PROVE  life'[target'[e]] = "ended"
  BY <1>0, <1>3 DEF EndSession
<1>4. ASSUME NEW d \in Ends, NEW s \in Sessions, EndSessionWaits(d, s) PROVE FALSE
  BY <1>0, <1>4 DEF EndSessionWaits
<1>5. ASSUME NEW d \in Ends, EndPop(d) PROVE life'[target'[e]] = "ended"
  BY <1>0, <1>5 DEF EndPop, Running
<1>6. ASSUME NEW d \in Ends, EndClean(d) PROVE FALSE
  BY <1>0, <1>6 DEF EndClean
<1>7. ASSUME NEW m \in Msgs, NEW s \in Sessions, PostMessage(m, s) PROVE FALSE
  BY <1>0, <1>7 DEF PostMessage
<1>8. ASSUME NEW m \in Msgs, MessageStep(m) PROVE FALSE
  BY <1>0, <1>8 DEF MessageStep, SaveAudio, SaveAudioFails, Transcribed, CrisisFound, Crisis,
      ModelFails, Token, StreamEnds, Forbidden, Masked, StartMedia, StartMediaFails,
      Synthesized, Rendered, MediaFails, Close, Finish, LastEvent, Running
<1>9. ASSUME NEW m \in Msgs, Disconnect(m) PROVE FALSE
  BY <1>0, <1>9 DEF Disconnect, Finish
<1>10. ASSUME NEW r \in Runs, RunLeaves(r) \/ \E k \in {GPU, DITTO} : RunAsks(r, k)
       PROVE  FALSE
  BY <1>0, <1>10 DEF RunLeaves, RunAsks
<1>11. ASSUME NEW x \in Actors, Granted(x) PROVE FALSE
  BY <1>0, <1>11 DEF Granted
<1>12. ASSUME NEW m \in Msgs, NEW k \in Models, StrayEnds(m, k) PROVE FALSE
  BY <1>0, <1>12 DEF StrayEnds
<1>13. CASE Restart
  BY <1>0, <1>13 DEF Restart
<1>14. CASE Quiet \/ UNCHANGED vars
  BY <1>0, <1>14 DEF Quiet, vars
<1> QED
  BY <1>1, <1>2, <1>3, <1>4, <1>5, <1>6, <1>7, <1>8, <1>9, <1>10, <1>11, <1>12, <1>13, <1>14
     DEF Next, EndStep
-----------------------------------------------------------------------------
(* The media that was announced *)

(* An action can remove an mp4 of a message that is making it or of a session *)
(* that is being cleaned, writes a wav for one that is synthesizing or for    *)
(* abandoned work, abandons the work of a message it ends, and announces     *)
(* media that it leaves in place.                                           *)
MediaMove(n) ==
    /\ n \in mp4 \ mp4' => \/ stage[n] \in {"synthesizing", "rendering"}
                           \/ \E e \in Ends : stage[e] = "cleaning" /\ target[e] = target[n]
    /\ n \in wav' \ wav => stage[n] = "synthesizing" \/ \E k : <<n, k>> \in stray
    /\ \A k : <<n, k>> \in stray' \ stray =>
          stage[n] \in {"transcribing", "streaming", "synthesizing", "rendering"}
          /\ stage'[n] = "done" /\ sent'[n] = sent[n]
    /\ WasSent(n, "media_ready")' =>
          \/ WasSent(n, "media_ready")
          \/ stage[n] = "rendering" /\ n \in mp4' /\ n \notin wav' /\ stray' = stray

(* Every step moves the media of every message like this. *)
LEMMA MediaMoves ==
    ASSUME ConversationAssumption, TypeOK, [Next]_vars, NEW n \in Msgs
    PROVE  MediaMove(n)
<1>0. /\ Msgs \subseteq Requests /\ stray \subseteq Msgs \X Models
      /\ stage \in [Requests -> MsgStages \cup EndStages]
  BY DEF Requests, TypeOK, RequestsTypeOK, FilesTypeOK
<1>a. ASSUME sent' = sent PROVE WasSent(n, "media_ready")' => WasSent(n, "media_ready")
  BY <1>a DEF WasSent
<1>b. ASSUME NEW m \in Msgs, NEW e \in Events \ {"media_ready"}, Send(m, e)
      PROVE  WasSent(n, "media_ready")' => WasSent(n, "media_ready")
  <2>1. CASE n = m
    BY <1>b, <2>1, SendEffect
  <2>2. CASE n # m
    <3>1. sent'[n] = sent[n]
      BY <1>b, <2>2, SendEffect
    <3> QED
      BY <3>1 DEF WasSent
  <2> QED
    BY <2>1, <2>2
<1>c. /\ "token" \in Events \ {"media_ready"} /\ "text_done" \in Events \ {"media_ready"}
      /\ "crisis" \in Events \ {"media_ready"} /\ "error" \in Events \ {"media_ready"}
  BY DEF Events
<1> USE DEF MediaMove
<1>1. ASSUME NEW s \in Sessions, StartSession(s) \/ GoStale(s) PROVE MediaMove(n)
  BY <1>a, <1>1 DEF StartSession, GoStale, fileVars
<1>2. CASE Sweep
  BY <1>a, <1>2 DEF Sweep, fileVars
<1>3. ASSUME NEW e \in Ends, NEW s \in Sessions, EndSession(e, s) \/ EndSessionWaits(e, s)
      PROVE  MediaMove(n)
  BY <1>a, <1>3 DEF EndSession, EndSessionWaits, fileVars
<1>4. ASSUME NEW e \in Ends, EndPop(e) PROVE MediaMove(n)
  BY <1>a, <1>4 DEF EndPop, fileVars
<1>5. ASSUME NEW e \in Ends, EndClean(e) PROVE MediaMove(n)
  BY <1>a, <1>5 DEF EndClean
<1>6. ASSUME NEW m \in Msgs, NEW s \in Sessions, PostMessage(m, s) PROVE MediaMove(n)
  BY <1>a, <1>6 DEF PostMessage, fileVars
<1>7. ASSUME NEW m \in Msgs,
             \/ SaveAudio(m) \/ SaveAudioFails(m) \/ Transcribed(m) \/ CrisisFound(m)
             \/ Forbidden(m) \/ Close(m)
      PROVE  MediaMove(n)
  BY <1>a, <1>7 DEF SaveAudio, SaveAudioFails, Transcribed, CrisisFound, Forbidden, Close,
      fileVars
<1>8. ASSUME NEW m \in Msgs,
             Crisis(m) \/ ModelFails(m) \/ Token(m) \/ StreamEnds(m) \/ Masked(m)
      PROVE  MediaMove(n)
  BY <1>b, <1>c, <1>8 DEF Crisis, ModelFails, Token, StreamEnds, Masked, LastEvent, fileVars
<1>9. ASSUME NEW m \in Msgs, StartMedia(m) PROVE MediaMove(n)
  BY <1>a, <1>9 DEF StartMedia
<1>10. ASSUME NEW m \in Msgs, StartMediaFails(m) PROVE MediaMove(n)
  BY <1>b, <1>c, <1>10 DEF StartMediaFails, LastEvent
<1>11. ASSUME NEW m \in Msgs, Synthesized(m) PROVE MediaMove(n)
  BY <1>a, <1>11 DEF Synthesized, Running
<1>12. ASSUME NEW m \in Msgs, Rendered(m) PROVE MediaMove(n)
  <2>1. stage[m] = "rendering" /\ mp4' = mp4 \cup {m} /\ wav' = wav \ {m} /\ stray' = stray
        /\ Send(m, "media_ready")
    BY <1>12 DEF Rendered, LastEvent, Running
  <2>2. CASE n = m
    BY <2>1, <2>2
  <2>3. CASE n # m
    <3>1. sent'[n] = sent[n]
      BY <2>1, <2>3, SendEffect DEF Events
    <3> QED
      BY <2>1, <3>1 DEF WasSent
  <2> QED
    BY <2>2, <2>3
<1>13. ASSUME NEW m \in Msgs, MediaFails(m) PROVE MediaMove(n)
  BY <1>b, <1>c, <1>13 DEF MediaFails, LastEvent, Running
<1>14. ASSUME NEW m \in Msgs, Disconnect(m) PROVE MediaMove(n)
  <2>1. sent' = sent /\ wav' = wav /\ stage' = [stage EXCEPT ![m] = "done"]
    BY <1>14 DEF Disconnect, Finish, Goto
  <2>2. n \in mp4 \ mp4' => n = m /\ stage[m] = "rendering"
    BY <1>14 DEF Disconnect, Running
  <2>3. \A k : <<n, k>> \in stray' \ stray => n = m /\ k \in Underway(m)
    BY <1>14 DEF Disconnect
  <2>4. ASSUME NEW k, k \in Underway(m)
        PROVE  stage[m] \in {"transcribing", "streaming", "synthesizing", "rendering"}
    BY <2>4 DEF Underway
  <2>5. n = m => stage'[n] = "done"
    BY <1>0, <2>1
  <2> QED
    BY <1>a, <2>1, <2>2, <2>3, <2>4, <2>5
<1>15. ASSUME NEW r \in Runs, RunLeaves(r) \/ \E k \in {GPU, DITTO} : RunAsks(r, k)
       PROVE  MediaMove(n)
  BY <1>a, <1>15 DEF RunLeaves, RunAsks, fileVars
<1>16. ASSUME NEW x \in Actors, Granted(x) PROVE MediaMove(n)
  BY <1>a, <1>16 DEF Granted
<1>17. ASSUME NEW m \in Msgs, NEW k \in Models, StrayEnds(m, k) PROVE MediaMove(n)
  <2>1. /\ sent' = sent /\ <<m, k>> \in stray /\ stray' \subseteq stray
        /\ wav' \subseteq wav \cup {m} /\ mp4 \subseteq mp4'
    BY <1>17 DEF StrayEnds
  <2> QED
    BY <1>a, <2>1
<1>18. CASE Restart
  BY <1>a, <1>18 DEF Restart, fileVars
<1>19. CASE Quiet \/ UNCHANGED vars
  BY <1>a, <1>19 DEF Quiet, vars, fileVars
<1> QED
  BY <1>1, <1>2, <1>3, <1>4, <1>5, <1>6, <1>7, <1>8, <1>9, <1>10, <1>11, <1>12, <1>13, <1>14,
      <1>15, <1>16, <1>17, <1>18, <1>19 DEF Next, EndStep, MessageStep

(* A message that is done stays as it is. *)
LEMMA DoneStays ==
    ASSUME ConversationAssumption, TypeOK, [Next]_vars, NEW m \in Msgs, stage[m] = "done"
    PROVE  stage'[m] = "done" /\ sent'[m] = sent[m]
<1>1. ASSUME NEW n \in Msgs, NEW st, Silent(n, st), n # m
      PROVE  stage'[m] = "done" /\ sent'[m] = sent[m]
  BY <1>1 DEF Silent, TypeOK, RequestsTypeOK, Requests
<1>2. ASSUME NEW n \in Msgs, NEW st, NEW e \in Events, Spoken(n, st, e), n # m
      PROVE  stage'[m] = "done" /\ sent'[m] = sent[m]
  BY <1>2, SendEffect DEF Spoken, TypeOK, RequestsTypeOK, Requests
<1>3. \A e : e \in {"token", "text_done", "media_ready", "crisis", "error"} => e \in Events
  BY DEF Events
<1>4. "done" \notin Pipeline
  BY DEF Pipeline
<1>5. MessageMove
  BY MessageMoves
<1> QED
  BY <1>1, <1>2, <1>3, <1>4, <1>5 DEF MessageMove

(* What the promise of media_ready rests on: a request's session has begun,   *)
(* one that is being cleaned has ended, an announced mp4 of a living session  *)
(* is there, and abandoned work is that of a message that announced nothing. *)
MediaInv ==
    /\ \A a \in Requests : stage[a] # "idle" => life[target[a]] # "unborn"
    /\ \A e \in Ends : stage[e] = "cleaning" => life[target[e]] = "ended"
    /\ \A m \in Msgs : WasSent(m, "media_ready") =>
          (life[target[m]] = "live" => m \in mp4) /\ m \notin wav
    /\ \A m \in Msgs : \A k : <<m, k>> \in stray =>
          stage[m] = "done" /\ ~WasSent(m, "media_ready")

(* Nothing is announced or abandoned in the beginning. *)
LEMMA MediaInit == Init => MediaInv
BY DEF Init, MediaInv, WasSent, Requests

(* Every step keeps what was announced. *)
LEMMA MediaStep ==
    ASSUME ConversationAssumption, TypeOK, StreamInv, MediaInv, [Next]_vars
    PROVE  MediaInv'
<1>0. Msgs \subseteq Requests /\ Ends \subseteq Requests
  BY DEF Requests
<1>1. ASSUME NEW a \in Requests, stage'[a] # "idle" PROVE life'[target'[a]] # "unborn"
  <2>1. CASE stage[a] = "idle"
    <3>1. target'[a] \in Sessions /\ life[target'[a]] = "live"
      BY <1>1, <2>1, Admitted DEF Store
    <3> QED
      BY <3>1, LifeMoves
  <2>2. CASE stage[a] # "idle"
    <3>1. target[a] \in Sessions /\ target'[a] = target[a] /\ life[target[a]] # "unborn"
      BY <2>2, TargetKept DEF MediaInv, TypeOK, RequestsTypeOK
    <3> QED
      BY <3>1, LifeMoves
  <2> QED
    BY <2>1, <2>2
<1>2. ASSUME NEW e \in Ends, stage'[e] = "cleaning" PROVE life'[target'[e]] = "ended"
  <2>1. CASE stage[e] # "cleaning"
    BY <1>2, <2>1, CleansEnded
  <2>2. CASE stage[e] = "cleaning"
    <3>1. target[e] \in Sessions /\ target'[e] = target[e] /\ life[target[e]] = "ended"
      BY <1>0, <2>2, TargetKept DEF MediaInv, TypeOK, RequestsTypeOK
    <3> QED
      BY <3>1, LifeMoves
  <2> QED
    BY <2>1, <2>2
<1>3. ASSUME NEW n \in Msgs, WasSent(n, "media_ready")'
      PROVE  (life'[target'[n]] = "live" => n \in mp4') /\ n \notin wav'
  <2>1. MediaMove(n)
    BY MediaMoves
  <2>2. CASE ~WasSent(n, "media_ready")
    BY <1>3, <2>1, <2>2 DEF MediaMove
  <2>3. CASE WasSent(n, "media_ready")
    <3>1. stage[n] \in {"closing", "done"}
      BY <2>3 DEF StreamInv, Course
    <3>2. /\ target[n] \in Sessions /\ target'[n] = target[n] /\ life[target[n]] # "unborn"
      BY <1>0, <3>1, TargetKept DEF MediaInv, TypeOK, RequestsTypeOK
    <3>3. n \notin wav'
      BY <2>1, <2>3, <3>1 DEF MediaMove, MediaInv
    <3>4. ASSUME life'[target'[n]] = "live" PROVE n \in mp4'
      <4>1. life[target[n]] = "live" /\ n \in mp4
        BY <2>3, <3>2, <3>4, LifeMoves DEF MediaInv
      <4>2. \A e \in Ends : ~(stage[e] = "cleaning" /\ target[e] = target[n])
        BY <4>1 DEF MediaInv
      <4> QED
        BY <2>1, <3>1, <4>1, <4>2 DEF MediaMove
    <3> QED
      BY <3>3, <3>4
  <2> QED
    BY <2>2, <2>3
<1>4. ASSUME NEW n \in Msgs, NEW k, <<n, k>> \in stray'
      PROVE  stage'[n] = "done" /\ ~WasSent(n, "media_ready")'
  <2>1. CASE <<n, k>> \in stray
    <3>1. stage[n] = "done" /\ ~WasSent(n, "media_ready")
      BY <2>1 DEF MediaInv
    <3>2. stage'[n] = "done" /\ sent'[n] = sent[n]
      BY <3>1, DoneStays
    <3> QED
      BY <3>1, <3>2 DEF WasSent
  <2>2. CASE <<n, k>> \notin stray
    <3>1. /\ stage[n] \in {"transcribing", "streaming", "synthesizing", "rendering"}
          /\ stage'[n] = "done" /\ sent'[n] = sent[n]
      BY <1>4, <2>2, MediaMoves DEF MediaMove
    <3>2. ~WasSent(n, "media_ready")
      BY <3>1 DEF StreamInv, Course
    <3> QED
      BY <3>1, <3>2 DEF WasSent
  <2> QED
    BY <2>1, <2>2
<1> QED
  BY <1>1, <1>2, <1>3, <1>4 DEF MediaInv

(* What GET media finds for an announced message of a session that can be     *)
(* looked up is the mp4 it was promised, and no wav: not a disconnect, an     *)
(* abandoned model call that ends late, a failure or a restart takes it away. *)
THEOREM MediaAlwaysPlayable == Spec => []MediaReadyPlayable
<1>1. Init => MediaInv
  BY MediaInit
<1>2. TypeOK /\ StreamInv /\ MediaInv /\ [Next]_vars => MediaInv'
  BY ConversationAssumption, MediaStep
<1>3. TypeOK /\ StreamInv /\ MediaInv => MediaReadyPlayable
  BY DEF MediaInv, MediaReadyPlayable, Store
<1> QED
  BY <1>1, <1>2, <1>3, StreamInvariance, PTL DEF Spec
=============================================================================
