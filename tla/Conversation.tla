---------------------------- MODULE Conversation ----------------------------
(***************************************************************************)
(* Flow B of the service: conversation sessions.                           *)
(*                                                                         *)
(* The session router (routers/sessions.py), the in-memory SessionStore    *)
(* (sessions/store.py), the message pipeline (pipeline/conversation.py)     *)
(* and the two semaphores of the ModelRegistry, run by one asyncio event    *)
(* loop.  An action is the code between two suspension points of a          *)
(* coroutine: what lies between two awaits (or yields) is atomic, anything  *)
(* may happen at the await itself.                                         *)
(*                                                                         *)
(* Simplifications:                                                        *)
(*  - A text is not represented; whether it matches a keyword is a choice   *)
(*    of the environment.  History keeps the message identifiers, one for   *)
(*    the user/assistant pair that is appended in one piece.                *)
(*  - The clock is one bit per session: "stale" says that last_activity_at  *)
(*    has fallen behind the sweeper's cutoff.                               *)
(*  - The temporary file of an upload is not represented.                  *)
(*  - Requests that are refused (404, 409, 503) change nothing and have no  *)
(*    action: the guard of the accepting action is the refusal's negation.  *)
(*  - A free lock is taken in the step that asks for it.  A queued          *)
(*    coroutine is granted the lock in one step (the release that schedules *)
(*    it) and continues in another, as it does in asyncio.                  *)
(*  - Between the handler's return and the first line of the SSE generator    *)
(*    the code awaits only the server's send, where uvicorn does not suspend  *)
(*    unless the connection's write buffer is full: the two are one step.     *)
(*  - rmtree and the unlinking of a file do not fail.                       *)
(*  - Runs of process_persona take part as users of the two semaphores; what *)
(*    else they do is the module Persona, and Service puts both together.   *)
(***************************************************************************)
EXTENDS Naturals, Sequences, FiniteSets

CONSTANTS Sessions,      \* the UUIDs that /start may hand out
          Msgs,          \* the POST /message requests that may arrive
          Ends,          \* the POST /end requests that may arrive
          Runs,          \* runs of process_persona that use the semaphores
          MaxMessages,   \* _MAX_CONCURRENT_MESSAGES
          GPU, DITTO,    \* gpu_semaphore and ditto_semaphore
          Environment,   \* which of "idle", "disconnect", "restart" may happen
          Nobody, Nothing

ASSUME ConversationAssumption ==
    /\ MaxMessages \in Nat
    /\ IsFiniteSet(Msgs)
    /\ Msgs \cap Ends = {}
    /\ GPU # DITTO
    /\ {GPU, DITTO} \cap Sessions = {}
    /\ Runs \cap (Msgs \cup Ends) = {}
    /\ Nobody \notin Msgs \cup Ends \cup Runs
    /\ Nothing \notin Sessions \cup {GPU, DITTO}

Requests == Msgs \cup Ends
Actors == Requests \cup Runs
Resources == Sessions \cup {GPU, DITTO}

VARIABLES
    life,       \* life[s]: where SessionState s is in its life
    stale,      \* the sessions whose last_activity_at is before the cutoff
    history,    \* history[s]: the messages recorded in SessionState.history
    stage,      \* stage[a]: the point of its handler a request is at
    target,     \* target[a]: the session a request is about
    seen,       \* seen[m]: length of the history given to the model for m
    sent,       \* sent[m]: the SSE events sent for m, a run of tokens as one
    active,     \* _active_messages
    owner, wants, ahead,    \* the locks, see AsyncLocks
    speakDir,   \* sessions whose speak/{session_id} directory exists
    wav, mp4,   \* messages whose wav / mp4 is in that directory
    safetyLog,  \* rows of safety_logs: <<message, action>>
    stray       \* work of cancelled messages still running: <<message, model>>

INSTANCE AsyncLocks

sessionVars == <<life, stale, history>>
locks       == <<owner, wants, ahead>>
fileVars    == <<speakDir, wav, mp4>>
vars == <<sessionVars, stage, target, seen, sent, active, locks, fileVars,
          safetyLog, stray>>

(* The stages of a message, in the order of the code.  A message waits for *)
(* the session lock in "transcribing", for the GPU in "synthesizing" and   *)
(* for Ditto in "rendering".                                               *)
Pipeline == {"transcribing", "crisis", "streaming", "masking", "text_done",
             "synthesizing", "rendering", "closing"}
MsgStages == Pipeline \cup {"idle", "saving", "done"}
EndStages == {"idle", "ending", "cleaning", "done"}
Lives     == {"unborn", "live", "ended", "swept", "lost"}
Events    == {"token", "text_done", "media_ready", "crisis", "error"}
Models    == {"llm", "tts", "ditto"}

(* The keys of SessionStore._sessions. *)
Store == {s \in Sessions : life[s] = "live"}

Running(a, st) == stage[a] = st /\ ~Waiting(a)

(* m has been counted in _active_messages and not yet been uncounted. *)
InFlight(m) == stage[m] \in Pipeline \cup {"saving"}

Slots == {m \in Msgs : InFlight(m)}

(* m is inside "async with session.lock". *)
Processing(m) ==
    stage[m] \in Pipeline /\ ~(stage[m] = "transcribing" /\ Waiting(m))

Goto(a, st) == stage' = [stage EXCEPT ![a] = st]
Send(m, e)  == sent' = [sent EXCEPT ![m] = Append(@, e)]
WasSent(m, e) == \E i \in DOMAIN sent[m] : sent[m][i] = e
-----------------------------------------------------------------------------
(* Sessions *)

(* POST /start for a persona that is READY. *)
StartSession(s) ==
    /\ life[s] = "unborn"
    /\ life' = [life EXCEPT ![s] = "live"]
    /\ UNCHANGED <<stale, history, stage, target, seen, sent, active, locks,
                   fileVars, safetyLog, stray>>

(* ttl_seconds pass without last_activity_at being set. *)
GoStale(s) ==
    /\ "idle" \in Environment
    /\ s \in Store \ stale
    /\ stale' = stale \cup {s}
    /\ UNCHANGED <<life, history, stage, target, seen, sent, active, locks,
                   fileVars, safetyLog, stray>>

(* One turn of the sweeper: it only deletes dict entries. *)
Sweep ==
    /\ Store \cap stale # {}
    /\ life' = [s \in Sessions |->
                  IF s \in Store \cap stale THEN "swept" ELSE life[s]]
    /\ UNCHANGED <<stale, history, stage, target, seen, sent, active, locks,
                   fileVars, safetyLog, stray>>

(* Mutant: store.end and rmtree outside the lock. *)
EndSessionUnlocked(e, s) ==
    /\ stage[e] = "idle"
    /\ s \in Store
    /\ target' = [target EXCEPT ![e] = s]
    /\ life' = [life EXCEPT ![s] = "ended"]
    /\ Goto(e, "cleaning")
    /\ UNCHANGED <<stale, history, seen, sent, active, locks, fileVars, safetyLog,
                   stray>>

(* POST /end of a session whose lock is free: it is popped at once, and     *)
(* its speak directory, if there is one, removed with the lock held.        *)
EndSession(e, s) ==
    /\ stage[e] = "idle"
    /\ s \in Store /\ Free(s)
    /\ target' = [target EXCEPT ![e] = s]
    /\ life' = [life EXCEPT ![s] = "ended"]
    /\ IF s \in speakDir
         THEN Goto(e, "cleaning") /\ Acquire(e, s)
         ELSE Goto(e, "done") /\ UNCHANGED locks
    /\ UNCHANGED <<stale, history, seen, sent, active, fileVars, safetyLog, stray>>

(* POST /end of a session whose lock is taken: it waits for the lock. *)
EndSessionWaits(e, s) ==
    /\ stage[e] = "idle"
    /\ s \in Store /\ ~Free(s)
    /\ Goto(e, "ending")
    /\ target' = [target EXCEPT ![e] = s]
    /\ Acquire(e, s)
    /\ UNCHANGED <<sessionVars, seen, sent, active, fileVars, safetyLog, stray>>

(* Under the lock: store.end pops the session.  404 if it is gone.        *)
EndPop(e) ==
    LET s == target[e] IN
    /\ Running(e, "ending")
    /\ life' = IF s \in Store THEN [life EXCEPT ![s] = "ended"] ELSE life
    /\ IF s \in Store /\ s \in speakDir
         THEN Goto(e, "cleaning") /\ UNCHANGED locks
         ELSE Goto(e, "done") /\ Leave(e)
    /\ UNCHANGED <<stale, history, target, seen, sent, active, fileVars,
                   safetyLog, stray>>

(* rmtree of the speak directory, in a thread, with the lock held.        *)
EndClean(e) ==
    LET mine == {m \in Msgs : target[m] = target[e]} IN
    /\ stage[e] = "cleaning"
    /\ speakDir' = speakDir \ {target[e]}
    /\ wav' = wav \ mine
    /\ mp4' = mp4 \ mine
    /\ Goto(e, "done")
    /\ Leave(e)
    /\ UNCHANGED <<sessionVars, target, seen, sent, active, safetyLog,
                   stray>>
-----------------------------------------------------------------------------
(* Messages: admission *)

(* POST /message: lookup, 503 check and count, then the first await.       *)
PostMessage(m, s) ==
    /\ stage[m] = "idle"
    /\ s \in Store
    /\ active < MaxMessages
    /\ active' = active + 1
    /\ Goto(m, "saving")
    /\ target' = [target EXCEPT ![m] = s]
    /\ UNCHANGED <<sessionVars, seen, sent, locks, fileVars, safetyLog, stray>>

(* Mutant: no "async with session.lock". *)
SaveAudioUnlocked(m) ==
    /\ stage[m] = "saving"
    /\ Goto(m, "transcribing")
    /\ UNCHANGED <<sessionVars, target, seen, sent, active, locks, fileVars,
                   safetyLog, stray>>

(* The upload is stored; the generator starts and asks for session.lock.  *)
SaveAudio(m) ==
    /\ stage[m] = "saving"
    /\ Goto(m, "transcribing")
    /\ Acquire(m, target[m])
    /\ UNCHANGED <<sessionVars, target, seen, sent, active, fileVars,
                   safetyLog, stray>>

(* Mutant: the count is restored by the except clause and by a finally. *)
SaveAudioFailsTwice(m) ==
    /\ stage[m] = "saving"
    /\ Goto(m, "done")
    /\ active' = active - 2
    /\ UNCHANGED <<sessionVars, target, seen, sent, locks, fileVars, safetyLog,
                   stray>>

(* The upload fails: the count is restored.                                *)
SaveAudioFails(m) ==
    /\ stage[m] = "saving"
    /\ Goto(m, "done")
    /\ active' = active - 1
    /\ UNCHANGED <<sessionVars, target, seen, sent, locks, fileVars,
                   safetyLog, stray>>

(* Mutants: the count, or the lock, is not given back. *)
FinishCounted(m) ==
    /\ Goto(m, "done")
    /\ seen' = [seen EXCEPT ![m] = 0]
    /\ UNCHANGED active
    /\ Leave(m)
FinishLocked(m) ==
    /\ Goto(m, "done")
    /\ seen' = [seen EXCEPT ![m] = 0]
    /\ active' = active - 1
    /\ UNCHANGED locks

(* The generator's locals are gone, the count restored, the lock released. *)
Finish(m) ==
    /\ Goto(m, "done")
    /\ seen' = [seen EXCEPT ![m] = 0]
    /\ active' = active - 1
    /\ Leave(m)
-----------------------------------------------------------------------------
(* Messages: process_message *)

(* The directories that the model calls of the messages in ms make for their *)
(* files when they begin.                                                  *)
Made(ms) == {target[m] : m \in {x \in ms : stage[x] \in {"synthesizing", "rendering"}}}

(* A lock or semaphore an actor is queued for is granted to it; with a       *)
(* semaphore, a message enters its model call.                             *)
Granted(a) ==
    /\ Wake(a)
    /\ speakDir' = speakDir \cup Made({a} \cap Msgs)
    /\ UNCHANGED <<sessionVars, stage, target, seen, sent, active, wav, mp4, safetyLog,
                   stray>>

(* transcribe returns a text without a crisis keyword: the history is       *)
(* trimmed and copied before the stream starts.                             *)
Transcribed(m) ==
    /\ Running(m, "transcribing")
    /\ Goto(m, "streaming")
    /\ seen' = [seen EXCEPT ![m] = Len(history[target[m]])]
    /\ UNCHANGED <<sessionVars, target, sent, active, locks, fileVars, safetyLog,
                   stray>>

(* transcribe returns and check_crisis matches: the event is to be logged. *)
CrisisFound(m) ==
    /\ Running(m, "transcribing")
    /\ Goto(m, "crisis")
    /\ UNCHANGED <<sessionVars, target, seen, sent, active, locks, fileVars,
                   safetyLog, stray>>

(* An event after which the generator has nothing more to do. *)
LastEvent(m, e) == Send(m, e) /\ Goto(m, "closing")

(* Mutant: the except clause sends its event but does not return. *)
ModelFailsOn(m) ==
    /\ stage[m] = "streaming"
    /\ Send(m, "error")
    /\ Goto(m, "masking")
    /\ UNCHANGED <<sessionVars, target, seen, active, locks, fileVars, safetyLog,
                   stray>>

(* transcribe or stream_response raises. *)
ModelFails(m) ==
    /\ Running(m, "transcribing") \/ stage[m] = "streaming"
    /\ LastEvent(m, "error")
    /\ UNCHANGED <<sessionVars, target, seen, active, locks, fileVars, safetyLog, stray>>

(* insert_safety_log is best effort: its failure is logged and ignored. *)
LogSafety(m, action) == safetyLog' \in {safetyLog, safetyLog \cup {<<m, action>>}}

(* Mutant: the crisis branch does not return. *)
CrisisOn(m) ==
    /\ stage[m] = "crisis"
    /\ LogSafety(m, "block")
    /\ Send(m, "crisis")
    /\ Goto(m, "streaming")
    /\ UNCHANGED <<sessionVars, target, seen, active, locks, fileVars, stray>>

Crisis(m) ==
    /\ stage[m] = "crisis"
    /\ LogSafety(m, "block")
    /\ LastEvent(m, "crisis")
    /\ UNCHANGED <<sessionVars, target, seen, active, locks, fileVars, stray>>

(* The tokens of one stream are one event here. *)
Token(m) ==
    /\ stage[m] = "streaming"
    /\ ~WasSent(m, "token")
    /\ Send(m, "token")
    /\ UNCHANGED <<sessionVars, stage, target, seen, active, locks, fileVars, safetyLog, stray>>

(* Mutant: the session lock is released before the history is updated. *)
StreamEndsUnlocked(m) ==
    /\ stage[m] = "streaming"
    /\ Goto(m, "text_done")
    /\ Send(m, "text_done")
    /\ Leave(m)
    /\ UNCHANGED <<sessionVars, target, seen, active, fileVars, safetyLog, stray>>

(* The stream is exhausted and filter_response finds nothing. *)
StreamEnds(m) ==
    /\ stage[m] = "streaming"
    /\ Goto(m, "text_done")
    /\ Send(m, "text_done")
    /\ UNCHANGED <<sessionVars, target, seen, active, locks, fileVars, safetyLog,
                   stray>>

(* The stream is exhausted and filter_response finds a forbidden topic: the *)
(* event is logged before the fallback text is sent.                        *)
Forbidden(m) ==
    /\ stage[m] = "streaming"
    /\ Goto(m, "masking")
    /\ UNCHANGED <<sessionVars, target, seen, sent, active, locks, fileVars,
                   safetyLog, stray>>

Masked(m) ==
    /\ stage[m] = "masking"
    /\ LogSafety(m, "mask")
    /\ Goto(m, "text_done")
    /\ Send(m, "text_done")
    /\ UNCHANGED <<sessionVars, target, seen, active, locks, fileVars, stray>>

(* The two MessageRecords and last_activity_at, on the SessionState that   *)
(* the request holds, whether or not the store still has it.               *)
Record(m) ==
    /\ history' = [history EXCEPT ![target[m]] = Append(@, m)]
    /\ stale' = stale \ {target[m]}
    /\ UNCHANGED life

(* The client took text_done: the history is updated, the speak directory  *)
(* made, the voice reference found, and the GPU asked for.                 *)
StartMedia(m) ==
    /\ stage[m] = "text_done"
    /\ Record(m)
    /\ speakDir' = speakDir \cup {target[m]}
    /\ Goto(m, "synthesizing")
    /\ Acquire(m, GPU)
    /\ UNCHANGED <<target, seen, sent, active, wav, mp4, safetyLog, stray>>

(* The same, with mkdir failing or the voice reference missing. *)
StartMediaFails(m) ==
    /\ stage[m] = "text_done"
    /\ Record(m)
    /\ speakDir' \in {speakDir, speakDir \cup {target[m]}}
    /\ LastEvent(m, "error")
    /\ UNCHANGED <<target, seen, active, locks, wav, mp4, safetyLog,
                   stray>>

(* The wav is written and a photo found; Ditto is asked for. *)
Synthesized(m) ==
    /\ Running(m, "synthesizing")
    /\ target[m] \in speakDir
    /\ wav' = wav \cup {m}
    /\ Goto(m, "rendering")
    /\ HandOver(m, {GPU}, DITTO)
    /\ UNCHANGED <<sessionVars, target, seen, sent, active, speakDir, mp4,
                   safetyLog, stray>>

(* Mutant: the clean-up of the failure branch runs on success too. *)
RenderedCleaned(m) ==
    /\ Running(m, "rendering")
    /\ target[m] \in speakDir
    /\ mp4' = mp4 \ {m}
    /\ wav' = wav \ {m}
    /\ Release(DITTO)
    /\ LastEvent(m, "media_ready")
    /\ UNCHANGED <<sessionVars, target, seen, active, speakDir, safetyLog, stray>>

(* render_speak produced the mp4; the wav is unlinked. *)
Rendered(m) ==
    /\ Running(m, "rendering")
    /\ target[m] \in speakDir
    /\ mp4' = mp4 \cup {m}
    /\ wav' = wav \ {m}
    /\ Release(DITTO)
    /\ LastEvent(m, "media_ready")
    /\ UNCHANGED <<sessionVars, target, seen, active, speakDir, safetyLog,
                   stray>>

(* Mutant: acquire and release instead of "async with": the failure keeps  *)
(* the permit.                                                             *)
MediaFailsHolding(m) ==
    /\ Running(m, "synthesizing") \/ Running(m, "rendering")
    /\ wav' = wav \ {m}
    /\ mp4' = mp4 \ {m}
    /\ LastEvent(m, "error")
    /\ UNCHANGED <<sessionVars, target, seen, active, locks, speakDir, safetyLog,
                   stray>>

(* TTS or Ditto raises, or there is no photo: both files are unlinked. *)
MediaFails(m) ==
    /\ \/ Running(m, "synthesizing") /\ Release(GPU)
       \/ Running(m, "rendering") /\ Release(DITTO)
    /\ wav' = wav \ {m}
    /\ mp4' = mp4 \ {m}
    /\ LastEvent(m, "error")
    /\ UNCHANGED <<sessionVars, target, seen, active, speakDir, safetyLog,
                   stray>>

(* The client took the last event and the generator returns. *)
Close(m) ==
    /\ stage[m] = "closing"
    /\ Finish(m)
    /\ UNCHANGED <<sessionVars, target, sent, fileVars, safetyLog, stray>>
-----------------------------------------------------------------------------
(* Runs of process_persona *)

Held(r) == {x \in Resources : owner[x] = r}

(* A run leaves the semaphore it holds, if any, and enters the one of its    *)
(* next step: the GPU for the transcript, Ditto for each clip.             *)
RunAsks(r, k) ==
    /\ ~Waiting(r)
    /\ HandOver(r, Held(r), k)
    /\ UNCHANGED <<sessionVars, stage, target, seen, sent, active, fileVars, safetyLog,
                   stray>>

(* A run leaves its semaphore, because the call returned or raised. *)
RunLeaves(r) ==
    /\ Held(r) # {}
    /\ Leave(r)
    /\ UNCHANGED <<sessionVars, stage, target, seen, sent, active, fileVars, safetyLog,
                   stray>>
-----------------------------------------------------------------------------
(* Clients that go away, cancelled work, restarts *)

(* The model call m is waiting for, if any. *)
Underway(m) ==
    IF Waiting(m) THEN {}
    ELSE CASE stage[m] \in {"transcribing", "streaming"} -> {"llm"}
           [] stage[m] = "synthesizing" -> {"tts"}
           [] stage[m] = "rendering"    -> {"ditto"}
           [] OTHER                     -> {}

(* The SSE client disconnects: the generator is cancelled at the await (or *)
(* closed at the yield) it is at.  The model's thread or subprocess is not *)
(* stopped by that.  render_speak unlinks its target on cancellation.      *)
Disconnect(m) ==
    /\ "disconnect" \in Environment
    /\ stage[m] \in Pipeline
    /\ Finish(m)
    /\ stray' = stray \cup {<<m, k>> : k \in Underway(m)}
    /\ mp4' = IF Running(m, "rendering") THEN mp4 \ {m} ELSE mp4
    /\ UNCHANGED <<sessionVars, target, sent, speakDir, wav, safetyLog>>

(* Abandoned work ends, leaving its file if the directory is still there. *)
StrayEnds(m, k) ==
    LET writes == {m} \cap {x \in Msgs : target[x] \in speakDir} IN
    /\ <<m, k>> \in stray
    /\ stray' = stray \ {<<m, k>>}
    /\ wav' \in {wav, IF k = "tts" THEN wav \cup writes ELSE wav}
    /\ mp4' \in {mp4, IF k = "ditto" THEN mp4 \cup writes ELSE mp4}
    /\ UNCHANGED <<sessionVars, stage, target, seen, sent, active, locks,
                   speakDir, safetyLog>>

(* The worker restarts: memory is gone, files and rows stay. *)
Restart ==
    /\ "restart" \in Environment
    /\ life' = [s \in Sessions |-> IF s \in Store THEN "lost" ELSE life[s]]
    /\ stage' = [a \in Requests |-> IF stage[a] = "idle" THEN "idle" ELSE "done"]
    /\ active' = 0
    /\ seen' = [m \in Msgs |-> 0]
    /\ owner' = [r \in Resources |-> Nobody]
    /\ wants' = [a \in Actors |-> Nothing]
    /\ ahead' = [a \in Actors |-> {}]
    /\ stray' = {}
    /\ UNCHANGED <<stale, history, target, sent, fileVars, safetyLog>>
-----------------------------------------------------------------------------
Init ==
    /\ life = [s \in Sessions |-> "unborn"]
    /\ stale = {}
    /\ history = [s \in Sessions |-> <<>>]
    /\ stage = [a \in Requests |-> "idle"]
    /\ target = [a \in Requests |-> Nothing]
    /\ seen = [m \in Msgs |-> 0]
    /\ sent = [m \in Msgs |-> <<>>]
    /\ active = 0
    /\ LocksInit
    /\ speakDir = {} /\ wav = {} /\ mp4 = {}
    /\ safetyLog = {}
    /\ stray = {}

(* The steps with which a message makes progress towards its end. *)
MessageStep(m) ==
    \/ SaveAudio(m) \/ SaveAudioFails(m)
    \/ Transcribed(m) \/ CrisisFound(m) \/ Crisis(m) \/ ModelFails(m)
    \/ Token(m) \/ StreamEnds(m) \/ Forbidden(m) \/ Masked(m)
    \/ StartMedia(m) \/ StartMediaFails(m)
    \/ Synthesized(m) \/ Rendered(m) \/ MediaFails(m)
    \/ Close(m)

EndStep(e) == EndPop(e) \/ EndClean(e)

(* No request is being served: the service may stay as it is.  Any other   *)
(* state without a successor is a deadlock.                                *)
Quiet ==
    /\ \A a \in Requests : stage[a] \in {"idle", "done"}
    /\ UNCHANGED vars

Next ==
    \/ \E s \in Sessions : StartSession(s) \/ GoStale(s)
    \/ Sweep
    \/ \E e \in Ends : EndStep(e)
    \/ \E e \in Ends, s \in Sessions : EndSession(e, s) \/ EndSessionWaits(e, s)
    \/ \E m \in Msgs : MessageStep(m) \/ Disconnect(m)
    \/ \E m \in Msgs, s \in Sessions : PostMessage(m, s)
    \/ \E r \in Runs : RunLeaves(r) \/ \E k \in {GPU, DITTO} : RunAsks(r, k)
    \/ \E a \in Actors : Granted(a)
    \/ \E m \in Msgs, k \in Models : StrayEnds(m, k)
    \/ Restart
    \/ Quiet

(* The event loop runs every coroutine that can run; a model call returns  *)
(* or raises; a client takes the events it is sent or disconnects; the     *)
(* sweeper's loop never ends.                                              *)
Fairness ==
    /\ \A m \in Msgs : WF_vars(MessageStep(m))
    /\ \A e \in Ends : WF_vars(EndStep(e))
    /\ \A a \in Actors : WF_vars(Granted(a))
    /\ \A r \in Runs : WF_vars(RunLeaves(r))
    /\ WF_vars(Sweep)

Spec == Init /\ [][Next]_vars
FairSpec == Spec /\ Fairness
-----------------------------------------------------------------------------
(* Properties *)

SessionsTypeOK ==
    /\ life \in [Sessions -> Lives]
    /\ stale \subseteq Sessions
    /\ history \in [Sessions -> Seq(Msgs)]

RequestsTypeOK ==
    /\ stage \in [Requests -> MsgStages \cup EndStages]
    /\ \A m \in Msgs : stage[m] \in MsgStages
    /\ \A e \in Ends : stage[e] \in EndStages
    /\ target \in [Requests -> Sessions \cup {Nothing}]
    /\ \A a \in Requests : stage[a] # "idle" => target[a] \in Sessions
    /\ seen \in [Msgs -> Nat]
    /\ sent \in [Msgs -> Seq(Events)]

FilesTypeOK ==
    /\ speakDir \subseteq Sessions
    /\ wav \subseteq Msgs /\ mp4 \subseteq Msgs
    /\ safetyLog \subseteq Msgs \X {"block", "mask"}
    /\ stray \subseteq Msgs \X Models

TypeOK ==
    /\ SessionsTypeOK
    /\ RequestsTypeOK
    /\ active \in Nat
    /\ LocksTypeOK
    /\ FilesTypeOK

(* The count behind the 503 is exact: _active_messages is the number of     *)
(* messages that were admitted and have not ended, however they ended       *)
(* (finished, failed or disconnected at any await), and it is in bounds.    *)
SlotsExact ==
    /\ active = Cardinality(Slots)
    /\ active <= MaxMessages

(* The locks do what their comments say (schemas.py:28, registry.py:28) :   *)
(* a message in the pipeline owns its session's lock, so two messages of    *)
(* one session never are in it together and /end neither pops nor deletes   *)
(* while one is; synthesis owns the GPU permit and rendering the Ditto one. *)
Serialised ==
    /\ \A m \in Msgs :
         /\ Processing(m) => owner[target[m]] = m
         /\ Running(m, "synthesizing") => owner[GPU] = m
         /\ Running(m, "rendering") => owner[DITTO] = m
    /\ \A e \in Ends :
         Running(e, "ending") \/ stage[e] = "cleaning" => owner[target[e]] = e

(* Nothing is held by a request that is no longer in the block it guards,   *)
(* or waited for by one that is elsewhere: a disconnect or a failure at any *)
(* await gives every permit and every place in a queue back.  A run waits   *)
(* for one semaphore without holding the other.                             *)
NoPermitLeaked ==
    /\ owner[GPU] \in Requests => Running(owner[GPU], "synthesizing")
    /\ owner[DITTO] \in Requests => Running(owner[DITTO], "rendering")
    /\ \A s \in Sessions : owner[s] # Nobody =>
         /\ owner[s] \in Requests
         /\ target[owner[s]] = s
         /\ stage[owner[s]] \in Pipeline \cup {"ending", "cleaning"}
    /\ \A r \in Runs :
         /\ wants[r] \in {GPU, DITTO, Nothing}
         /\ owner[GPU] = r => ~Waiting(r) /\ owner[DITTO] # r
         /\ owner[DITTO] = r => ~Waiting(r)
    /\ \A a \in Requests : Waiting(a) =>
         \/ stage[a] \in {"transcribing", "ending"} /\ wants[a] = target[a]
         \/ stage[a] = "synthesizing" /\ wants[a] = GPU
         \/ stage[a] = "rendering" /\ wants[a] = DITTO

(* b is not held up by anybody: it waits for nothing that is taken.          *)
Unblocked(b) == Waiting(b) => owner[wants[b]] = Nobody /\ ahead[b] = {}

(* b, as the owner or as the first of the waiters, keeps k from the others.   *)
Occupies(b, k) == owner[k] = b \/ (owner[k] = Nobody /\ wants[b] = k /\ ahead[b] = {})

(* Nobody waits for ever on somebody who waits (schemas.py:28, registry.py:28 *)
(* let a message hold its session's lock while it queues for a semaphore):   *)
(* what a queue is behind can go on, or is a session whose message waits for *)
(* a semaphore that is behind something that can.  No cycle, no owner that   *)
(* has gone, no waiter whose turn nobody passes on, wherever in a queue      *)
(* somebody was cancelled.                                                 *)
NoDeadlock ==
    \A r \in Resources : Waiters(r) # {} =>
        \E b \in Actors :
            /\ Occupies(b, r)
            /\ \/ Unblocked(b)
               \/ /\ wants[b] \in {GPU, DITTO} \ {r}
                  /\ \E c \in Actors : Occupies(c, wants[b]) /\ Unblocked(c)

(* The speak directory that process_message made is there until its files   *)
(* are written: no /end of the session removes it under a message that is   *)
(* being synthesized (the race of the comment at sessions.py:222).          *)
MediaDirKept ==
    \A m \in Msgs : stage[m] \in {"synthesizing", "rendering"} => target[m] \in speakDir

(* The reply is recorded after the same history it was generated from: the  *)
(* copy read before the stream is still the session's history when the      *)
(* pair is appended, several awaits later.                                  *)
HistoryCurrent ==
    \A m \in Msgs : stage[m] \in {"streaming", "masking", "text_done"} =>
        seen[m] = Len(history[target[m]])

(* A recorded message was delivered as text to a client that was still      *)
(* there, in its own session and once; one that met a crisis is not        *)
(* recorded.                                                                *)
HistoryDelivered ==
    \A s \in Sessions : \A i \in DOMAIN history[s] :
        LET m == history[s][i] IN
        /\ target[m] = s
        /\ WasSent(m, "text_done") /\ ~WasSent(m, "crisis")
        /\ \A j \in DOMAIN history[s] : history[s][j] = m => j = i

(* media_ready is a promise that GET media keeps: as long as the session    *)
(* can be looked up, the announced mp4 exists, and the wav it was made      *)
(* from does not.                                                           *)
MediaReadyPlayable ==
    \A m \in Msgs : WasSent(m, "media_ready") =>
        /\ target[m] \in Store => m \in mp4
        /\ m \notin wav

(* Every message that was admitted comes to an end and gives its slot back, *)
(* whatever waits for the session lock, the GPU and Ditto before it.        *)
MessagesEnd == \A m \in Msgs : InFlight(m) ~> stage[m] = "done"

(* Every /end that found its session is answered, whether it took a free lock *)
(* or queued for it behind messages.                                        *)
EndsAnswered == \A e \in Ends : stage[e] \in {"ending", "cleaning"} ~> stage[e] = "done"

(* A run that waits for a semaphore gets it, however many messages queue for *)
(* it too and wherever in the queue one of them disconnects.                *)
RunsServed == \A r \in Runs : Waiting(r) ~> ~Waiting(r)

(* What the stream of m has delivered last. *)
Phase(m) ==
    IF stage[m] = "done" THEN "closed"
    ELSE IF sent[m] = <<>> THEN "opened" ELSE sent[m][Len(sent[m])]

SSE == INSTANCE SseStream WITH phase <- [m \in Msgs |-> Phase(m)]

(* The event stream of every message obeys the contract of SseStream.      *)
SseContract == SSE!Spec

(* sessions.py:201, "conversation media is disposed of as soon as the       *)
(* session ends": once /end has answered, the session has no media.         *)
EndedSessionsHaveNoMedia ==
    \A s \in Sessions : life[s] = "ended" =>
        \/ s \notin speakDir
        \/ \E e \in Ends : stage[e] = "cleaning" /\ target[e] = s

(* registry.py:8, "gpu_semaphore serialises concurrent GPU entry to one":   *)
(* at most one inference of the resident models (Gemma, TTS) runs.          *)
GpuInference ==
    {m \in Msgs : Underway(m) \cap {"llm", "tts"} # {}}
    \cup {m \in Msgs : {<<m, "llm">>, <<m, "tts">>} \cap stray # {}}
GpuSerialised == \A m, n \in GpuInference : m = n
=============================================================================
