------------------------------- MODULE Service -------------------------------
(***************************************************************************)
(* Both flows of the service around one persona: its processing (Persona)   *)
(* and the conversations with it (Conversation), in one event loop.  The    *)
(* conversations with other personas meet this one only at the semaphores,  *)
(* where Conversation has runs among its actors.                           *)
(*                                                                         *)
(* They meet in four places: /start reads the row that a run writes;        *)
(* messages and runs queue for the same two semaphores; a message reads the *)
(* files a run has made; and DELETE removes the speak directories of        *)
(* sessions, which it knows nothing about.  An action of the service is one *)
(* of a flow with what it means for the other.                              *)
(*                                                                         *)
(* The variable "stage" is Persona's; "talk" is Conversation's.             *)
(***************************************************************************)
EXTENDS Persona

CONSTANTS Sessions, Msgs, Ends, MaxMessages, GPU, DITTO, Nobody, Nothing

VARIABLES
    life, stale, history, talk, target, seen, sent, active,
    owner, wants, ahead, speakDir, wav, mp4, safetyLog, stray,
    asked,      \* the /start that have read a READY row, by their session
    speakLeft   \* the DELETE whose rmtree has yet to remove speak/

C == INSTANCE Conversation WITH stage <- talk, Runs <- Starts

ASSUME ServiceAssumption == C!ConversationAssumption

conversationVars == <<life, stale, history, talk, target, seen, sent, active, owner,
                      wants, ahead, speakDir, wav, mp4, safetyLog, stray>>
serviceVars == <<vars, conversationVars, asked, speakLeft>>

VoiceRef == refAudio # NoFile /\ refText # NoFile
-----------------------------------------------------------------------------
(* Sessions *)

(* POST /start: get_persona. *)
StartReads(s) ==
    /\ life[s] = "unborn" /\ s \notin asked
    /\ row = "READY"
    /\ asked' = asked \cup {s}
    /\ UNCHANGED <<vars, conversationVars, speakLeft>>

(* The interviews have been read, the session is created. *)
StartCreates(s) ==
    /\ s \in asked
    /\ C!StartSession(s)
    /\ asked' = asked \ {s}
    /\ UNCHANGED <<vars, speakLeft>>

(* What a message needs of the persona's files when its media begins, and    *)
(* when the photo is looked for.                                           *)
FilesAllow(m) ==
    /\ talk[m] = "text_done" /\ talk'[m] = "synthesizing" => VoiceRef
    /\ talk[m] = "text_done" /\ talk'[m] = "closing" =>
          ~VoiceRef \/ target[m] \notin speakDir'
    /\ talk[m] = "synthesizing" /\ talk'[m] = "rendering" => HasPhoto

MessageStep(m) ==
    /\ C!MessageStep(m)
    /\ FilesAllow(m)
    /\ UNCHANGED <<vars, asked, speakLeft>>

EndStep(e) == C!EndStep(e) /\ UNCHANGED <<vars, asked, speakLeft>>

SessionStep ==
    /\ \/ \E s \in Sessions : C!GoStale(s)
       \/ C!Sweep
       \/ \E e \in Ends, s \in Sessions : C!EndSession(e, s) \/ C!EndSessionWaits(e, s)
       \/ \E m \in Msgs, s \in Sessions : C!PostMessage(m, s)
       \/ \E m \in Msgs : C!Disconnect(m)
       \/ \E m \in Msgs, k \in C!Models : C!StrayEnds(m, k)
    /\ UNCHANGED <<vars, asked, speakLeft>>

LockGranted(a) == C!Granted(a) /\ UNCHANGED <<vars, asked, speakLeft>>
-----------------------------------------------------------------------------
(* Runs *)

(* The semaphore whose block a run is in at a stage. *)
Guarding == [st \in StartStages |->
                CASE st = "transcribing"              -> {GPU}
                  [] st \in {"rendering", "muxing"}   -> {DITTO}
                  [] OTHER                            -> {}]

(* Mutant: a call that raises keeps its permit. *)
RunLocksKept(r) ==
    LET k == Guarding[stage'[r]] IN
    IF stage'[r] = "muxing" \/ (k = {} /\ (C!Held(r) = {} \/ stage'[r] = "failing"))
      THEN UNCHANGED conversationVars
    ELSE IF k = {} THEN C!RunLeaves(r)
    ELSE \E x \in k : C!RunAsks(r, x)

(* A step of a run leaves the block it is in and enters the next: each clip  *)
(* has one of its own, and the muxing belongs to the clip's.               *)
RunLocks(r) ==
    LET k == Guarding[stage'[r]] IN
    IF stage'[r] = "muxing" \/ (k = {} /\ C!Held(r) = {})
      THEN UNCHANGED conversationVars
    ELSE IF k = {} THEN C!RunLeaves(r)
    ELSE \E x \in k : C!RunAsks(r, x)

RunContinues(r) ==
    /\ ~C!Waiting(r)
    /\ RunStep(r)
    /\ RunLocks(r)
    /\ UNCHANGED <<asked, speakLeft>>
-----------------------------------------------------------------------------
(* DELETE *)

DeleteBegins(d) ==
    /\ DeleteAdmitted(d)
    /\ speakLeft' = speakLeft \cup {d}
    /\ UNCHANGED <<conversationVars, asked>>

(* rmtree comes to speak/, whatever sessions are alive. *)
RemoveSpeak(d) ==
    /\ stage[d] = "removing"
    /\ d \in speakLeft
    /\ speakLeft' = speakLeft \ {d}
    /\ speakDir' = {} /\ wav' = {} /\ mp4' = {}
    /\ UNCHANGED <<vars, life, stale, history, talk, target, seen, sent, active, owner,
                   wants, ahead, safetyLog, stray, asked>>

(* The rest of a DELETE: it fails if there is something new in speak/.      *)
DeleteContinues(d) ==
    /\ \/ \E k \in Entries : RemoveEntry(d, k) /\ UNCHANGED speakLeft
       \/ d \notin speakLeft /\ speakDir = {} /\ Removed(d) /\ UNCHANGED speakLeft
       \/ RemoveFails(d) /\ speakLeft' = speakLeft \ {d}
       \/ (Dropped(d) \/ DropFails(d)) /\ UNCHANGED speakLeft
    /\ UNCHANGED <<conversationVars, asked>>
-----------------------------------------------------------------------------
ServiceInit ==
    /\ Init
    /\ C!Init
    /\ asked = {} /\ speakLeft = {}

(* The requests that only Persona knows of. *)
PersonaStep ==
    /\ \/ \E u \in Uploads : UploadStep(u)
       \/ \E r \in Starts : RequestStep(r)
    /\ UNCHANGED <<conversationVars, asked, speakLeft>>

ServiceRestart ==
    /\ Crash \/ Shutdown
    /\ C!Restart
    /\ asked' = {} /\ speakLeft' = {}

ServiceQuiet == Quiet /\ C!Quiet /\ UNCHANGED <<asked, speakLeft>>

ServiceNext ==
    \/ PersonaStep
    \/ \E r \in Starts : RunContinues(r)
    \/ \E d \in Deletes : DeleteBegins(d) \/ RemoveSpeak(d) \/ DeleteContinues(d)
    \/ \E s \in Sessions : StartReads(s) \/ StartCreates(s)
    \/ \E m \in Msgs : MessageStep(m)
    \/ \E e \in Ends : EndStep(e)
    \/ SessionStep
    \/ \E a \in C!Actors : LockGranted(a)
    \/ ServiceRestart
    \/ ServiceQuiet

ServiceSpec == ServiceInit /\ [][ServiceNext]_serviceVars
-----------------------------------------------------------------------------
(* Properties *)

(* What the sessions and the DELETE of the service add to the types. *)
ServiceTypeOK ==
    /\ TypeOK
    /\ C!TypeOK
    /\ asked \subseteq Sessions
    /\ speakLeft \subseteq Deletes

(* A session that /start grants can be held: as long as nobody deletes the  *)
(* persona, the voice reference, its text and both idle clips are there     *)
(* until the session ends - also when a /process that read an old row       *)
(* (personas.py:311) takes the READY persona through another run, which may *)
(* fail, while the session is being created or is live.                     *)
SessionsUsable ==
    asked \cup C!Store # {} /\ (\A d \in Deletes : stage[d] = "idle") =>
        VoiceRef /\ clips = Clips

(* registry.py:28, from the side of the runs: a run that transcribes has the *)
(* GPU's permit and one that renders has Ditto's, for each clip anew, and   *)
(* however it ended it has given back what it had.                         *)
RunsHoldTheirs ==
    \A r \in Starts : C!Held(r) = IF C!Waiting(r) THEN {} ELSE Guarding[stage[r]]
=============================================================================
