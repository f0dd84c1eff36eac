------------------------------- MODULE Persona -------------------------------
(***************************************************************************)
(* Flow A of the service: the life of one persona.                         *)
(*                                                                         *)
(* The upload, process and delete handlers (routers/personas.py), the      *)
(* background task process_persona and its PersonaProcessingStore          *)
(* (pipeline/persona_creation.py), the rows they keep (db/repository.py)    *)
(* and the files under /var/persona/{id}.  Personas share nothing but the  *)
(* semaphores, so there is one of them here.                               *)
(*                                                                         *)
(* An action is the code between two awaits that can suspend.  The lock of *)
(* PersonaProcessingStore is never held across one, so set_step never       *)
(* suspends.  Handlers check the row first and act several awaits later.    *)
(*                                                                         *)
(* Simplifications:                                                        *)
(*  - A file is what it was made from: the upload for ref_audio.wav and     *)
(*    ref_text.txt, presence for the clips; and it is whole, once the ffmpeg  *)
(*    of one run is done with it, or not.                                   *)
(*  - Between add_task and the first line of process_persona the code awaits *)
(*    only the server's send, where uvicorn does not suspend unless the     *)
(*    connection's write buffer is full: the two are one step.              *)
(*  - Every upload has a name of its own; files are dated by the order in   *)
(*    which they get it, and one still called .tmp may be newer than any.   *)
(*  - The wait for gpu_semaphore or ditto_semaphore is part of the call it  *)
(*    guards.                                                              *)
(*  - rmtree takes the uploads of one directory in one step, and what is made *)
(*    in a directory while it is being removed is either removed with it or   *)
(*    makes the rmtree fail.  Unlinking a half-made file does not fail.       *)
(*  - Rows are those of the real database, with its foreign keys.  The rows *)
(*    of persona_*_assets, which nothing reads, are left out.              *)
(*  - A request refused on the first row it reads (404, 409) has no action. *)
(***************************************************************************)
EXTENDS Naturals, Sequences, FiniteSets

CONSTANTS Photos, Voices,   \* the uploads that may arrive
          Starts,           \* the POST /process that may arrive, and their runs
          Deletes,          \* the DELETE that may arrive
          Environment,      \* which of "db" and "restart" may happen
          NoFile

Clips   == {0, 1}
Uploads == Photos \cup Voices
Actors  == Uploads \cup Starts \cup Deletes

ASSUME PersonaAssumption ==
    /\ Photos \cap Voices = {}
    /\ Uploads \cap (Starts \cup Deletes) = {}
    /\ Starts \cap Deletes = {}
    /\ NoFile \notin Voices

VARIABLES
    row,        \* personas.status, or "none" when there is no row
    step,       \* PersonaProcessingStore: the step, or "none"
    stage,      \* stage[a]: the point of its handler a request is at
    saw,        \* saw[r]: the status that get_persona returned to r
    picked,     \* picked[r]: voice_path
    heard,      \* heard[r]: the ref_audio.wav that is being transcribed
    at,         \* at[r]: the clip being rendered or registered
    left,       \* left[d]: the entries that rmtree has yet to come to
    photos,     \* photo/*
    voices,     \* voice/*, oldest first
    temp,       \* uploads that are *.tmp.{uuid} files in photo/ or voice/
    refAudio, refText,  \* voice_ref/ref_audio.wav and ref_text.txt
    clips,      \* idle/{i}.mp4
    wholeAudio, \* what ref_audio.wav is a complete recording of
    wholeClips, \* the clips that are complete videos
    clipRows    \* clipRows[i]: rows of persona_idle_clips for clip i

memory    == <<step, stage, saw, picked, heard, at, left>>
uploaded  == <<photos, voices, temp>>
generated == <<refAudio, refText, clips, wholeAudio, wholeClips>>
rows      == <<row, clipRows>>
vars      == <<memory, uploaded, generated, rows>>

ClipFile == [i \in Clips |-> IF i = 0 THEN "idle/0.mp4" ELSE "idle/1.mp4"]

(* What rmtree meets below /var/persona/{id}: two directories of uploads, and *)
(* the generated files.                                                    *)
Entries  == {"photo", "voice", "ref_audio.wav", "ref_text.txt"} \cup {ClipFile[i] : i \in Clips}
Statuses    == {"none", "DRAFT", "PROCESSING", "READY", "FAILED"}

(* The stages of a run of process_persona that can still reach READY, and  *)
(* the step it has set at each of them.                                     *)
StepAt == [starting     |-> "PENDING",
           extracting   |-> "EXTRACTING_REF",
           trimming     |-> "EXTRACTING_REF",
           transcribing |-> "TRANSCRIBING",
           rendering    |-> "RENDERING_IDLE",
           muxing       |-> "RENDERING_IDLE",
           registering  |-> "RENDERING_IDLE",
           readying     |-> "READY",
           failing      |-> "FAILED"]
Steps        == {"none", "PENDING", "EXTRACTING_REF", "TRANSCRIBING",
                 "RENDERING_IDLE", "READY", "FAILED"}
RunStages    == DOMAIN StepAt
StartStages  == RunStages \cup {"idle", "checking", "done"}
UploadStages == {"idle", "reading", "writing", "done"}
DeleteStages == {"idle", "removing", "dropping", "done"}

(* The run is at an await of process_persona's try block before "ready". *)
Working(r) == stage[r] \in RunStages \ {"readying", "failing"}

InProgress == step \notin {"none", "READY", "FAILED"}

Goto(a, st) == stage' = [stage EXCEPT ![a] = st]

(* The run sets its step and suspends. *)
Suspend(r, st) == Goto(r, st) /\ step' = StepAt[st]

(* update_persona_status: silent when there is no row. *)
Updated(status) == IF row = "none" THEN row ELSE status

DbMayFail == "db" \in Environment
-----------------------------------------------------------------------------
(* Uploads *)

(* _ensure_writable_persona. *)
UploadAdmitted(u) ==
    /\ stage[u] = "idle"
    /\ row \notin {"none", "PROCESSING"}
    /\ Goto(u, "reading")
    /\ UNCHANGED <<step, saw, picked, heard, at, left, uploaded, generated, rows>>

(* 415, 413 or 400, after some of the file was read. *)
UploadRejected(u) ==
    /\ stage[u] = "reading"
    /\ Goto(u, "done")
    /\ UNCHANGED <<step, saw, picked, heard, at, left, uploaded, generated, rows>>

(* The directories are made and the temporary file is being written. *)
UploadWrites(u) ==
    /\ stage[u] = "reading"
    /\ Goto(u, "writing")
    /\ temp' = temp \cup {u}
    /\ UNCHANGED <<step, saw, picked, heard, at, left, photos, voices, generated, rows>>

(* tmp.replace(target).  The row that is inserted next is not represented. *)
UploadStored(u) ==
    /\ stage[u] = "writing"
    /\ u \in temp
    /\ Goto(u, "done")
    /\ temp' = temp \ {u}
    /\ photos' = IF u \in Photos THEN photos \cup {u} ELSE photos
    /\ voices' = IF u \in Voices THEN Append(voices, u) ELSE voices
    /\ UNCHANGED <<step, saw, picked, heard, at, left, generated, rows>>

(* The write or the replace raises: the temporary file is unlinked. *)
UploadFails(u) ==
    /\ stage[u] = "writing"
    /\ Goto(u, "done")
    /\ temp' = temp \ {u}
    /\ UNCHANGED <<step, saw, picked, heard, at, left, photos, voices, generated, rows>>
-----------------------------------------------------------------------------
(* POST /process *)

(* get_persona. *)
ReadRow(r) ==
    /\ stage[r] = "idle"
    /\ row # "none"
    /\ saw' = [saw EXCEPT ![r] = row]
    /\ Goto(r, "checking")
    /\ UNCHANGED <<step, picked, heard, at, left, uploaded, generated, rows>>

(* The record and the store say that the persona is not being processed.   *)
MayStart(status) == ~InProgress /\ status \notin {"PROCESSING", "READY"}

Forget(r) == saw' = [saw EXCEPT ![r] = "none"]

(* Mutant: only the row is asked, not the in-memory step. *)
AcceptByRow(r) ==
    /\ stage[r] = "checking"
    /\ saw[r] \notin {"PROCESSING", "READY"}
    /\ Suspend(r, "starting") /\ Forget(r)
    /\ UNCHANGED <<picked, heard, at, left, uploaded, generated, rows>>

(* 202: the task is added, the response sent, and process_persona runs to   *)
(* its first await.                                                        *)
Accept(r) ==
    /\ stage[r] = "checking"
    /\ MayStart(saw[r])
    /\ Suspend(r, "starting") /\ Forget(r)
    /\ UNCHANGED <<picked, heard, at, left, uploaded, generated, rows>>

(* 409 *)
Refuse(r) ==
    /\ stage[r] = "checking"
    /\ ~MayStart(saw[r])
    /\ Goto(r, "done") /\ Forget(r)
    /\ UNCHANGED <<step, picked, heard, at, left, uploaded, generated, rows>>
-----------------------------------------------------------------------------
(* process_persona *)

HasVoice == voices # <<>> \/ temp \cap Voices # {}
HasPhoto == (photos \cup temp) \cap Photos # {}

(* max by mtime over voice/*, temporary files included. *)
NewestVoices ==
    (temp \cap Voices) \cup (IF voices = <<>> THEN {} ELSE {voices[Len(voices)]})

(* The loop of _render_idle_clips from clip i on: where the run suspends    *)
(* next, and at which clip.                                                *)
Missing(i) == {j \in Clips : j >= i} \ clips
FirstMissing(i) == CHOOSE j \in Missing(i) : \A k \in Missing(i) : j <= k
RenderFrom(r, i) ==
    IF Missing(i) = {}
      THEN /\ Suspend(r, "registering")
           /\ at' = [at EXCEPT ![r] = 0]
      ELSE /\ Suspend(r, "rendering")
           /\ at' = [at EXCEPT ![r] = FirstMissing(i)]

(* Step 4, once there is a ref_text: no photo, or the clips that are not    *)
(* there yet.                                                              *)
RenderIdle(r) ==
    IF HasPhoto THEN RenderFrom(r, 0) ELSE Suspend(r, "failing") /\ UNCHANGED at

(* Steps 2 and 3 from an existing ref_audio: ref_text is kept or made. *)
TranscribeOrSkip(r) ==
    IF refText = NoFile
      THEN /\ Suspend(r, "transcribing")
           /\ heard' = [heard EXCEPT ![r] = refAudio]
           /\ UNCHANGED at
      ELSE RenderIdle(r) /\ UNCHANGED heard

(* The run ends: its locals are gone. *)
Finish(r) ==
    /\ Goto(r, "done")
    /\ picked' = [picked EXCEPT ![r] = NoFile]
    /\ at' = [at EXCEPT ![r] = 0]

(* The row says PROCESSING.  The newest voice is chosen; without a          *)
(* ref_audio ffmpeg is started on it.                                      *)
Started(r) ==
    /\ stage[r] = "starting"
    /\ row' = Updated("PROCESSING")
    /\ \E v \in NewestVoices : picked' = [picked EXCEPT ![r] = v]
    /\ IF refAudio = NoFile
         THEN Suspend(r, "extracting") /\ UNCHANGED <<heard, at>>
         ELSE TranscribeOrSkip(r)
    /\ UNCHANGED <<saw, left, uploaded, generated, clipRows>>

(* The update raises, or there is no voice. *)
StartFails(r) ==
    /\ stage[r] = "starting"
    /\ \/ DbMayFail /\ UNCHANGED row
       \/ ~HasVoice /\ row' = Updated("PROCESSING")
    /\ Suspend(r, "failing")
    /\ UNCHANGED <<saw, picked, heard, at, left, uploaded, generated, clipRows>>

(* ffmpeg -y opens ref_audio.wav. *)
AudioOpened(r) ==
    /\ stage[r] = "extracting"
    /\ refAudio' = picked[r] /\ wholeAudio' = NoFile
    /\ Suspend(r, "trimming")
    /\ UNCHANGED <<saw, picked, heard, at, left, uploaded, refText, clips, wholeClips, rows>>

(* Mutant: a ref_text of an earlier ref_audio is kept. *)
ExtractedKeepsText(r) ==
    /\ stage[r] = "trimming"
    /\ refAudio # NoFile
    /\ TranscribeOrSkip(r)
    /\ UNCHANGED <<saw, picked, left, uploaded, generated, rows>>

(* ffmpeg is done and ref_audio.wav is long enough; a ref_text that is      *)
(* there belongs to another ref_audio and is removed.                      *)
Extracted(r) ==
    /\ stage[r] = "trimming"
    /\ refAudio # NoFile
    /\ refText' = NoFile
    /\ wholeAudio' = refAudio
    /\ heard' = [heard EXCEPT ![r] = refAudio]
    /\ Suspend(r, "transcribing")
    /\ UNCHANGED <<saw, picked, at, left, uploaded, refAudio, clips, wholeClips, rows>>

(* Mutant: a failing ffmpeg leaves what it has made. *)
ExtractFailsLeaving(r) ==
    /\ stage[r] \in {"extracting", "trimming"}
    /\ Suspend(r, "failing")
    /\ UNCHANGED <<saw, picked, heard, at, left, uploaded, generated, rows>>

(* ffmpeg fails, or leaves nothing usable: ref_audio.wav is unlinked. *)
ExtractFails(r) ==
    /\ stage[r] \in {"extracting", "trimming"}
    /\ refAudio' = NoFile /\ wholeAudio' = NoFile
    /\ Suspend(r, "failing")
    /\ UNCHANGED <<saw, picked, heard, at, left, uploaded, refText, clips, wholeClips, rows>>

(* ref_text.txt is written, its directory made again if need be. *)
Transcribed(r) ==
    /\ stage[r] = "transcribing"
    /\ refText' \in {heard[r]} \cup ({refAudio} \ {NoFile})
    /\ heard' = [heard EXCEPT ![r] = NoFile]
    /\ RenderIdle(r)
    /\ UNCHANGED <<saw, picked, left, uploaded, refAudio, clips, wholeAudio, wholeClips, rows>>

(* Mutant: the exception passes the except clause by. *)
TranscribeFailsSilently(r) ==
    /\ stage[r] = "transcribing"
    /\ heard' = [heard EXCEPT ![r] = NoFile]
    /\ Goto(r, "done")
    /\ UNCHANGED <<step, saw, picked, at, left, uploaded, generated, rows>>

(* Gemma raises. *)
TranscribeFails(r) ==
    /\ stage[r] = "transcribing"
    /\ heard' = [heard EXCEPT ![r] = NoFile]
    /\ Suspend(r, "failing")
    /\ UNCHANGED <<saw, picked, at, left, uploaded, generated, rows>>

(* Ditto's ffmpeg opens the clip, to mux into it what was rendered beside it. *)
ClipOpened(r) ==
    /\ stage[r] = "rendering"
    /\ clips' = clips \cup {at[r]} /\ wholeClips' = wholeClips \ {at[r]}
    /\ Suspend(r, "muxing")
    /\ UNCHANGED <<saw, picked, heard, at, left, uploaded, refAudio, refText, wholeAudio, rows>>

(* The clip is complete; on to the next one. *)
Rendered(r) ==
    /\ stage[r] = "muxing"
    /\ at[r] \in clips
    /\ wholeClips' = wholeClips \cup {at[r]}
    /\ RenderFrom(r, at[r] + 1)
    /\ UNCHANGED <<saw, picked, heard, left, uploaded, refAudio, refText, clips, wholeAudio,
                   rows>>

(* Mutant: the loop goes on after a clip that failed. *)
RenderFailsOn(r) ==
    /\ stage[r] \in {"rendering", "muxing"}
    /\ clips' = clips \ {at[r]} /\ wholeClips' = wholeClips \ {at[r]}
    /\ RenderFrom(r, at[r] + 1)
    /\ UNCHANGED <<saw, picked, heard, left, uploaded, refAudio, refText, wholeAudio, rows>>

(* Ditto raises (no face, for one): render_speak unlinks the clip. *)
RenderFails(r) ==
    /\ stage[r] \in {"rendering", "muxing"}
    /\ clips' = clips \ {at[r]} /\ wholeClips' = wholeClips \ {at[r]}
    /\ Suspend(r, "failing")
    /\ UNCHANGED <<saw, picked, heard, at, left, uploaded, refAudio, refText, wholeAudio, rows>>

(* Mutant: one clip too many. *)
RegisteredPast(r) ==
    /\ stage[r] = "registering"
    /\ row # "none"
    /\ IF at[r] \in Clips
         THEN /\ clipRows' = [clipRows EXCEPT ![at[r]] = @ + 1]
              /\ Suspend(r, "registering") /\ at' = [at EXCEPT ![r] = @ + 1]
         ELSE Suspend(r, "readying") /\ UNCHANGED <<at, clipRows>>
    /\ UNCHANGED <<saw, picked, heard, left, uploaded, generated, row>>

(* insert_persona_idle_clip, for each clip. *)
Registered(r) ==
    /\ stage[r] = "registering"
    /\ row # "none"
    /\ clipRows' = [clipRows EXCEPT ![at[r]] = @ + 1]
    /\ IF at[r] + 1 \in Clips
         THEN Suspend(r, "registering") /\ at' = [at EXCEPT ![r] = @ + 1]
         ELSE Suspend(r, "readying") /\ UNCHANGED at
    /\ UNCHANGED <<saw, picked, heard, left, uploaded, generated, row>>

RegisterFails(r) ==
    /\ stage[r] = "registering"
    /\ row = "none" \/ DbMayFail
    /\ Suspend(r, "failing")
    /\ UNCHANGED <<saw, picked, heard, at, left, uploaded, generated, rows>>

Readied(r) ==
    /\ stage[r] = "readying"
    /\ row' = Updated("READY")
    /\ Finish(r)
    /\ UNCHANGED <<step, saw, heard, left, uploaded, generated, clipRows>>

ReadyFails(r) ==
    /\ stage[r] = "readying"
    /\ DbMayFail
    /\ Suspend(r, "failing")
    /\ UNCHANGED <<saw, picked, heard, at, left, uploaded, generated, rows>>

(* The except clause: a failing update is logged and forgotten. *)
Failed(r) ==
    /\ stage[r] = "failing"
    /\ \/ row' = Updated("FAILED")
       \/ DbMayFail /\ UNCHANGED row
    /\ Finish(r)
    /\ UNCHANGED <<step, saw, heard, left, uploaded, generated, clipRows>>
-----------------------------------------------------------------------------
(* DELETE *)

DeleteAdmitted(d) ==
    /\ stage[d] = "idle"
    /\ row \notin {"none", "PROCESSING"}
    /\ Goto(d, "removing")
    /\ left' = [left EXCEPT ![d] = Entries]
    /\ UNCHANGED <<step, saw, picked, heard, at, uploaded, generated, rows>>

(* The entries that there are. *)
OnDisk ==
    {k \in Entries :
        \/ k = "photo" /\ HasPhoto
        \/ k = "voice" /\ HasVoice
        \/ k = "ref_audio.wav" /\ refAudio # NoFile
        \/ k = "ref_text.txt" /\ refText # NoFile
        \/ \E i \in clips : k = ClipFile[i]}

NoFiles == OnDisk = {}

(* rmtree, in a thread, unlinks one file after the other, in any order. *)
RemoveEntry(d, k) ==
    /\ stage[d] = "removing"
    /\ k \in left[d] \cap OnDisk
    /\ left' = [left EXCEPT ![d] = @ \ {k}]
    /\ photos' = IF k = "photo" THEN {} ELSE photos
    /\ voices' = IF k = "voice" THEN <<>> ELSE voices
    /\ temp' = CASE k = "photo" -> temp \ Photos
                 [] k = "voice" -> temp \ Voices
                 [] OTHER       -> temp
    /\ IF k = "ref_audio.wav"
         THEN refAudio' = NoFile /\ wholeAudio' = NoFile
         ELSE UNCHANGED <<refAudio, wholeAudio>>
    /\ refText' = IF k = "ref_text.txt" THEN NoFile ELSE refText
    /\ clips' = {i \in clips : ClipFile[i] # k}
    /\ wholeClips' = {i \in wholeClips : ClipFile[i] # k}
    /\ UNCHANGED <<step, stage, saw, picked, heard, at, rows>>

(* The directories are removed too, if nothing new is in them. *)
Removed(d) ==
    /\ stage[d] = "removing"
    /\ NoFiles
    /\ Goto(d, "dropping")
    /\ left' = [left EXCEPT ![d] = {}]
    /\ UNCHANGED <<step, saw, picked, heard, at, uploaded, generated, rows>>

(* OSError: 500 with whatever was removed gone. *)
RemoveFails(d) ==
    /\ stage[d] = "removing"
    /\ Goto(d, "done")
    /\ left' = [left EXCEPT ![d] = {}]
    /\ UNCHANGED <<step, saw, picked, heard, at, uploaded, generated, rows>>

(* delete_persona_tx *)
Dropped(d) ==
    /\ stage[d] = "dropping"
    /\ Goto(d, "done")
    /\ row' = "none"
    /\ clipRows' = [i \in Clips |-> 0]
    /\ UNCHANGED <<step, saw, picked, heard, at, left, uploaded, generated>>

DropFails(d) ==
    /\ stage[d] = "dropping"
    /\ DbMayFail
    /\ Goto(d, "done")
    /\ UNCHANGED <<step, saw, picked, heard, at, left, uploaded, generated, rows>>
-----------------------------------------------------------------------------
(* The worker stops and starts again: memory is gone.                      *)
Restarts ==
    /\ "restart" \in Environment
    /\ step' = "none"
    /\ stage' = [a \in Actors |-> IF stage[a] = "idle" THEN "idle" ELSE "done"]
    /\ saw' = [r \in Starts |-> "none"]
    /\ picked' = [r \in Starts |-> NoFile]
    /\ heard' = [r \in Starts |-> NoFile]
    /\ at' = [r \in Starts |-> 0]
    /\ left' = [d \in Deletes |-> {}]
    /\ UNCHANGED <<uploaded, refAudio, refText, wholeAudio, clipRows>>

(* It is killed: the files stay as they are, whole or not. *)
Crash == Restarts /\ UNCHANGED <<row, clips, wholeClips>>

(* It is asked to stop, and the runs are cancelled: render_speak unlinks its *)
(* clip, but nobody unlinks what ffmpeg has made of ref_audio.wav, and the   *)
(* row is FAILED, unless that update is cut short.                          *)
Shutdown ==
    LET cancelled == {r \in Starts : Working(r) \/ stage[r] = "readying"}
        rendered  == {at[r] : r \in {x \in Starts : stage[x] \in {"rendering", "muxing"}}}
    IN  /\ cancelled # {}
        /\ Restarts
        /\ row' \in {row, Updated("FAILED")}
        /\ clips' = clips \ rendered
        /\ wholeClips' = wholeClips \ rendered

Init ==
    /\ row = "DRAFT"
    /\ step = "none"
    /\ stage = [a \in Actors |-> "idle"]
    /\ saw = [r \in Starts |-> "none"]
    /\ picked = [r \in Starts |-> NoFile]
    /\ heard = [r \in Starts |-> NoFile]
    /\ at = [r \in Starts |-> 0]
    /\ left = [d \in Deletes |-> {}]
    /\ photos = {} /\ voices = <<>> /\ temp = {}
    /\ refAudio = NoFile /\ refText = NoFile /\ clips = {}
    /\ wholeAudio = NoFile /\ wholeClips = {}
    /\ clipRows = [i \in Clips |-> 0]

UploadStep(u) ==
    \/ UploadAdmitted(u) \/ UploadRejected(u) \/ UploadWrites(u)
    \/ UploadStored(u) \/ UploadFails(u)

RequestStep(r) == ReadRow(r) \/ Accept(r) \/ Refuse(r)

RunStep(r) ==
    \/ Started(r) \/ StartFails(r)
    \/ AudioOpened(r) \/ Extracted(r) \/ ExtractFails(r)
    \/ Transcribed(r) \/ TranscribeFails(r)
    \/ ClipOpened(r) \/ Rendered(r) \/ RenderFails(r)
    \/ Registered(r) \/ RegisterFails(r)
    \/ Readied(r) \/ ReadyFails(r) \/ Failed(r)

DeleteStep(d) ==
    \/ DeleteAdmitted(d) \/ Removed(d) \/ RemoveFails(d) \/ Dropped(d) \/ DropFails(d)
    \/ \E k \in Entries : RemoveEntry(d, k)

(* Every request has been answered and every run has ended. *)
Quiet ==
    /\ \A a \in Actors : stage[a] \in {"idle", "done"}
    /\ UNCHANGED vars

Next ==
    \/ \E u \in Uploads : UploadStep(u)
    \/ \E r \in Starts : RequestStep(r) \/ RunStep(r)
    \/ \E d \in Deletes : DeleteStep(d)
    \/ Crash
    \/ Shutdown
    \/ Quiet

(* The loop runs what can run; ffmpeg, the models and the database answer. *)
Fairness == \A r \in Starts : WF_vars(RunStep(r))

Spec == Init /\ [][Next]_vars
FairSpec == Spec /\ Fairness
-----------------------------------------------------------------------------
(* Properties *)

RequestsTypeOK ==
    /\ stage \in [Actors -> StartStages \cup UploadStages \cup DeleteStages]
    /\ \A r \in Starts : stage[r] \in StartStages
    /\ \A u \in Uploads : stage[u] \in UploadStages
    /\ \A d \in Deletes : stage[d] \in DeleteStages
    /\ saw \in [Starts -> Statuses]
    /\ picked \in [Starts -> Voices \cup {NoFile}]
    /\ heard \in [Starts -> Voices \cup {NoFile}]
    /\ at \in [Starts -> Clips]
    /\ left \in [Deletes -> SUBSET Entries]

FilesTypeOK ==
    /\ photos \subseteq Photos
    /\ voices \in Seq(Voices)
    /\ temp \subseteq Uploads
    /\ refAudio \in Voices \cup {NoFile}
    /\ refText \in Voices \cup {NoFile}
    /\ clips \subseteq Clips
    /\ wholeAudio \in Voices \cup {NoFile}
    /\ wholeClips \subseteq Clips

TypeOK ==
    /\ row \in Statuses
    /\ step \in Steps
    /\ clipRows \in [Clips -> Nat]
    /\ RequestsTypeOK
    /\ FilesTypeOK

(* personas.py:318: two runs for one persona never write its files at the    *)
(* same time - as long as no update to READY fails: the failing run would    *)
(* set the step to FAILED under a second one, and let a third in beside it.  *)
WorkersExclusive == \A q, r \in Starts : Working(q) /\ Working(r) => q = r

(* A persona that /start accepts has everything a conversation needs: the   *)
(* voice reference and its text, and both clips, on disk and registered -   *)
(* whatever failed or restarted on the way, as long as nobody deletes it.   *)
ReadyComplete ==
    row = "READY" /\ (\A d \in Deletes : stage[d] = "idle") =>
        /\ refAudio # NoFile /\ refText # NoFile
        /\ clips = Clips
        /\ \A i \in Clips : clipRows[i] > 0

(* Files that ffmpeg or Ditto has begun and that no run is making any more. *)
HalfAudio == refAudio \notin {NoFile, wholeAudio} /\ \A r \in Starts : stage[r] # "trimming"
HalfClips == {i \in clips \ wholeClips :
                 \A r \in Starts : stage[r] = "muxing" => at[r] # i}

(* persona_creation.py:204, "so that a partial output is not taken for made": *)
(* whichever call fails, and whatever a second run, a stale request or a      *)
(* DELETE does beside it, a run leaves no half-made file behind.  Only the     *)
(* kill of the worker and the cancellation of its runs do.                    *)
OnlyKillsLeaveHalf ==
    [][\/ (HalfAudio' => HalfAudio) /\ HalfClips' \subseteq HalfClips
       \/ Crash
       \/ Shutdown]_vars

(* persona_creation.py:12 and 301, src/README.md:185: process_persona may be  *)
(* called again after a restart, for it skips the steps that are finished,    *)
(* and only those.  What a READY persona has is then not half of a file.      *)
ReadyWhole ==
    row = "READY" /\ (\A d \in Deletes : stage[d] = "idle") =>
        wholeAudio = refAudio /\ wholeClips = clips

(* persona_creation.py:174 and 326: ref_text is the transcript of the       *)
(* ref_audio beside it, also after a delete that only went half way - as long *)
(* as no run is stopped in the middle of ffmpeg, where the old text is still  *)
(* beside the new audio.                                                    *)
Paired ==
    \A r \in Starts : stage[r] \in {"rendering", "muxing", "registering"} =>
        NoFile \in {refAudio, refText} \/ refText = refAudio

(* The progress a waiting screen polls never stays at a step of a run that  *)
(* is over.                                                                *)
PollEnds == InProgress ~> ~InProgress

(* persona_creation.py:12 and 301, "safe when it is called again after a    *)
(* worker restart": a persona without a run that is not READY can be        *)
(* processed again.                                                        *)
Retryable ==
    row \in {"none", "READY"} \/ MayStart(row)
        \/ \E r \in Starts : stage[r] \in RunStages

(* personas.py:457: deleting a persona leaves no files that were made again *)
(* behind it.                                                              *)
DeletedForGood ==
    row = "none" /\ (\A a \in Actors : stage[a] \in {"idle", "done"}) => NoFiles
=============================================================================
