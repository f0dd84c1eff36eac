--------------------------- MODULE Persona_proofs ---------------------------
(* Theorems about Persona. *)
EXTENDS Persona, TLAPS

(* The clip chosen is missing, and no clip before it is. *)
LEMMA FirstIsMissing ==
    ASSUME NEW i \in Nat, Missing(i) # {}
    PROVE  FirstMissing(i) \in Missing(i) /\ \A k \in Missing(i) : FirstMissing(i) <= k
<1>1. \E j \in Missing(i) : \A k \in Missing(i) : j <= k
  <2>1. CASE 0 \in Missing(i)
    BY <2>1 DEF Missing, Clips
  <2>2. CASE 0 \notin Missing(i)
    BY <2>2 DEF Missing, Clips
  <2> QED
    BY <2>1, <2>2
<1> QED
  BY <1>1 DEF FirstMissing

(* The loop over the clips goes from clip i to the first that is missing, or *)
(* is left when every clip from i on is there.                              *)
LEMMA RenderFromEffect ==
    ASSUME RequestsTypeOK, NEW r \in Starts, NEW i \in {0, 1, 2}, RenderFrom(r, i)
    PROVE  /\ step' = "RENDERING_IDLE"
           /\ \E c \in Clips : at' = [at EXCEPT ![r] = c]
           /\ at' \in [Starts -> Clips]
           /\ \/ /\ stage' = [stage EXCEPT ![r] = "registering"]
                 /\ at'[r] = 0
                 /\ \A j \in Clips : j >= i => j \in clips
              \/ /\ stage' = [stage EXCEPT ![r] = "rendering"]
                 /\ at'[r] >= i /\ at'[r] \notin clips
                 /\ \A j \in Clips : j >= i /\ j < at'[r] => j \in clips
<1>1. CASE Missing(i) = {}
  <2>1. \A j \in Clips : j >= i => j \in clips
    BY <1>1 DEF Missing
  <2> QED
    BY <1>1, <2>1 DEF RenderFrom, Suspend, Goto, StepAt, RequestsTypeOK, Clips
<1>2. CASE Missing(i) # {}
  <2>1. /\ FirstMissing(i) \in Clips \ clips
        /\ FirstMissing(i) >= i
        /\ \A j \in Clips : j >= i /\ j < FirstMissing(i) => j \in clips
    BY <1>2, FirstIsMissing DEF Missing, Clips
  <2> QED
    BY <1>2, <2>1 DEF RenderFrom, Suspend, Goto, StepAt, RequestsTypeOK
<1> QED
  BY <1>1, <1>2

(* The last step of a run that has its ref_text: the clips, or no photo. *)
LEMMA RenderIdleEffect ==
    ASSUME RequestsTypeOK, NEW r \in Starts, RenderIdle(r)
    PROVE  /\ step' \in {"RENDERING_IDLE", "FAILED"}
           /\ at' \in [Starts -> Clips]
           /\ \A q \in Starts \ {r} : at'[q] = at[q]
           /\ \/ /\ stage' = [stage EXCEPT ![r] = "registering"]
                 /\ step' = "RENDERING_IDLE" /\ at'[r] = 0 /\ Clips \subseteq clips
              \/ /\ stage' = [stage EXCEPT ![r] = "rendering"]
                 /\ step' = "RENDERING_IDLE" /\ at'[r] \notin clips
                 /\ \A j \in Clips : j < at'[r] => j \in clips
              \/ stage' = [stage EXCEPT ![r] = "failing"]
<1>1. CASE HasPhoto
  BY <1>1, RenderFromEffect DEF RenderIdle, Clips, RequestsTypeOK
<1>2. CASE ~HasPhoto
  BY <1>2 DEF RenderIdle, Suspend, Goto, StepAt, RequestsTypeOK
<1> QED
  BY <1>1, <1>2

(* The stage and the step of a run go together when it suspends. *)
LEMMA StageAfterIdle ==
    ASSUME NEW r \in Starts, RenderIdle(r)
    PROVE  \E st \in RunStages : stage' = [stage EXCEPT ![r] = st] /\ step' = StepAt[st]
BY DEF RenderIdle, RenderFrom, Suspend, Goto, RunStages, StepAt

-----------------------------------------------------------------------------
(* Types *)

(* The initial values have their types. *)
LEMMA TypeInit == PersonaAssumption /\ Init => TypeOK
BY DEF Init, TypeOK, RequestsTypeOK, FilesTypeOK, PersonaAssumption, Statuses, Steps,
       StartStages, UploadStages, DeleteStages, Actors, Uploads, Clips, Entries

(* Every action keeps every variable in its type. *)
LEMMA TypeStep ==
    ASSUME PersonaAssumption, TypeOK, [Next]_vars
    PROVE  TypeOK'

<1>1. ASSUME NEW u \in Uploads, UploadAdmitted(u) PROVE TypeOK'
  <2>1. RequestsTypeOK'
    BY <1>1 DEF UploadAdmitted, Goto, uploaded, generated, rows, TypeOK,
        RequestsTypeOK, Actors, Uploads, PersonaAssumption, FilesTypeOK, Statuses,
        Clips, UploadStages
  <2>2. FilesTypeOK'
    BY <1>1 DEF UploadAdmitted, Goto, uploaded, generated, rows, TypeOK,
        RequestsTypeOK, FilesTypeOK, Uploads, Clips
  <2>3. row' \in Statuses /\ step' \in Steps /\ clipRows' \in [Clips -> Nat]
    BY <1>1 DEF UploadAdmitted, Goto, uploaded, generated, rows, TypeOK,
        RequestsTypeOK, Statuses, Steps, Clips
  <2> QED
    BY <2>1, <2>2, <2>3 DEF TypeOK
<1>2. ASSUME NEW u \in Uploads, UploadRejected(u) PROVE TypeOK'
  <2>1. RequestsTypeOK'
    BY <1>2 DEF UploadRejected, Goto, uploaded, generated, rows, TypeOK,
        RequestsTypeOK, Actors, Uploads, PersonaAssumption, FilesTypeOK, Statuses,
        Clips, UploadStages
  <2>2. FilesTypeOK'
    BY <1>2 DEF UploadRejected, Goto, uploaded, generated, rows, TypeOK,
        RequestsTypeOK, FilesTypeOK, Uploads, Clips
  <2>3. row' \in Statuses /\ step' \in Steps /\ clipRows' \in [Clips -> Nat]
    BY <1>2 DEF UploadRejected, Goto, uploaded, generated, rows, TypeOK,
        RequestsTypeOK, Statuses, Steps, Clips
  <2> QED
    BY <2>1, <2>2, <2>3 DEF TypeOK
<1>3. ASSUME NEW u \in Uploads, UploadWrites(u) PROVE TypeOK'
  <2>1. RequestsTypeOK'
    BY <1>3 DEF UploadWrites, Goto, generated, rows, TypeOK, RequestsTypeOK, Actors,
        Uploads, PersonaAssumption, FilesTypeOK, Statuses, Clips, UploadStages
  <2>2. FilesTypeOK'
    BY <1>3 DEF UploadWrites, Goto, generated, rows, TypeOK, RequestsTypeOK,
        FilesTypeOK, uploaded, Uploads, Clips
  <2>3. row' \in Statuses /\ step' \in Steps /\ clipRows' \in [Clips -> Nat]
    BY <1>3 DEF UploadWrites, Goto, generated, rows, TypeOK, RequestsTypeOK,
        Statuses, Steps, Clips
  <2> QED
    BY <2>1, <2>2, <2>3 DEF TypeOK
<1>4. ASSUME NEW u \in Uploads, UploadStored(u) PROVE TypeOK'
  <2>1. RequestsTypeOK'
    BY <1>4 DEF UploadStored, Goto, generated, rows, TypeOK, RequestsTypeOK, Actors,
        Uploads, PersonaAssumption, FilesTypeOK, Statuses, Clips, UploadStages
  <2>2. FilesTypeOK'
    BY <1>4 DEF UploadStored, Goto, generated, rows, TypeOK, RequestsTypeOK,
        FilesTypeOK, uploaded, Uploads, Clips
  <2>3. row' \in Statuses /\ step' \in Steps /\ clipRows' \in [Clips -> Nat]
    BY <1>4 DEF UploadStored, Goto, generated, rows, TypeOK, RequestsTypeOK,
        Statuses, Steps, Clips
  <2> QED
    BY <2>1, <2>2, <2>3 DEF TypeOK
<1>5. ASSUME NEW u \in Uploads, UploadFails(u) PROVE TypeOK'
  <2>1. RequestsTypeOK'
    BY <1>5 DEF UploadFails, Goto, generated, rows, TypeOK, RequestsTypeOK, Actors,
        Uploads, PersonaAssumption, FilesTypeOK, Statuses, Clips, UploadStages
  <2>2. FilesTypeOK'
    BY <1>5 DEF UploadFails, Goto, generated, rows, TypeOK, RequestsTypeOK,
        FilesTypeOK, uploaded, Uploads, Clips
  <2>3. row' \in Statuses /\ step' \in Steps /\ clipRows' \in [Clips -> Nat]
    BY <1>5 DEF UploadFails, Goto, generated, rows, TypeOK, RequestsTypeOK, Statuses,
        Steps, Clips
  <2> QED
    BY <2>1, <2>2, <2>3 DEF TypeOK
<1>6. ASSUME NEW r \in Starts, ReadRow(r) PROVE TypeOK'
  <2>1. RequestsTypeOK'
    BY <1>6 DEF ReadRow, Goto, uploaded, generated, rows, TypeOK, RequestsTypeOK,
        Actors, Uploads, PersonaAssumption, FilesTypeOK, Statuses, Clips,
        StartStages, RunStages, StepAt
  <2>2. FilesTypeOK'
    BY <1>6 DEF ReadRow, Goto, uploaded, generated, rows, TypeOK, RequestsTypeOK,
        FilesTypeOK, Uploads, Clips
  <2>3. row' \in Statuses /\ step' \in Steps /\ clipRows' \in [Clips -> Nat]
    BY <1>6 DEF ReadRow, Goto, uploaded, generated, rows, TypeOK, RequestsTypeOK,
        Statuses, Steps, Clips
  <2> QED
    BY <2>1, <2>2, <2>3 DEF TypeOK
<1>7. ASSUME NEW r \in Starts, Accept(r) PROVE TypeOK'
  <2>1. RequestsTypeOK'
    BY <1>7 DEF Accept, Suspend, Goto, Forget, MayStart, InProgress, uploaded,
        generated, rows, StepAt, TypeOK, RequestsTypeOK, Actors, Uploads,
        PersonaAssumption, FilesTypeOK, Statuses, Clips, StartStages, RunStages
  <2>2. FilesTypeOK'
    BY <1>7 DEF Accept, Suspend, Goto, Forget, MayStart, InProgress, uploaded,
        generated, rows, StepAt, TypeOK, RequestsTypeOK, FilesTypeOK, Uploads, Clips
  <2>3. row' \in Statuses /\ step' \in Steps /\ clipRows' \in [Clips -> Nat]
    BY <1>7 DEF Accept, Suspend, Goto, Forget, MayStart, InProgress, uploaded,
        generated, rows, StepAt, TypeOK, RequestsTypeOK, Statuses, Steps, Clips
  <2> QED
    BY <2>1, <2>2, <2>3 DEF TypeOK
<1>8. ASSUME NEW r \in Starts, Refuse(r) PROVE TypeOK'
  <2>1. RequestsTypeOK'
    BY <1>8 DEF Refuse, Goto, Forget, MayStart, InProgress, uploaded, generated,
        rows, TypeOK, RequestsTypeOK, Actors, Uploads, PersonaAssumption,
        FilesTypeOK, Statuses, Clips, StartStages, RunStages, StepAt
  <2>2. FilesTypeOK'
    BY <1>8 DEF Refuse, Goto, Forget, MayStart, InProgress, uploaded, generated,
        rows, TypeOK, RequestsTypeOK, FilesTypeOK, Uploads, Clips
  <2>3. row' \in Statuses /\ step' \in Steps /\ clipRows' \in [Clips -> Nat]
    BY <1>8 DEF Refuse, Goto, Forget, MayStart, InProgress, uploaded, generated,
        rows, TypeOK, RequestsTypeOK, Statuses, Steps, Clips
  <2> QED
    BY <2>1, <2>2, <2>3 DEF TypeOK
<1>9. ASSUME NEW r \in Starts, Started(r) PROVE TypeOK'
  <2>1. RequestsTypeOK'
    <3>1. \E st \in RunStages : stage' = [stage EXCEPT ![r] = st]
      BY <1>9, StageAfterIdle DEF Started, TranscribeOrSkip, Suspend, Goto, RunStages, StepAt
    <3>2. /\ stage' \in [Actors -> StartStages \cup UploadStages \cup DeleteStages]
          /\ \A q \in Starts : stage'[q] \in StartStages
          /\ \A u \in Uploads : stage'[u] \in UploadStages
          /\ \A d \in Deletes : stage'[d] \in DeleteStages
      BY <3>1 DEF TypeOK, RequestsTypeOK, StartStages, Actors, PersonaAssumption
    <3>3. picked' \in [Starts -> Voices \cup {NoFile}] /\ saw' = saw /\ left' = left
      BY <1>9 DEF Started, NewestVoices, TypeOK, RequestsTypeOK, FilesTypeOK
    <3>4. heard' \in [Starts -> Voices \cup {NoFile}]
      BY <1>9 DEF Started, TranscribeOrSkip, TypeOK, RequestsTypeOK, FilesTypeOK
    <3>5. at' \in [Starts -> Clips]
      BY <1>9, RenderIdleEffect DEF Started, TranscribeOrSkip, TypeOK, RequestsTypeOK
    <3> QED
      BY <3>2, <3>3, <3>4, <3>5 DEF TypeOK, RequestsTypeOK
  <2>2. FilesTypeOK'
    BY <1>9 DEF Started, Suspend, Goto, Updated, NewestVoices, TranscribeOrSkip,
        uploaded, generated, StepAt, TypeOK, RequestsTypeOK, FilesTypeOK, Uploads,
        Clips
  <2>3. row' \in Statuses /\ step' \in Steps /\ clipRows' \in [Clips -> Nat]
    BY <1>9, RenderIdleEffect DEF Started, Suspend, Goto, Updated, NewestVoices,
        TranscribeOrSkip, uploaded, generated, StepAt, TypeOK, RequestsTypeOK, rows,
        Statuses, Steps, Clips
  <2> QED
    BY <2>1, <2>2, <2>3 DEF TypeOK
<1>10. ASSUME NEW r \in Starts, StartFails(r) PROVE TypeOK'
  <2>1. RequestsTypeOK'
    BY <1>10 DEF StartFails, Suspend, Goto, Updated, HasVoice, HasPhoto, uploaded,
        generated, StepAt, TypeOK, RequestsTypeOK, Actors, Uploads,
        PersonaAssumption, FilesTypeOK, Statuses, Clips, StartStages, RunStages
  <2>2. FilesTypeOK'
    BY <1>10 DEF StartFails, Suspend, Goto, Updated, HasVoice, HasPhoto, uploaded,
        generated, StepAt, TypeOK, RequestsTypeOK, FilesTypeOK, Uploads, Clips
  <2>3. row' \in Statuses /\ step' \in Steps /\ clipRows' \in [Clips -> Nat]
    BY <1>10 DEF StartFails, Suspend, Goto, Updated, HasVoice, HasPhoto, uploaded,
        generated, StepAt, TypeOK, RequestsTypeOK, rows, Statuses, Steps, Clips
  <2> QED
    BY <2>1, <2>2, <2>3 DEF TypeOK
<1>11. ASSUME NEW r \in Starts, AudioOpened(r) PROVE TypeOK'
  <2>1. RequestsTypeOK'
    BY <1>11 DEF AudioOpened, Suspend, Goto, uploaded, rows, StepAt, TypeOK,
        RequestsTypeOK, Actors, Uploads, PersonaAssumption, FilesTypeOK, Statuses,
        Clips, StartStages, RunStages
  <2>2. FilesTypeOK'
    BY <1>11 DEF AudioOpened, Suspend, Goto, uploaded, rows, StepAt, TypeOK,
        RequestsTypeOK, FilesTypeOK, generated, Uploads, Clips
  <2>3. row' \in Statuses /\ step' \in Steps /\ clipRows' \in [Clips -> Nat]
    BY <1>11 DEF AudioOpened, Suspend, Goto, uploaded, rows, StepAt, TypeOK,
        RequestsTypeOK, Statuses, Steps, Clips
  <2> QED
    BY <2>1, <2>2, <2>3 DEF TypeOK
<1>12. ASSUME NEW r \in Starts, Extracted(r) PROVE TypeOK'
  <2>1. RequestsTypeOK'
    BY <1>12 DEF Extracted, Suspend, Goto, uploaded, rows, StepAt, TypeOK,
        RequestsTypeOK, Actors, Uploads, PersonaAssumption, FilesTypeOK, Statuses,
        Clips, StartStages, RunStages
  <2>2. FilesTypeOK'
    BY <1>12 DEF Extracted, Suspend, Goto, uploaded, rows, StepAt, TypeOK,
        RequestsTypeOK, FilesTypeOK, generated, Uploads, Clips
  <2>3. row' \in Statuses /\ step' \in Steps /\ clipRows' \in [Clips -> Nat]
    BY <1>12 DEF Extracted, Suspend, Goto, uploaded, rows, StepAt, TypeOK,
        RequestsTypeOK, Statuses, Steps, Clips
  <2> QED
    BY <2>1, <2>2, <2>3 DEF TypeOK
<1>13. ASSUME NEW r \in Starts, ExtractFails(r) PROVE TypeOK'
  <2>1. RequestsTypeOK'
    BY <1>13 DEF ExtractFails, Suspend, Goto, uploaded, rows, StepAt, TypeOK,
        RequestsTypeOK, Actors, Uploads, PersonaAssumption, FilesTypeOK, Statuses,
        Clips, StartStages, RunStages
  <2>2. FilesTypeOK'
    BY <1>13 DEF ExtractFails, Suspend, Goto, uploaded, rows, StepAt, TypeOK,
        RequestsTypeOK, FilesTypeOK, generated, Uploads, Clips
  <2>3. row' \in Statuses /\ step' \in Steps /\ clipRows' \in [Clips -> Nat]
    BY <1>13 DEF ExtractFails, Suspend, Goto, uploaded, rows, StepAt, TypeOK,
        RequestsTypeOK, Statuses, Steps, Clips
  <2> QED
    BY <2>1, <2>2, <2>3 DEF TypeOK
<1>14. ASSUME NEW r \in Starts, Transcribed(r) PROVE TypeOK'
  <2>e. at' \in [Starts -> Clips] /\ \E st \in RunStages : stage' = [stage EXCEPT ![r] = st]
    BY <1>14, RenderIdleEffect DEF Transcribed, TypeOK, RunStages, StepAt
  <2>1. RequestsTypeOK'
    <3>1. UNCHANGED <<saw, picked, left>> /\ heard' \in [Starts -> Voices \cup {NoFile}]
      BY <1>14 DEF Transcribed, TypeOK, RequestsTypeOK
    <3> QED
      BY <3>1, <2>e DEF TypeOK, RequestsTypeOK, Actors, PersonaAssumption, Uploads,
          StartStages
  <2>2. FilesTypeOK'
    BY <1>14 DEF Transcribed, Suspend, Goto, uploaded, rows, StepAt, TypeOK,
        RequestsTypeOK, FilesTypeOK, generated, Uploads, Clips
  <2>3. row' \in Statuses /\ step' \in Steps /\ clipRows' \in [Clips -> Nat]
    BY <1>14, RenderIdleEffect DEF Transcribed, Suspend, Goto, uploaded, rows,
        StepAt, TypeOK, RequestsTypeOK, Statuses, Steps, Clips
  <2> QED
    BY <2>1, <2>2, <2>3 DEF TypeOK
<1>15. ASSUME NEW r \in Starts, TranscribeFails(r) PROVE TypeOK'
  <2>1. RequestsTypeOK'
    BY <1>15 DEF TranscribeFails, Suspend, Goto, uploaded, generated, rows, StepAt,
        TypeOK, RequestsTypeOK, Actors, Uploads, PersonaAssumption, FilesTypeOK,
        Statuses, Clips, StartStages, RunStages
  <2>2. FilesTypeOK'
    BY <1>15 DEF TranscribeFails, Suspend, Goto, uploaded, generated, rows, StepAt,
        TypeOK, RequestsTypeOK, FilesTypeOK, Uploads, Clips
  <2>3. row' \in Statuses /\ step' \in Steps /\ clipRows' \in [Clips -> Nat]
    BY <1>15 DEF TranscribeFails, Suspend, Goto, uploaded, generated, rows, StepAt,
        TypeOK, RequestsTypeOK, Statuses, Steps, Clips
  <2> QED
    BY <2>1, <2>2, <2>3 DEF TypeOK
<1>16. ASSUME NEW r \in Starts, Rendered(r) PROVE TypeOK'
  <2>n. at[r] + 1 \in {0, 1, 2} /\ RenderFrom(r, at[r] + 1)
    BY <1>16 DEF Rendered, TypeOK, RequestsTypeOK, Clips
  <2>a. at' \in [Starts -> Clips]
    BY <2>n, RenderFromEffect DEF TypeOK
  <2>s. \E st \in RunStages : stage' = [stage EXCEPT ![r] = st]
    BY <2>n DEF RenderFrom, Suspend, Goto, RunStages, StepAt
  <2>e. at' \in [Starts -> Clips] /\ \E st \in RunStages : stage' = [stage EXCEPT ![r] = st]
    BY <2>a, <2>s
  <2>1. RequestsTypeOK'
    BY <1>16, <2>e DEF Rendered, TypeOK, RequestsTypeOK, Actors, PersonaAssumption,
        Uploads, StartStages
  <2>2. FilesTypeOK'
    BY <1>16 DEF Rendered, Suspend, Goto, uploaded, rows, StepAt, TypeOK,
        RequestsTypeOK, FilesTypeOK, generated, Uploads, Clips
  <2>3. row' \in Statuses /\ step' \in Steps /\ clipRows' \in [Clips -> Nat]
    BY <1>16, RenderFromEffect DEF Rendered, Suspend, Goto, uploaded, rows, StepAt,
        TypeOK, RequestsTypeOK, Statuses, Steps, Clips
  <2> QED
    BY <2>1, <2>2, <2>3 DEF TypeOK
<1>17. ASSUME NEW r \in Starts, RenderFails(r) PROVE TypeOK'
  <2>1. RequestsTypeOK'
    BY <1>17 DEF RenderFails, Suspend, Goto, uploaded, rows, StepAt, TypeOK,
        RequestsTypeOK, Actors, Uploads, PersonaAssumption, FilesTypeOK, Statuses,
        Clips, StartStages, RunStages
  <2>2. FilesTypeOK'
    BY <1>17 DEF RenderFails, Suspend, Goto, uploaded, rows, StepAt, TypeOK,
        RequestsTypeOK, FilesTypeOK, generated, Uploads, Clips
  <2>3. row' \in Statuses /\ step' \in Steps /\ clipRows' \in [Clips -> Nat]
    BY <1>17 DEF RenderFails, Suspend, Goto, uploaded, rows, StepAt, TypeOK,
        RequestsTypeOK, Statuses, Steps, Clips
  <2> QED
    BY <2>1, <2>2, <2>3 DEF TypeOK
<1>18. ASSUME NEW r \in Starts, Registered(r) PROVE TypeOK'
  <2>e. at' \in [Starts -> Clips]
    BY <1>18 DEF Registered, TypeOK, RequestsTypeOK, Clips
  <2>1. RequestsTypeOK'
    BY <1>18, <2>e DEF Registered, Suspend, Goto, StepAt, RunStages, TypeOK,
        RequestsTypeOK, Actors, PersonaAssumption, Uploads, StartStages
  <2>2. FilesTypeOK'
    BY <1>18 DEF Registered, Suspend, Goto, uploaded, generated, StepAt, TypeOK,
        RequestsTypeOK, FilesTypeOK, Uploads, Clips
  <2>3. row' \in Statuses /\ step' \in Steps /\ clipRows' \in [Clips -> Nat]
    BY <1>18 DEF Registered, Suspend, Goto, uploaded, generated, StepAt, TypeOK,
        RequestsTypeOK, rows, Statuses, Steps, Clips
  <2> QED
    BY <2>1, <2>2, <2>3 DEF TypeOK
<1>19. ASSUME NEW r \in Starts, RegisterFails(r) PROVE TypeOK'
  <2>1. RequestsTypeOK'
    BY <1>19 DEF RegisterFails, Suspend, Goto, uploaded, generated, rows, StepAt,
        TypeOK, RequestsTypeOK, Actors, Uploads, PersonaAssumption, FilesTypeOK,
        Statuses, Clips, StartStages, RunStages
  <2>2. FilesTypeOK'
    BY <1>19 DEF RegisterFails, Suspend, Goto, uploaded, generated, rows, StepAt,
        TypeOK, RequestsTypeOK, FilesTypeOK, Uploads, Clips
  <2>3. row' \in Statuses /\ step' \in Steps /\ clipRows' \in [Clips -> Nat]
    BY <1>19 DEF RegisterFails, Suspend, Goto, uploaded, generated, rows, StepAt,
        TypeOK, RequestsTypeOK, Statuses, Steps, Clips
  <2> QED
    BY <2>1, <2>2, <2>3 DEF TypeOK
<1>20. ASSUME NEW r \in Starts, Readied(r) PROVE TypeOK'
  <2>1. RequestsTypeOK'
    BY <1>20 DEF Readied, Updated, Finish, Goto, uploaded, generated, TypeOK,
        RequestsTypeOK, Actors, Uploads, PersonaAssumption, FilesTypeOK, Statuses,
        Clips, StartStages, RunStages, StepAt
  <2>2. FilesTypeOK'
    BY <1>20 DEF Readied, Updated, Finish, Goto, uploaded, generated, TypeOK,
        RequestsTypeOK, FilesTypeOK, Uploads, Clips
  <2>3. row' \in Statuses /\ step' \in Steps /\ clipRows' \in [Clips -> Nat]
    BY <1>20 DEF Readied, Updated, Finish, Goto, uploaded, generated, TypeOK,
        RequestsTypeOK, rows, Statuses, Steps, Clips
  <2> QED
    BY <2>1, <2>2, <2>3 DEF TypeOK
<1>21. ASSUME NEW r \in Starts, ReadyFails(r) PROVE TypeOK'
  <2>1. RequestsTypeOK'
    BY <1>21 DEF ReadyFails, Suspend, Goto, uploaded, generated, rows, StepAt,
        TypeOK, RequestsTypeOK, Actors, Uploads, PersonaAssumption, FilesTypeOK,
        Statuses, Clips, StartStages, RunStages
  <2>2. FilesTypeOK'
    BY <1>21 DEF ReadyFails, Suspend, Goto, uploaded, generated, rows, StepAt,
        TypeOK, RequestsTypeOK, FilesTypeOK, Uploads, Clips
  <2>3. row' \in Statuses /\ step' \in Steps /\ clipRows' \in [Clips -> Nat]
    BY <1>21 DEF ReadyFails, Suspend, Goto, uploaded, generated, rows, StepAt,
        TypeOK, RequestsTypeOK, Statuses, Steps, Clips
  <2> QED
    BY <2>1, <2>2, <2>3 DEF TypeOK
<1>22. ASSUME NEW r \in Starts, Failed(r) PROVE TypeOK'
  <2>1. RequestsTypeOK'
    BY <1>22 DEF Failed, Updated, Finish, Goto, uploaded, generated, TypeOK,
        RequestsTypeOK, Actors, Uploads, PersonaAssumption, FilesTypeOK, Statuses,
        Clips, StartStages, RunStages, StepAt
  <2>2. FilesTypeOK'
    BY <1>22 DEF Failed, Updated, Finish, Goto, uploaded, generated, TypeOK,
        RequestsTypeOK, FilesTypeOK, Uploads, Clips
  <2>3. row' \in Statuses /\ step' \in Steps /\ clipRows' \in [Clips -> Nat]
    BY <1>22 DEF Failed, Updated, Finish, Goto, uploaded, generated, TypeOK,
        RequestsTypeOK, rows, Statuses, Steps, Clips
  <2> QED
    BY <2>1, <2>2, <2>3 DEF TypeOK
<1>23. ASSUME NEW d \in Deletes, DeleteAdmitted(d) PROVE TypeOK'
  <2>1. RequestsTypeOK'
    BY <1>23 DEF DeleteAdmitted, Goto, uploaded, generated, rows, TypeOK,
        RequestsTypeOK, Actors, Uploads, PersonaAssumption, FilesTypeOK, Statuses,
        Clips, DeleteStages, Entries
  <2>2. FilesTypeOK'
    BY <1>23 DEF DeleteAdmitted, Goto, uploaded, generated, rows, TypeOK,
        RequestsTypeOK, FilesTypeOK, Uploads, Clips
  <2>3. row' \in Statuses /\ step' \in Steps /\ clipRows' \in [Clips -> Nat]
    BY <1>23 DEF DeleteAdmitted, Goto, uploaded, generated, rows, TypeOK,
        RequestsTypeOK, Statuses, Steps, Clips
  <2> QED
    BY <2>1, <2>2, <2>3 DEF TypeOK
<1>24. ASSUME NEW d \in Deletes, Removed(d) PROVE TypeOK'
  <2>1. RequestsTypeOK'
    BY <1>24 DEF Removed, Goto, NoFiles, uploaded, generated, rows, TypeOK,
        RequestsTypeOK, Actors, Uploads, PersonaAssumption, FilesTypeOK, Statuses,
        Clips, DeleteStages, Entries
  <2>2. FilesTypeOK'
    BY <1>24 DEF Removed, Goto, NoFiles, uploaded, generated, rows, TypeOK,
        RequestsTypeOK, FilesTypeOK, Uploads, Clips
  <2>3. row' \in Statuses /\ step' \in Steps /\ clipRows' \in [Clips -> Nat]
    BY <1>24 DEF Removed, Goto, NoFiles, uploaded, generated, rows, TypeOK,
        RequestsTypeOK, Statuses, Steps, Clips
  <2> QED
    BY <2>1, <2>2, <2>3 DEF TypeOK
<1>25. ASSUME NEW d \in Deletes, RemoveFails(d) PROVE TypeOK'
  <2>1. RequestsTypeOK'
    BY <1>25 DEF RemoveFails, Goto, uploaded, generated, rows, TypeOK,
        RequestsTypeOK, Actors, Uploads, PersonaAssumption, FilesTypeOK, Statuses,
        Clips, DeleteStages, Entries
  <2>2. FilesTypeOK'
    BY <1>25 DEF RemoveFails, Goto, uploaded, generated, rows, TypeOK,
        RequestsTypeOK, FilesTypeOK, Uploads, Clips
  <2>3. row' \in Statuses /\ step' \in Steps /\ clipRows' \in [Clips -> Nat]
    BY <1>25 DEF RemoveFails, Goto, uploaded, generated, rows, TypeOK,
        RequestsTypeOK, Statuses, Steps, Clips
  <2> QED
    BY <2>1, <2>2, <2>3 DEF TypeOK
<1>26. ASSUME NEW d \in Deletes, Dropped(d) PROVE TypeOK'
  <2>1. RequestsTypeOK'
    BY <1>26 DEF Dropped, Goto, uploaded, generated, TypeOK, RequestsTypeOK, Actors,
        Uploads, PersonaAssumption, FilesTypeOK, Statuses, Clips, DeleteStages,
        Entries
  <2>2. FilesTypeOK'
    BY <1>26 DEF Dropped, Goto, uploaded, generated, TypeOK, RequestsTypeOK,
        FilesTypeOK, Uploads, Clips
  <2>3. row' \in Statuses /\ step' \in Steps /\ clipRows' \in [Clips -> Nat]
    BY <1>26 DEF Dropped, Goto, uploaded, generated, TypeOK, RequestsTypeOK, rows,
        Statuses, Steps, Clips
  <2> QED
    BY <2>1, <2>2, <2>3 DEF TypeOK
<1>27. ASSUME NEW d \in Deletes, DropFails(d) PROVE TypeOK'
  <2>1. RequestsTypeOK'
    BY <1>27 DEF DropFails, Goto, uploaded, generated, rows, TypeOK, RequestsTypeOK,
        Actors, Uploads, PersonaAssumption, FilesTypeOK, Statuses, Clips,
        DeleteStages, Entries
  <2>2. FilesTypeOK'
    BY <1>27 DEF DropFails, Goto, uploaded, generated, rows, TypeOK, RequestsTypeOK,
        FilesTypeOK, Uploads, Clips
  <2>3. row' \in Statuses /\ step' \in Steps /\ clipRows' \in [Clips -> Nat]
    BY <1>27 DEF DropFails, Goto, uploaded, generated, rows, TypeOK, RequestsTypeOK,
        Statuses, Steps, Clips
  <2> QED
    BY <2>1, <2>2, <2>3 DEF TypeOK
<1>28. ASSUME NEW d \in Deletes, NEW k \in Entries, RemoveEntry(d, k) PROVE TypeOK'
  <2>1. RequestsTypeOK'
    BY <1>28 DEF RemoveEntry, rows, TypeOK, RequestsTypeOK, Actors, Uploads,
        PersonaAssumption, FilesTypeOK, Statuses, Clips, DeleteStages, Entries
  <2>2. FilesTypeOK'
    BY <1>28 DEF RemoveEntry, rows, TypeOK, RequestsTypeOK, FilesTypeOK,
        uploaded, generated, Uploads, Clips
  <2>3. row' \in Statuses /\ step' \in Steps /\ clipRows' \in [Clips -> Nat]
    BY <1>28 DEF RemoveEntry, rows, TypeOK, RequestsTypeOK, Statuses, Steps,
        Clips
  <2> QED
    BY <2>1, <2>2, <2>3 DEF TypeOK
<1>29. ASSUME Crash PROVE TypeOK'
  BY <1>29 DEF Crash, Restarts, TypeOK, RequestsTypeOK, FilesTypeOK, uploaded, Statuses,
      Steps, StartStages, UploadStages, DeleteStages, Actors, Uploads, Clips, Entries, PersonaAssumption
<1>30. ASSUME Shutdown PROVE TypeOK'
  <2>1. /\ Restarts /\ row' \in Statuses
        /\ clips' \subseteq Clips /\ wholeClips' \subseteq Clips
    BY <1>30 DEF Shutdown, Updated, TypeOK, FilesTypeOK, Statuses
  <2> QED
    BY <2>1 DEF Restarts, TypeOK, RequestsTypeOK, FilesTypeOK, uploaded, Statuses, Steps,
        StartStages, UploadStages, DeleteStages, Actors, Uploads, Clips, Entries, PersonaAssumption
<1>31. ASSUME NEW r \in Starts, ClipOpened(r) PROVE TypeOK'
  <2>1. RequestsTypeOK'
    BY <1>31 DEF ClipOpened, Suspend, Goto, uploaded, rows, StepAt, TypeOK,
        RequestsTypeOK, Actors, Uploads, PersonaAssumption, FilesTypeOK, Statuses,
        Clips, StartStages, RunStages
  <2>2. FilesTypeOK'
    BY <1>31 DEF ClipOpened, uploaded, TypeOK, RequestsTypeOK, FilesTypeOK, Uploads, Clips
  <2>3. row' \in Statuses /\ step' \in Steps /\ clipRows' \in [Clips -> Nat]
    BY <1>31 DEF ClipOpened, Suspend, Goto, rows, StepAt, TypeOK, Statuses, Steps
  <2> QED
    BY <2>1, <2>2, <2>3 DEF TypeOK
<1>32. ASSUME UNCHANGED vars PROVE TypeOK'
  BY <1>32 DEF vars, memory, uploaded, generated, rows, TypeOK, RequestsTypeOK, FilesTypeOK
<1> QED
  BY <1>1, <1>2, <1>3, <1>4, <1>5, <1>6, <1>7, <1>8, <1>9, <1>10, <1>11, <1>12, <1>13, <1>14, <1>15, <1>16, <1>17, <1>18, <1>19, <1>20, <1>21, <1>22, <1>23, <1>24, <1>25, <1>26, <1>27, <1>28, <1>29, <1>30, <1>31, <1>32
     DEF Next, UploadStep, RequestStep, RunStep, DeleteStep, Quiet

(* Types are right whatever the requests and the environment do. *)
THEOREM TypeCorrect == Spec => []TypeOK
<1>1. Init => TypeOK
  BY TypeInit, PersonaAssumption
<1>2. TypeOK /\ [Next]_vars => TypeOK'
  BY TypeStep, PersonaAssumption
<1> QED
  BY <1>1, <1>2, PTL DEF Spec
-----------------------------------------------------------------------------
(* Exclusion.  The step a run has set is what keeps the next /process out:  *)
(* while a run works, the step is one of a run in progress.                 *)
ExclInv ==
    /\ \A r \in Starts : Working(r) => InProgress
    /\ WorkersExclusive

(* A step of the run r that leaves the others where they are. *)
LEMMA ExclusionKept ==
    ASSUME PersonaAssumption, TypeOK, ExclInv, NEW r \in Starts, NEW st \in RunStages,
           Working(r) \/ ~InProgress, stage' = [stage EXCEPT ![r] = st], step' = StepAt[st]
    PROVE  ExclInv'
BY DEF TypeOK, RequestsTypeOK, ExclInv, WorkersExclusive, Working, InProgress, RunStages,
       StepAt, Actors

(* A step of a request that is not a run, or with which a run ends. *)
LEMMA ExclusionUntouched ==
    ASSUME PersonaAssumption, TypeOK, ExclInv, NEW a \in Actors, UNCHANGED step,
           NEW st \in UploadStages \cup DeleteStages \cup {"checking", "done"},
           stage' = [stage EXCEPT ![a] = st] \/ stage' = stage
    PROVE  ExclInv'
BY DEF TypeOK, RequestsTypeOK, ExclInv, WorkersExclusive, Working, InProgress, RunStages,
       StepAt, Actors, UploadStages, DeleteStages

(* No run works in the beginning. *)
LEMMA ExclusionInit == Init => ExclInv
BY DEF Init, ExclInv, WorkersExclusive, Working, RunStages, StepAt, Actors

(* Only a READY update that fails sets a step while another run may work.    *)
LEMMA ExclusionStep ==
    ASSUME PersonaAssumption, TypeOK, ExclInv, [Next]_vars,
           DbMayFail => \A r \in Starts : stage[r] # "readying"
    PROVE  ExclInv'

<1>1. ASSUME NEW u \in Uploads, UploadAdmitted(u) PROVE ExclInv'
  BY <1>1, ExclusionUntouched DEF UploadAdmitted, Goto, uploaded, generated, rows,
      Actors, Uploads, UploadStages, DeleteStages
<1>2. ASSUME NEW u \in Uploads, UploadRejected(u) PROVE ExclInv'
  BY <1>2, ExclusionUntouched DEF UploadRejected, Goto, uploaded, generated, rows,
      Actors, Uploads, UploadStages, DeleteStages
<1>3. ASSUME NEW u \in Uploads, UploadWrites(u) PROVE ExclInv'
  BY <1>3, ExclusionUntouched DEF UploadWrites, Goto, generated, rows, Actors,
      Uploads, UploadStages, DeleteStages
<1>4. ASSUME NEW u \in Uploads, UploadStored(u) PROVE ExclInv'
  BY <1>4, ExclusionUntouched DEF UploadStored, Goto, generated, rows, Actors,
      Uploads, UploadStages, DeleteStages
<1>5. ASSUME NEW u \in Uploads, UploadFails(u) PROVE ExclInv'
  BY <1>5, ExclusionUntouched DEF UploadFails, Goto, generated, rows, Actors,
      Uploads, UploadStages, DeleteStages
<1>6. ASSUME NEW r \in Starts, ReadRow(r) PROVE ExclInv'
  BY <1>6, ExclusionUntouched DEF ReadRow, Goto, uploaded, generated, rows, Actors,
      Uploads, UploadStages, DeleteStages
<1>7. ASSUME NEW r \in Starts, Accept(r) PROVE ExclInv'
  BY <1>7, ExclusionKept DEF Accept, Suspend, Goto, MayStart, Working, RunStages, StepAt
<1>8. ASSUME NEW r \in Starts, Refuse(r) PROVE ExclInv'
  BY <1>8, ExclusionUntouched DEF Refuse, Goto, Forget, MayStart, InProgress,
      uploaded, generated, rows, Actors, Uploads, UploadStages, DeleteStages
<1>9. ASSUME NEW r \in Starts, Started(r) PROVE ExclInv'
  <2>1. Working(r)
    BY <1>9 DEF Started, Working, RunStages, StepAt
  <2>2. \E st \in RunStages : stage' = [stage EXCEPT ![r] = st] /\ step' = StepAt[st]
    BY <1>9, StageAfterIdle DEF Started, TranscribeOrSkip, Suspend, Goto, RunStages, StepAt, TypeOK
  <2> QED
    BY <2>1, <2>2, ExclusionKept
<1>10. ASSUME NEW r \in Starts, StartFails(r) PROVE ExclInv'
  BY <1>10, ExclusionKept DEF StartFails, Suspend, Goto, MayStart, Working, RunStages, StepAt
<1>11. ASSUME NEW r \in Starts, AudioOpened(r) PROVE ExclInv'
  BY <1>11, ExclusionKept DEF AudioOpened, Suspend, Goto, MayStart, Working, RunStages, StepAt
<1>12. ASSUME NEW r \in Starts, Extracted(r) PROVE ExclInv'
  BY <1>12, ExclusionKept DEF Extracted, Suspend, Goto, MayStart, Working, RunStages, StepAt
<1>13. ASSUME NEW r \in Starts, ExtractFails(r) PROVE ExclInv'
  BY <1>13, ExclusionKept DEF ExtractFails, Suspend, Goto, MayStart, Working, RunStages, StepAt
<1>14. ASSUME NEW r \in Starts, Transcribed(r) PROVE ExclInv'
  <2>1. Working(r)
    BY <1>14 DEF Transcribed, Working, RunStages, StepAt
  <2>2. \E st \in RunStages : stage' = [stage EXCEPT ![r] = st] /\ step' = StepAt[st]
    BY <1>14, StageAfterIdle DEF Transcribed, TypeOK
  <2> QED
    BY <2>1, <2>2, ExclusionKept
<1>15. ASSUME NEW r \in Starts, TranscribeFails(r) PROVE ExclInv'
  BY <1>15, ExclusionKept DEF TranscribeFails, Suspend, Goto, MayStart, Working, RunStages, StepAt
<1>16. ASSUME NEW r \in Starts, Rendered(r) PROVE ExclInv'
  <2>1. Working(r)
    BY <1>16 DEF Rendered, Working, RunStages, StepAt
  <2>2. \E st \in RunStages : stage' = [stage EXCEPT ![r] = st] /\ step' = StepAt[st]
    BY <1>16 DEF Rendered, RenderFrom, Suspend, Goto, RunStages, StepAt
  <2> QED
    BY <2>1, <2>2, ExclusionKept
<1>17. ASSUME NEW r \in Starts, RenderFails(r) PROVE ExclInv'
  BY <1>17, ExclusionKept DEF RenderFails, Suspend, Goto, MayStart, Working, RunStages, StepAt
<1>18. ASSUME NEW r \in Starts, Registered(r) PROVE ExclInv'
  <2>1. Working(r)
    BY <1>18 DEF Registered, Working, RunStages, StepAt
  <2>2. \E st \in RunStages : stage' = [stage EXCEPT ![r] = st] /\ step' = StepAt[st]
    BY <1>18 DEF Registered, Suspend, Goto, RunStages, StepAt
  <2> QED
    BY <2>1, <2>2, ExclusionKept
<1>19. ASSUME NEW r \in Starts, RegisterFails(r) PROVE ExclInv'
  BY <1>19, ExclusionKept DEF RegisterFails, Suspend, Goto, MayStart, Working, RunStages, StepAt
<1>20. ASSUME NEW r \in Starts, Readied(r) PROVE ExclInv'
  BY <1>20, ExclusionUntouched DEF Readied, Updated, Finish, Goto, uploaded,
      generated, Actors, Uploads, UploadStages, DeleteStages
<1>21. ASSUME NEW r \in Starts, ReadyFails(r) PROVE ExclInv'
  BY <1>21 DEF ReadyFails
<1>22. ASSUME NEW r \in Starts, Failed(r) PROVE ExclInv'
  BY <1>22, ExclusionUntouched DEF Failed, Updated, Finish, Goto, uploaded,
      generated, Actors, Uploads, UploadStages, DeleteStages
<1>23. ASSUME NEW d \in Deletes, DeleteAdmitted(d) PROVE ExclInv'
  BY <1>23, ExclusionUntouched DEF DeleteAdmitted, Goto, uploaded, generated, rows,
      Actors, Uploads, UploadStages, DeleteStages
<1>24. ASSUME NEW d \in Deletes, Removed(d) PROVE ExclInv'
  BY <1>24, ExclusionUntouched DEF Removed, Goto, NoFiles, uploaded, generated, rows,
      Actors, Uploads, UploadStages, DeleteStages
<1>25. ASSUME NEW d \in Deletes, RemoveFails(d) PROVE ExclInv'
  BY <1>25, ExclusionUntouched DEF RemoveFails, Goto, uploaded, generated, rows,
      Actors, Uploads, UploadStages, DeleteStages
<1>26. ASSUME NEW d \in Deletes, Dropped(d) PROVE ExclInv'
  BY <1>26, ExclusionUntouched DEF Dropped, Goto, uploaded, generated, Actors,
      Uploads, UploadStages, DeleteStages
<1>27. ASSUME NEW d \in Deletes, DropFails(d) PROVE ExclInv'
  BY <1>27, ExclusionUntouched DEF DropFails, Goto, uploaded, generated, rows,
      Actors, Uploads, UploadStages, DeleteStages
<1>28. ASSUME NEW d \in Deletes, NEW k \in Entries, RemoveEntry(d, k) PROVE ExclInv'
  BY <1>28, ExclusionUntouched DEF RemoveEntry, rows, Actors, Uploads,
      UploadStages, DeleteStages
<1>29. ASSUME Crash PROVE ExclInv'
  BY <1>29 DEF Crash, Restarts, ExclInv, WorkersExclusive, Working, RunStages, StepAt, Actors
<1>30. ASSUME Shutdown PROVE ExclInv'
  BY <1>30 DEF Shutdown, Restarts, ExclInv, WorkersExclusive, Working, RunStages, StepAt, Actors
<1>31. ASSUME NEW r \in Starts, ClipOpened(r) PROVE ExclInv'
  BY <1>31, ExclusionKept DEF ClipOpened, Suspend, Goto, Working, RunStages, StepAt
<1>32. ASSUME UNCHANGED vars PROVE ExclInv'
  BY <1>32 DEF vars, memory, ExclInv, WorkersExclusive, Working, InProgress
<1> QED
  BY <1>1, <1>2, <1>3, <1>4, <1>5, <1>6, <1>7, <1>8, <1>9, <1>10, <1>11, <1>12, <1>13, <1>14, <1>15, <1>16, <1>17, <1>18, <1>19, <1>20, <1>21, <1>22, <1>23, <1>24, <1>25, <1>26, <1>27, <1>28, <1>29, <1>30, <1>31, <1>32
     DEF Next, UploadStep, RequestStep, RunStep, DeleteStep, Quiet

(* As long as no update to READY fails, two runs never work for the same    *)
(* persona at the same time, however many /process arrive and however old   *)
(* the rows they have read.                                                 *)
THEOREM RunsExclusive ==
    ASSUME "db" \notin Environment
    PROVE  Spec => []WorkersExclusive
<1> DEFINE Inv == TypeOK /\ ExclInv
<1>1. Init => Inv
  BY TypeInit, ExclusionInit, PersonaAssumption
<1>2. Inv /\ [Next]_vars => Inv'
  BY TypeStep, ExclusionStep, PersonaAssumption DEF DbMayFail
<1>3. Inv => WorkersExclusive
  BY DEF ExclInv
<1> QED
  BY <1>1, <1>2, <1>3, PTL DEF Spec
-----------------------------------------------------------------------------
(* Completeness.  What the runs of a persona that nobody deletes have made   *)
(* at each stage; once everything is made, nothing is made again, so that    *)
(* exclusion, which a failed READY update breaks, is needed only before.     *)
Undisturbed == \A d \in Deletes : stage[d] = "idle"

Made ==
    /\ refAudio # NoFile /\ refText # NoFile /\ clips = Clips
    /\ \A r \in Starts : stage[r] # "muxing"

AllRows == \A i \in Clips : clipRows[i] > 0

FilesInOrder ==
    /\ refText # NoFile => refAudio # NoFile
    /\ clips # {} => refText # NoFile

OnTrack(r) ==
    /\ stage[r] \in {"extracting", "trimming", "transcribing"} => refText = NoFile
    /\ stage[r] \in {"trimming", "transcribing"} => refAudio # NoFile
    /\ stage[r] = "extracting" => picked[r] # NoFile
    /\ stage[r] = "transcribing" => heard[r] # NoFile
    /\ stage[r] = "rendering" =>
          refText # NoFile /\ at[r] \notin clips /\ \A j \in Clips : j < at[r] => j \in clips
    /\ stage[r] = "muxing" =>
          refText # NoFile /\ at[r] \in clips /\ \A j \in Clips : j < at[r] => j \in clips
    /\ stage[r] = "registering" => Made /\ (at[r] = 1 => clipRows[0] > 0)
    /\ stage[r] = "readying" => Made /\ AllRows

MakingInv ==
    Undisturbed =>
        /\ Made \/ ExclInv
        /\ FilesInOrder
        /\ \A r \in Starts : OnTrack(r)
        /\ row = "READY" => Made /\ AllRows

(* The stages OnTrack says nothing about. *)
Harmless == {"idle", "checking", "starting", "failing", "done"}

(* Nothing is made in the beginning. *)
LEMMA MakingInit == PersonaAssumption /\ Init => MakingInv
BY ExclusionInit DEF Init, MakingInv, FilesInOrder, OnTrack, Actors

(* Made or exclusive: what the steps that leave the files alone keep. *)
LEMMA MadeOrExclusive ==
    ASSUME PersonaAssumption, TypeOK, MakingInv, Undisturbed, [Next]_vars, Made => Made'
    PROVE  (Made \/ ExclInv)'
<1>1. CASE Made
  BY <1>1
<1>2. CASE ~Made
  <2>1. ExclInv /\ \A r \in Starts : stage[r] # "readying"
    BY <1>2 DEF MakingInv, OnTrack
  <2> QED
    BY <2>1, ExclusionStep
<1> QED
  BY <1>1, <1>2

(* Nobody else is at a stage that matters while r makes something. *)
LEMMA Alone ==
    ASSUME PersonaAssumption, TypeOK, MakingInv, Undisturbed, ~Made, NEW r \in Starts,
           Working(r), NEW q \in Starts, q # r
    PROVE  stage[q] \in Harmless
<1>1. ExclInv /\ OnTrack(q)
  BY DEF MakingInv
<1>2. ~Working(q) /\ stage[q] # "readying"
  BY <1>1 DEF ExclInv, WorkersExclusive, OnTrack
<1> QED
  BY <1>2 DEF Working, RunStages, StepAt, Harmless, TypeOK, RequestsTypeOK, StartStages

(* Nor is anybody at work on a clip while r is at another stage of its work. *)
LEMMA NobodyMuxes ==
    ASSUME PersonaAssumption, TypeOK, MakingInv, Undisturbed, NEW r \in Starts,
           Working(r), NEW q \in Starts, q # r
    PROVE  stage[q] # "muxing"
<1>1. CASE Made
  BY <1>1 DEF Made
<1>2. CASE ~Made
  BY <1>2, Alone DEF Harmless
<1> QED
  BY <1>1, <1>2

(* A step that touches no file and leaves the stages that matter as they    *)
(* are or brings them to one that does not matter.                          *)
LEMMA MakingUntouched ==
    ASSUME PersonaAssumption, TypeOK, MakingInv, Undisturbed, [Next]_vars,
           UNCHANGED <<refAudio, refText, clips, clipRows>>,
           row' = row \/ row' # "READY",
           \A q \in Starts :
              \/ stage'[q] \in Harmless
              \/ /\ stage'[q] = stage[q] /\ picked'[q] = picked[q]
                 /\ heard'[q] = heard[q] /\ at'[q] = at[q]
    PROVE  MakingInv'
<1>0. Made => Made'
  BY DEF Made, Harmless
<1>1. (Made \/ ExclInv)'
  BY <1>0, MadeOrExclusive
<1>2. FilesInOrder' /\ (row' = "READY" => (Made /\ AllRows)')
  BY <1>0 DEF MakingInv, FilesInOrder, AllRows
<1>3. ASSUME NEW q \in Starts PROVE OnTrack(q)'
  <2>1. CASE stage'[q] \in Harmless
    BY <2>1 DEF Harmless, OnTrack
  <2>2. CASE /\ stage'[q] = stage[q] /\ picked'[q] = picked[q]
             /\ heard'[q] = heard[q] /\ at'[q] = at[q]
    BY <1>0, <2>2 DEF MakingInv, OnTrack, AllRows
  <2> QED
    BY <2>1, <2>2
<1> QED
  BY <1>1, <1>2, <1>3 DEF MakingInv

(* A step of the run r while there is still something to make: the others   *)
(* are out of the way.                                                      *)
LEMMA MakingByOne ==
    ASSUME PersonaAssumption, TypeOK, MakingInv, Undisturbed, [Next]_vars, ~Made,
           NEW r \in Starts, Working(r),
           \A q \in Starts \ {r} : stage'[q] = stage[q],
           UNCHANGED row, FilesInOrder', OnTrack(r)'
    PROVE  MakingInv'
<1>1. (Made \/ ExclInv)'
  BY MadeOrExclusive
<1>2. row # "READY"
  BY DEF MakingInv
<1>3. ASSUME NEW q \in Starts PROVE OnTrack(q)'
  <2>1. CASE q # r
    <3>1. stage'[q] \in Harmless
      BY <2>1, Alone
    <3> QED
      BY <3>1 DEF Harmless, OnTrack
  <2> QED
    BY <2>1
<1> QED
  BY <1>1, <1>2, <1>3 DEF MakingInv

(* Step 4, begun with both files of the voice reference there. *)
LEMMA OthersAfterIdle ==
    ASSUME TypeOK, NEW r \in Starts, RenderIdle(r)
    PROVE  \A q \in Starts \ {r} : stage'[q] = stage[q] /\ at'[q] = at[q]
<1>1. \E st \in RunStages : stage' = [stage EXCEPT ![r] = st]
  BY StageAfterIdle
<1>2. \A q \in Starts \ {r} : at'[q] = at[q]
  BY RenderIdleEffect DEF TypeOK
<1> QED
  BY <1>1, <1>2 DEF TypeOK, RequestsTypeOK, Actors

(* Where r itself then is on its way to READY. *)
LEMMA TrackAfterIdle ==
    ASSUME TypeOK, NEW r \in Starts, RenderIdle(r), clips' = clips,
           refAudio' # NoFile, refText' # NoFile,
           \A q \in Starts \ {r} : stage[q] # "muxing"
    PROVE  OnTrack(r)'
<1>1. CASE /\ stage' = [stage EXCEPT ![r] = "registering"]
           /\ at'[r] = 0 /\ Clips \subseteq clips
  <2>1. /\ stage'[r] = "registering" /\ clips' = Clips
        /\ \A q \in Starts : stage'[q] # "muxing"
    BY <1>1 DEF TypeOK, RequestsTypeOK, FilesTypeOK, Actors
  <2> QED
    BY <1>1, <2>1 DEF OnTrack, Made
<1>2. CASE /\ stage' = [stage EXCEPT ![r] = "rendering"]
           /\ at'[r] \notin clips /\ \A j \in Clips : j < at'[r] => j \in clips
  <2>1. stage'[r] = "rendering"
    BY <1>2 DEF TypeOK, RequestsTypeOK, Actors
  <2> QED
    BY <1>2, <2>1 DEF OnTrack
<1>3. CASE stage' = [stage EXCEPT ![r] = "failing"]
  BY <1>3 DEF OnTrack, TypeOK, RequestsTypeOK, Actors
<1> QED
  BY <1>1, <1>2, <1>3, RenderIdleEffect DEF TypeOK

(* Every step keeps what the runs have made in order. *)
LEMMA MakingStep ==
    ASSUME PersonaAssumption, TypeOK, MakingInv, [Next]_vars
    PROVE  MakingInv'
<1> SUFFICES ASSUME Undisturbed' PROVE MakingInv'
  BY DEF MakingInv
<1> USE DEF Harmless

<1>1. ASSUME NEW u \in Uploads, UploadAdmitted(u) PROVE MakingInv'
  <2>1. Undisturbed
    BY <1>1 DEF UploadAdmitted, Goto, uploaded, generated, rows, Undisturbed, Actors,
        Uploads, TypeOK, RequestsTypeOK, PersonaAssumption
  <2> QED
    BY <1>1, <2>1, MakingUntouched DEF UploadAdmitted, Goto, uploaded, generated,
        rows, TypeOK, RequestsTypeOK, Actors, Uploads, PersonaAssumption
<1>2. ASSUME NEW u \in Uploads, UploadRejected(u) PROVE MakingInv'
  <2>1. Undisturbed
    BY <1>2 DEF UploadRejected, Goto, uploaded, generated, rows, Undisturbed, Actors,
        Uploads, TypeOK, RequestsTypeOK, PersonaAssumption
  <2> QED
    BY <1>2, <2>1, MakingUntouched DEF UploadRejected, Goto, uploaded, generated,
        rows, TypeOK, RequestsTypeOK, Actors, Uploads, PersonaAssumption
<1>3. ASSUME NEW u \in Uploads, UploadWrites(u) PROVE MakingInv'
  <2>1. Undisturbed
    BY <1>3 DEF UploadWrites, Goto, generated, rows, Undisturbed, Actors, Uploads,
        TypeOK, RequestsTypeOK, PersonaAssumption
  <2> QED
    BY <1>3, <2>1, MakingUntouched DEF UploadWrites, Goto, generated, rows, uploaded,
        TypeOK, RequestsTypeOK, Actors, Uploads, PersonaAssumption
<1>4. ASSUME NEW u \in Uploads, UploadStored(u) PROVE MakingInv'
  <2>1. Undisturbed
    BY <1>4 DEF UploadStored, Goto, generated, rows, Undisturbed, Actors, Uploads,
        TypeOK, RequestsTypeOK, PersonaAssumption
  <2> QED
    BY <1>4, <2>1, MakingUntouched DEF UploadStored, Goto, generated, rows, uploaded,
        TypeOK, RequestsTypeOK, Actors, Uploads, PersonaAssumption
<1>5. ASSUME NEW u \in Uploads, UploadFails(u) PROVE MakingInv'
  <2>1. Undisturbed
    BY <1>5 DEF UploadFails, Goto, generated, rows, Undisturbed, Actors, Uploads,
        TypeOK, RequestsTypeOK, PersonaAssumption
  <2> QED
    BY <1>5, <2>1, MakingUntouched DEF UploadFails, Goto, generated, rows, uploaded,
        TypeOK, RequestsTypeOK, Actors, Uploads, PersonaAssumption
<1>6. ASSUME NEW r \in Starts, ReadRow(r) PROVE MakingInv'
  <2>1. Undisturbed
    BY <1>6 DEF ReadRow, Goto, uploaded, generated, rows, Undisturbed, Actors,
        Uploads, TypeOK, RequestsTypeOK, PersonaAssumption
  <2> QED
    BY <1>6, <2>1, MakingUntouched DEF ReadRow, Goto, uploaded, generated, rows,
        TypeOK, RequestsTypeOK, Actors, Uploads, PersonaAssumption
<1>7. ASSUME NEW r \in Starts, Accept(r) PROVE MakingInv'
  <2>1. Undisturbed
    BY <1>7 DEF Accept, Suspend, Goto, Forget, MayStart, InProgress, uploaded,
        generated, rows, StepAt, Undisturbed, Actors, Uploads, TypeOK,
        RequestsTypeOK, PersonaAssumption
  <2> QED
    BY <1>7, <2>1, MakingUntouched DEF Accept, Suspend, Goto, Forget, MayStart,
        InProgress, uploaded, generated, rows, StepAt, TypeOK, RequestsTypeOK,
        Actors, Uploads, PersonaAssumption
<1>8. ASSUME NEW r \in Starts, Refuse(r) PROVE MakingInv'
  <2>1. Undisturbed
    BY <1>8 DEF Refuse, Goto, Forget, MayStart, InProgress, uploaded, generated,
        rows, Undisturbed, Actors, Uploads, TypeOK, RequestsTypeOK,
        PersonaAssumption
  <2> QED
    BY <1>8, <2>1, MakingUntouched DEF Refuse, Goto, Forget, MayStart, InProgress,
        uploaded, generated, rows, TypeOK, RequestsTypeOK, Actors, Uploads,
        PersonaAssumption
<1>9. ASSUME NEW r \in Starts, Started(r) PROVE MakingInv'
  <2>1. Undisturbed
    <3>1. \E st \in RunStages : stage' = [stage EXCEPT ![r] = st]
      BY <1>9, StageAfterIdle DEF Started, TranscribeOrSkip, Suspend, Goto, RunStages, StepAt
    <3> QED
      BY <3>1 DEF Undisturbed, TypeOK, RequestsTypeOK, Actors, PersonaAssumption
  <2>2. Working(r) /\ MakingInv /\ UNCHANGED <<refAudio, refText, clips, clipRows>>
    BY <1>9 DEF Started, Working, RunStages, StepAt, generated
  <2>3. row' # "READY" \/ row' = row
    BY <1>9 DEF Started, Updated
  <2>4. picked'[r] # NoFile /\ \A q \in Starts \ {r} : picked'[q] = picked[q]
    BY <1>9 DEF Started, NewestVoices, TypeOK, RequestsTypeOK, FilesTypeOK, PersonaAssumption
  <2>m. Made => Made'
    <3>1. CASE Made
      <4>1. RenderIdle(r)
        BY <1>9, <3>1 DEF Started, TranscribeOrSkip, Made
      <4>2. stage'[r] # "muxing"
        BY <4>1 DEF RenderIdle, RenderFrom, Suspend, Goto, Missing, Made, TypeOK,
            RequestsTypeOK, Actors
      <4> QED
        BY <2>2, <3>1, <4>1, <4>2, OthersAfterIdle DEF Made
    <3> QED
      BY <3>1
  <2>n. \A q \in Starts \ {r} : stage[q] # "muxing"
    BY <2>1, <2>2, NobodyMuxes
  <2>5. (Made \/ ExclInv)'
    BY <2>1, <2>2, <2>m, MadeOrExclusive
  <2>6. FilesInOrder' /\ (row' = "READY" => (Made /\ AllRows)')
    BY <2>1, <2>2, <2>3, <2>m DEF MakingInv, FilesInOrder, AllRows
  <2>7. OnTrack(r)'
    <3>1. CASE refAudio = NoFile
      <4>1. stage' = [stage EXCEPT ![r] = "extracting"]
        BY <1>9, <3>1 DEF Started, Suspend, Goto
      <4> QED
        BY <2>1, <2>2, <2>4, <3>1, <4>1 DEF MakingInv, FilesInOrder, OnTrack, TypeOK, RequestsTypeOK, Actors
    <3>2. CASE refAudio # NoFile /\ refText = NoFile
      <4>1. /\ stage' = [stage EXCEPT ![r] = "transcribing"]
            /\ heard' = [heard EXCEPT ![r] = refAudio]
        BY <1>9, <3>2 DEF Started, TranscribeOrSkip, Suspend, Goto
      <4> QED
        BY <2>2, <3>2, <4>1 DEF OnTrack, TypeOK, RequestsTypeOK, Actors
    <3>3. CASE refAudio # NoFile /\ refText # NoFile
      <4>1. RenderIdle(r)
        BY <1>9, <3>3 DEF Started, TranscribeOrSkip
      <4> QED
        BY <4>1, <2>2, <2>n, <3>3, TrackAfterIdle
    <3> QED
      BY <3>1, <3>2, <3>3
  <2>8. ASSUME NEW q \in Starts, q # r PROVE OnTrack(q)'
    <3>1. stage'[q] = stage[q] /\ heard'[q] = heard[q] /\ at'[q] = at[q]
      <4>1. CASE refAudio = NoFile
        BY <1>9, <4>1, <2>8 DEF Started, Suspend, Goto, TypeOK, RequestsTypeOK, Actors
      <4>2. CASE refAudio # NoFile /\ refText = NoFile
        BY <1>9, <4>2, <2>8 DEF Started, TranscribeOrSkip, Suspend, Goto, TypeOK, RequestsTypeOK, Actors
      <4>3. CASE refAudio # NoFile /\ refText # NoFile
        <5>1. RenderIdle(r) /\ UNCHANGED heard
          BY <1>9, <4>3 DEF Started, TranscribeOrSkip
        <5> QED
          BY <5>1, <2>8, OthersAfterIdle
      <4> QED
        BY <4>1, <4>2, <4>3
    <3> QED
      BY <2>1, <2>2, <2>4, <2>8, <2>m, <3>1 DEF MakingInv, OnTrack, AllRows
  <2> QED
    BY <2>5, <2>6, <2>7, <2>8 DEF MakingInv
<1>10. ASSUME NEW r \in Starts, StartFails(r) PROVE MakingInv'
  <2>1. Undisturbed
    BY <1>10 DEF StartFails, Suspend, Goto, Updated, HasVoice, HasPhoto, uploaded,
        generated, StepAt, Undisturbed, Actors, Uploads, TypeOK, RequestsTypeOK,
        PersonaAssumption
  <2> QED
    BY <1>10, <2>1, MakingUntouched DEF StartFails, Suspend, Goto, Updated, HasVoice,
        HasPhoto, uploaded, generated, StepAt, rows, TypeOK, RequestsTypeOK, Actors,
        Uploads, PersonaAssumption
<1>11. ASSUME NEW r \in Starts, AudioOpened(r) PROVE MakingInv'
  <2>1. Undisturbed /\ Working(r) /\ ~Made
    <3>1. Undisturbed
      BY <1>11 DEF AudioOpened, Suspend, Goto, Undisturbed, TypeOK, RequestsTypeOK, Actors, PersonaAssumption
    <3>2. OnTrack(r)
      BY <3>1 DEF MakingInv
    <3> QED
      BY <1>11, <3>1, <3>2 DEF AudioOpened, Working, RunStages, StepAt, OnTrack, Made
  <2>2. FilesInOrder'
    BY <1>11, <2>1 DEF AudioOpened, FilesInOrder, MakingInv, OnTrack, Clips
  <2>3. OnTrack(r)'
    BY <1>11, <2>1 DEF AudioOpened, Suspend, Goto, OnTrack, MakingInv, TypeOK, RequestsTypeOK, Actors
  <2> QED
    BY <1>11, <2>1, <2>2, <2>3, MakingByOne DEF AudioOpened, Suspend, Goto, rows, TypeOK, RequestsTypeOK, Actors
<1>12. ASSUME NEW r \in Starts, Extracted(r) PROVE MakingInv'
  <2>1. Undisturbed /\ Working(r) /\ ~Made
    <3>1. Undisturbed
      BY <1>12 DEF Extracted, Suspend, Goto, Undisturbed, TypeOK, RequestsTypeOK, Actors, PersonaAssumption
    <3>2. OnTrack(r)
      BY <3>1 DEF MakingInv
    <3> QED
      BY <1>12, <3>1, <3>2 DEF Extracted, Working, RunStages, StepAt, OnTrack, Made
  <2>2. FilesInOrder'
    BY <1>12, <2>1 DEF Extracted, FilesInOrder, MakingInv, OnTrack, Clips
  <2>3. OnTrack(r)'
    BY <1>12, <2>1 DEF Extracted, Suspend, Goto, OnTrack, MakingInv, TypeOK, RequestsTypeOK, Actors
  <2> QED
    BY <1>12, <2>1, <2>2, <2>3, MakingByOne DEF Extracted, Suspend, Goto, rows, TypeOK, RequestsTypeOK, Actors
<1>13. ASSUME NEW r \in Starts, ExtractFails(r) PROVE MakingInv'
  <2>1. Undisturbed /\ Working(r) /\ ~Made
    <3>1. Undisturbed
      BY <1>13 DEF ExtractFails, Suspend, Goto, Undisturbed, TypeOK, RequestsTypeOK, Actors, PersonaAssumption
    <3>2. OnTrack(r)
      BY <3>1 DEF MakingInv
    <3> QED
      BY <1>13, <3>1, <3>2 DEF ExtractFails, Working, RunStages, StepAt, OnTrack, Made
  <2>2. FilesInOrder'
    BY <1>13, <2>1 DEF ExtractFails, FilesInOrder, MakingInv, OnTrack, Clips
  <2>3. OnTrack(r)'
    BY <1>13, <2>1 DEF ExtractFails, Suspend, Goto, OnTrack, MakingInv, TypeOK, RequestsTypeOK, Actors
  <2> QED
    BY <1>13, <2>1, <2>2, <2>3, MakingByOne DEF ExtractFails, Suspend, Goto, rows, TypeOK, RequestsTypeOK, Actors
<1>14. ASSUME NEW r \in Starts, Transcribed(r) PROVE MakingInv'
  <2>1. Undisturbed /\ Working(r) /\ ~Made /\ OnTrack(r)
    <3>1. \E st \in RunStages : stage' = [stage EXCEPT ![r] = st]
      BY <1>14, StageAfterIdle DEF Transcribed
    <3>2. Undisturbed
      BY <3>1 DEF Undisturbed, TypeOK, RequestsTypeOK, Actors, PersonaAssumption
    <3>3. OnTrack(r)
      BY <3>2 DEF MakingInv
    <3>4. stage[r] = "transcribing"
      BY <1>14 DEF Transcribed
    <3> QED
      BY <3>2, <3>3, <3>4 DEF Working, RunStages, StepAt, OnTrack, Made
  <2>2. /\ refText' # NoFile /\ refAudio # NoFile
        /\ UNCHANGED <<refAudio, clips, row>>
    BY <1>14, <2>1 DEF Transcribed, OnTrack, rows
  <2>3. FilesInOrder'
    BY <2>2 DEF FilesInOrder
  <2>4. OnTrack(r)' /\ \A q \in Starts \ {r} : stage'[q] = stage[q]
    <3>1. RenderIdle(r)
      BY <1>14 DEF Transcribed
    <3>2. \A q \in Starts \ {r} : stage[q] # "muxing"
      BY <2>1, NobodyMuxes
    <3> QED
      BY <3>1, <3>2, <2>2, TrackAfterIdle, OthersAfterIdle
  <2> QED
    BY <2>1, <2>2, <2>3, <2>4, MakingByOne
<1>15. ASSUME NEW r \in Starts, TranscribeFails(r) PROVE MakingInv'
  <2>1. Undisturbed
    BY <1>15 DEF TranscribeFails, Suspend, Goto, uploaded, generated, rows, StepAt,
        Undisturbed, Actors, Uploads, TypeOK, RequestsTypeOK, PersonaAssumption
  <2> QED
    BY <1>15, <2>1, MakingUntouched DEF TranscribeFails, Suspend, Goto, uploaded,
        generated, rows, StepAt, TypeOK, RequestsTypeOK, Actors, Uploads,
        PersonaAssumption
<1>16. ASSUME NEW r \in Starts, Rendered(r) PROVE MakingInv'
  <2>0. /\ RenderFrom(r, at[r] + 1) /\ at[r] + 1 \in {0, 1, 2} /\ at[r] \in Clips
        /\ stage[r] = "muxing" /\ at[r] \in clips
        /\ UNCHANGED <<refAudio, refText, clips, row>>
    BY <1>16 DEF Rendered, TypeOK, RequestsTypeOK, Clips, rows
  <2>1. Undisturbed /\ Working(r) /\ ~Made /\ OnTrack(r)
    <3>1. \E st \in RunStages : stage' = [stage EXCEPT ![r] = st]
      BY <2>0 DEF RenderFrom, Suspend, Goto, RunStages, StepAt
    <3>2. Undisturbed
      BY <3>1 DEF Undisturbed, TypeOK, RequestsTypeOK, Actors, PersonaAssumption
    <3>3. OnTrack(r)
      BY <3>2 DEF MakingInv
    <3> QED
      BY <2>0, <3>2, <3>3 DEF Working, RunStages, StepAt, OnTrack, Made
  <2>2. FilesInOrder'
    BY <2>0, <2>1 DEF FilesInOrder, MakingInv, OnTrack
  <2>3. OnTrack(r)' /\ \A q \in Starts \ {r} : stage'[q] = stage[q]
    <3>1. refAudio # NoFile /\ refText # NoFile
      BY <2>0, <2>1 DEF OnTrack, MakingInv, FilesInOrder
    <3>2. CASE /\ stage' = [stage EXCEPT ![r] = "registering"]
               /\ at'[r] = 0
               /\ \A j \in Clips : j >= at[r] + 1 => j \in clips
      <4>1. \A j \in Clips : j \in clips'
        BY <2>0, <2>1, <3>2 DEF OnTrack, Clips
      <4>2. clips' = Clips /\ \A q \in Starts : stage'[q] # "muxing"
        BY <2>0, <2>1, <3>2, <4>1, NobodyMuxes DEF TypeOK, FilesTypeOK, RequestsTypeOK, Actors
      <4> QED
        BY <2>0, <3>1, <3>2, <4>2 DEF OnTrack, Made, TypeOK, RequestsTypeOK, Actors
    <3>3. CASE /\ stage' = [stage EXCEPT ![r] = "rendering"]
               /\ at'[r] >= at[r] + 1 /\ at'[r] \notin clips
               /\ \A j \in Clips : j >= at[r] + 1 /\ j < at'[r] => j \in clips
      <4>1. at'[r] \in Clips
        BY <2>0, RenderFromEffect DEF TypeOK
      <4>2. at'[r] \notin clips' /\ \A j \in Clips : j < at'[r] => j \in clips'
        BY <2>0, <2>1, <3>3, <4>1 DEF OnTrack, Clips
      <4> QED
        BY <2>0, <3>1, <3>3, <4>2 DEF OnTrack, TypeOK, RequestsTypeOK, Actors
    <3> QED
      BY <2>0, <3>2, <3>3, RenderFromEffect DEF TypeOK, RequestsTypeOK, Actors
  <2> QED
    BY <2>0, <2>1, <2>2, <2>3, MakingByOne
<1>17. ASSUME NEW r \in Starts, RenderFails(r) PROVE MakingInv'
  <2>1. Undisturbed /\ Working(r) /\ ~Made
    <3>1. Undisturbed
      BY <1>17 DEF RenderFails, Suspend, Goto, Undisturbed, TypeOK, RequestsTypeOK, Actors, PersonaAssumption
    <3>2. OnTrack(r)
      BY <3>1 DEF MakingInv
    <3> QED
      BY <1>17, <3>1, <3>2 DEF RenderFails, Working, RunStages, StepAt, OnTrack, Made, TypeOK, RequestsTypeOK
  <2>2. FilesInOrder'
    BY <1>17, <2>1 DEF RenderFails, FilesInOrder, MakingInv, OnTrack, Clips
  <2>3. OnTrack(r)'
    BY <1>17, <2>1 DEF RenderFails, Suspend, Goto, OnTrack, MakingInv, TypeOK, RequestsTypeOK, Actors
  <2> QED
    BY <1>17, <2>1, <2>2, <2>3, MakingByOne DEF RenderFails, Suspend, Goto, rows, TypeOK, RequestsTypeOK, Actors
<1>18. ASSUME NEW r \in Starts, Registered(r) PROVE MakingInv'
  <2>1. Undisturbed /\ Made
    <3>1. \E st \in RunStages : stage' = [stage EXCEPT ![r] = st]
      BY <1>18 DEF Registered, Suspend, Goto, RunStages, StepAt
    <3>2. Undisturbed
      BY <3>1 DEF Undisturbed, TypeOK, RequestsTypeOK, Actors, PersonaAssumption
    <3> QED
      BY <1>18, <3>2 DEF Registered, MakingInv, OnTrack
  <2>2. /\ UNCHANGED <<refAudio, refText, clips, row, heard, picked>>
        /\ clipRows' = [clipRows EXCEPT ![at[r]] = @ + 1]
        /\ \A i \in Clips : clipRows'[i] >= clipRows[i]
    BY <1>18 DEF Registered, generated, TypeOK, RequestsTypeOK, Clips
  <2>m. \A q \in Starts : stage'[q] # "muxing"
    BY <1>18, <2>1 DEF Registered, Suspend, Goto, Made, TypeOK, RequestsTypeOK, Actors
  <2>3. Made' /\ (AllRows => AllRows')
    BY <2>1, <2>2, <2>m DEF Made, AllRows, TypeOK, Clips
  <2>4. FilesInOrder' /\ (row' = "READY" => (Made /\ AllRows)')
    BY <2>1, <2>2, <2>3 DEF MakingInv, FilesInOrder
  <2>5. OnTrack(r)'
    <3>1. stage[r] = "registering" /\ (at[r] = 1 => clipRows[0] > 0)
      BY <1>18, <2>1 DEF Registered, MakingInv, OnTrack
    <3>2. CASE at[r] = 0
      <4>1. stage'[r] = "registering" /\ at'[r] = 1 /\ clipRows'[0] > 0
        BY <1>18, <3>2, <2>2 DEF Registered, Suspend, Goto, TypeOK, RequestsTypeOK, Clips, Actors
      <4> QED
        BY <4>1, <2>3 DEF OnTrack
    <3>3. CASE at[r] = 1
      <4>1. stage'[r] = "readying" /\ clipRows'[0] > 0 /\ clipRows'[1] > 0
        BY <1>18, <3>1, <3>3, <2>2 DEF Registered, Suspend, Goto, TypeOK, RequestsTypeOK, Clips, Actors
      <4> QED
        BY <4>1, <2>3 DEF OnTrack, AllRows, Clips
    <3> QED
      BY <3>2, <3>3 DEF TypeOK, RequestsTypeOK, Clips
  <2>6. ASSUME NEW q \in Starts, q # r PROVE OnTrack(q)'
    <3>1. stage'[q] = stage[q] /\ at'[q] = at[q]
      BY <1>18, <2>6 DEF Registered, Suspend, Goto, TypeOK, RequestsTypeOK, Clips, Actors
    <3>2. OnTrack(q) /\ (clipRows[0] > 0 => clipRows'[0] > 0)
      BY <2>1, <2>2 DEF MakingInv, TypeOK, Clips
    <3> QED
      BY <3>1, <3>2, <2>1, <2>2, <2>3 DEF OnTrack
  <2> QED
    BY <2>3, <2>4, <2>5, <2>6 DEF MakingInv
<1>19. ASSUME NEW r \in Starts, RegisterFails(r) PROVE MakingInv'
  <2>1. Undisturbed
    BY <1>19 DEF RegisterFails, Suspend, Goto, uploaded, generated, rows, StepAt,
        Undisturbed, Actors, Uploads, TypeOK, RequestsTypeOK, PersonaAssumption
  <2> QED
    BY <1>19, <2>1, MakingUntouched DEF RegisterFails, Suspend, Goto, uploaded,
        generated, rows, StepAt, TypeOK, RequestsTypeOK, Actors, Uploads,
        PersonaAssumption
<1>20. ASSUME NEW r \in Starts, Readied(r) PROVE MakingInv'
  <2>1. Undisturbed
    BY <1>20 DEF Readied, Finish, Goto, Undisturbed, Actors, TypeOK, RequestsTypeOK, PersonaAssumption
  <2>2. Made /\ AllRows /\ UNCHANGED <<refAudio, refText, clips, clipRows, heard>>
    BY <1>20, <2>1 DEF Readied, MakingInv, OnTrack, generated
  <2>m. \A q \in Starts : stage'[q] # "muxing"
    BY <1>20, <2>2 DEF Readied, Finish, Goto, Made, TypeOK, RequestsTypeOK, Actors
  <2>3. Made' /\ AllRows' /\ FilesInOrder'
    BY <2>1, <2>2, <2>m DEF Made, AllRows, MakingInv, FilesInOrder
  <2>4. ASSUME NEW q \in Starts PROVE OnTrack(q)'
    <3>1. CASE q = r
      BY <1>20, <3>1 DEF Readied, Finish, Goto, OnTrack, TypeOK, RequestsTypeOK, Actors
    <3>2. CASE q # r
      <4>1. stage'[q] = stage[q] /\ picked'[q] = picked[q] /\ at'[q] = at[q]
        BY <1>20, <3>2 DEF Readied, Finish, Goto, TypeOK, RequestsTypeOK, Actors
      <4> QED
        BY <4>1, <2>1, <2>2, <2>3 DEF MakingInv, OnTrack
    <3> QED
      BY <3>1, <3>2
  <2> QED
    BY <2>3, <2>4 DEF MakingInv
<1>21. ASSUME NEW r \in Starts, ReadyFails(r) PROVE MakingInv'
  <2>1. Undisturbed
    BY <1>21 DEF ReadyFails, Suspend, Goto, uploaded, generated, rows, StepAt,
        Undisturbed, Actors, Uploads, TypeOK, RequestsTypeOK, PersonaAssumption
  <2> QED
    BY <1>21, <2>1, MakingUntouched DEF ReadyFails, Suspend, Goto, uploaded,
        generated, rows, StepAt, TypeOK, RequestsTypeOK, Actors, Uploads,
        PersonaAssumption
<1>22. ASSUME NEW r \in Starts, Failed(r) PROVE MakingInv'
  <2>1. Undisturbed
    BY <1>22 DEF Failed, Updated, Finish, Goto, uploaded, generated, Undisturbed,
        Actors, Uploads, TypeOK, RequestsTypeOK, PersonaAssumption
  <2> QED
    BY <1>22, <2>1, MakingUntouched DEF Failed, Updated, Finish, Goto, uploaded,
        generated, rows, TypeOK, RequestsTypeOK, Actors, Uploads, PersonaAssumption
<1>23. ASSUME NEW d \in Deletes, DeleteAdmitted(d) PROVE MakingInv'
  BY <1>23 DEF DeleteAdmitted, Goto, Undisturbed, TypeOK, RequestsTypeOK, Actors
<1>24. ASSUME NEW d \in Deletes, Removed(d) PROVE MakingInv'
  BY <1>24 DEF Removed, Goto, Undisturbed, TypeOK, RequestsTypeOK, Actors
<1>25. ASSUME NEW d \in Deletes, RemoveFails(d) PROVE MakingInv'
  BY <1>25 DEF RemoveFails, Goto, Undisturbed, TypeOK, RequestsTypeOK, Actors
<1>26. ASSUME NEW d \in Deletes, Dropped(d) PROVE MakingInv'
  BY <1>26 DEF Dropped, Goto, Undisturbed, TypeOK, RequestsTypeOK, Actors
<1>27. ASSUME NEW d \in Deletes, DropFails(d) PROVE MakingInv'
  BY <1>27 DEF DropFails, Goto, Undisturbed, TypeOK, RequestsTypeOK, Actors
<1>28. ASSUME NEW d \in Deletes, NEW k \in Entries, RemoveEntry(d, k) PROVE MakingInv'
  BY <1>28 DEF RemoveEntry, Goto, Undisturbed, TypeOK, RequestsTypeOK, Actors
<1>29. ASSUME Crash PROVE MakingInv'
  <2>1. Undisturbed
    BY <1>29 DEF Crash, Restarts, Undisturbed, Actors, TypeOK, RequestsTypeOK
  <2> QED
    BY <1>29, <2>1, MakingUntouched DEF Crash, Restarts, Actors
<1>30. ASSUME Shutdown PROVE MakingInv'
  <2>1. /\ Undisturbed
        /\ UNCHANGED <<refAudio, refText, clipRows>>
        /\ \A q \in Starts : stage'[q] \in {"idle", "done"}
    BY <1>30 DEF Shutdown, Restarts, Undisturbed, Actors, TypeOK, RequestsTypeOK
  <2>2. /\ clips' \subseteq clips
        /\ row' = "READY" => row = "READY"
    BY <1>30 DEF Shutdown, Updated
  <2>3. Made => Made'
    <3>1. CASE Made
      <4>1. \A q \in Starts : stage[q] \in {"rendering", "muxing"} => at[q] \notin clips
        BY <2>1, <3>1 DEF MakingInv, OnTrack, Made
      <4>2. clips' = clips
        BY <1>30, <4>1 DEF Shutdown
      <4> QED
        BY <2>1, <3>1, <4>2 DEF Made
    <3> QED
      BY <3>1
  <2>4. ExclInv' /\ \A q \in Starts : OnTrack(q)'
    BY <2>1 DEF ExclInv, WorkersExclusive, Working, RunStages, StepAt, OnTrack
  <2>5. FilesInOrder' /\ (row' = "READY" => (Made /\ AllRows)')
    BY <2>1, <2>2, <2>3 DEF MakingInv, FilesInOrder, AllRows
  <2> QED
    BY <2>4, <2>5 DEF MakingInv
<1>31. ASSUME NEW r \in Starts, ClipOpened(r) PROVE MakingInv'
  <2>1. Undisturbed /\ Working(r) /\ ~Made /\ OnTrack(r)
    <3>1. Undisturbed
      BY <1>31 DEF ClipOpened, Suspend, Goto, Undisturbed, TypeOK, RequestsTypeOK, Actors, PersonaAssumption
    <3>2. OnTrack(r)
      BY <3>1 DEF MakingInv
    <3> QED
      BY <1>31, <3>1, <3>2 DEF ClipOpened, Working, RunStages, StepAt, OnTrack, Made, TypeOK, RequestsTypeOK
  <2>2. FilesInOrder'
    BY <1>31, <2>1 DEF ClipOpened, FilesInOrder, MakingInv, OnTrack
  <2>3. OnTrack(r)'
    BY <1>31, <2>1 DEF ClipOpened, Suspend, Goto, OnTrack, TypeOK, RequestsTypeOK, Actors
  <2> QED
    BY <1>31, <2>1, <2>2, <2>3, MakingByOne DEF ClipOpened, Suspend, Goto, rows, TypeOK, RequestsTypeOK, Actors
<1>32. ASSUME UNCHANGED vars PROVE MakingInv'
  <2>1. Undisturbed
    BY <1>32 DEF vars, memory, Undisturbed
  <2> QED
    BY <1>32, <2>1, MakingUntouched DEF vars, memory, generated, rows
<1> QED
  BY <1>1, <1>2, <1>3, <1>4, <1>5, <1>6, <1>7, <1>8, <1>9, <1>10, <1>11, <1>12, <1>13, <1>14, <1>15, <1>16, <1>17, <1>18, <1>19, <1>20, <1>21, <1>22, <1>23, <1>24, <1>25, <1>26, <1>27, <1>28, <1>29, <1>30, <1>31, <1>32
     DEF Next, UploadStep, RequestStep, RunStep, DeleteStep, Quiet

(* A persona that is READY and that nobody deletes has its voice reference,  *)
(* the text of it and both idle clips, with their rows: for any number of    *)
(* uploads and runs, failing databases and restarts included.                *)
THEOREM ReadyAlwaysComplete == Spec => []ReadyComplete
<1> DEFINE Inv == TypeOK /\ MakingInv
<1>1. Init => Inv
  BY TypeInit, MakingInit, PersonaAssumption
<1>2. Inv /\ [Next]_vars => Inv'
  BY TypeStep, MakingStep, PersonaAssumption
<1>3. Inv => ReadyComplete
  BY DEF MakingInv, ReadyComplete, Undisturbed, Made, AllRows
<1> QED
  BY <1>1, <1>2, <1>3, PTL DEF Spec
-----------------------------------------------------------------------------
(* A step of a run moves that run only. *)
LEMMA RunMoves ==
    ASSUME NEW r \in Starts, RunStep(r)
    PROVE  \E st \in RunStages \cup {"done"} : stage' = [stage EXCEPT ![r] = st]
<1>1. CASE Started(r)
  BY <1>1, StageAfterIdle DEF Started, TranscribeOrSkip, Suspend, Goto, RunStages, StepAt
<1>2. CASE Transcribed(r)
  BY <1>2, StageAfterIdle DEF Transcribed
<1>3. CASE Rendered(r)
  BY <1>3 DEF Rendered, RenderFrom, Suspend, Goto, RunStages, StepAt
<1>4. CASE \/ StartFails(r) \/ AudioOpened(r) \/ Extracted(r) \/ ExtractFails(r)
           \/ TranscribeFails(r) \/ ClipOpened(r) \/ RenderFails(r) \/ Registered(r)
           \/ RegisterFails(r) \/ ReadyFails(r)
  BY <1>4 DEF StartFails, AudioOpened, Extracted, ExtractFails, TranscribeFails, ClipOpened,
      RenderFails, Registered, RegisterFails, ReadyFails, Suspend, Goto, RunStages, StepAt
<1>5. CASE Readied(r) \/ Failed(r)
  BY <1>5 DEF Readied, Failed, Finish, Goto
<1> QED
  BY <1>1, <1>2, <1>3, <1>4, <1>5 DEF RunStep

(* Half-made files.  What a step has to keep to leave none behind, and the    *)
(* stages at which a run has one.                                           *)
NoneLeftHalf == (HalfAudio' => HalfAudio) /\ HalfClips' \subseteq HalfClips

Making == {"trimming", "muxing"}

(* A step that touches neither the files nor a run that makes one keeps it. *)
LEMMA HalvesUntouched ==
    ASSUME UNCHANGED <<refAudio, wholeAudio, clips, wholeClips>>,
           \A q \in Starts : stage[q] \in Making => stage'[q] = stage[q] /\ at'[q] = at[q]
    PROVE  NoneLeftHalf
BY DEF NoneLeftHalf, HalfAudio, HalfClips, Making

(* Every step of a run that begins, ends or gives up a file does it with the  *)
(* file: what it leaves is whole or gone.                                   *)
LEMMA RunsLeaveNoHalf ==
    ASSUME PersonaAssumption, TypeOK, NEW r \in Starts, RunStep(r)
    PROVE  NoneLeftHalf
<1> USE DEF TypeOK, RequestsTypeOK, Actors
<1>m. PICK st \in RunStages \cup {"done"} : stage' = [stage EXCEPT ![r] = st]
  BY RunMoves
<1>o. \A q \in Starts \ {r} : stage'[q] = stage[q]
  BY <1>m
<1>1. CASE Started(r)
  <2>1. /\ stage[r] = "starting"
        /\ UNCHANGED <<refAudio, wholeAudio, clips, wholeClips>>
    BY <1>1 DEF Started, generated
  <2>2. \A q \in Starts \ {r} : at'[q] = at[q]
    <3>1. CASE RenderIdle(r)
      BY <3>1, OthersAfterIdle
    <3>2. CASE ~RenderIdle(r)
      BY <1>1, <3>2 DEF Started, TranscribeOrSkip
    <3> QED
      BY <3>1, <3>2
  <2> QED
    BY <1>o, <2>1, <2>2, HalvesUntouched DEF Making
<1>2. CASE AudioOpened(r)
  <2>1. /\ stage[r] = "extracting" /\ stage'[r] = "trimming"
        /\ UNCHANGED <<at, clips, wholeClips>>
    BY <1>2 DEF AudioOpened, Suspend, Goto
  <2> QED
    BY <1>o, <2>1 DEF NoneLeftHalf, HalfAudio, HalfClips
<1>3. CASE Extracted(r) \/ ExtractFails(r)
  <2>1. /\ stage[r] # "muxing"
        /\ refAudio' = NoFile \/ wholeAudio' = refAudio'
        /\ UNCHANGED <<at, clips, wholeClips>>
    BY <1>3 DEF Extracted, ExtractFails
  <2> QED
    BY <1>o, <2>1 DEF NoneLeftHalf, HalfAudio, HalfClips
<1>4. CASE Transcribed(r)
  <2>1. /\ stage[r] = "transcribing" /\ RenderIdle(r)
        /\ UNCHANGED <<refAudio, wholeAudio, clips, wholeClips>>
    BY <1>4 DEF Transcribed
  <2> QED
    BY <1>o, <2>1, OthersAfterIdle, HalvesUntouched DEF Making
<1>5. CASE ClipOpened(r)
  <2>1. /\ stage[r] = "rendering" /\ stage'[r] = "muxing"
        /\ clips' = clips \cup {at[r]} /\ wholeClips' = wholeClips \ {at[r]}
        /\ UNCHANGED <<at, refAudio, wholeAudio>>
    BY <1>5 DEF ClipOpened, Suspend, Goto
  <2> QED
    BY <1>o, <2>1 DEF NoneLeftHalf, HalfAudio, HalfClips
<1>6. CASE Rendered(r)
  <2>1. /\ stage[r] = "muxing" /\ wholeClips' = wholeClips \cup {at[r]}
        /\ UNCHANGED <<refAudio, wholeAudio, clips>>
    BY <1>6 DEF Rendered
  <2>2. \A q \in Starts \ {r} : at'[q] = at[q]
    BY <1>6 DEF Rendered, RenderFrom
  <2> QED
    BY <1>o, <2>1, <2>2 DEF NoneLeftHalf, HalfAudio, HalfClips
<1>7. CASE RenderFails(r)
  <2>1. /\ stage[r] # "trimming"
        /\ clips' = clips \ {at[r]} /\ wholeClips' = wholeClips \ {at[r]}
        /\ UNCHANGED <<at, refAudio, wholeAudio>>
    BY <1>7 DEF RenderFails
  <2> QED
    BY <1>o, <2>1 DEF NoneLeftHalf, HalfAudio, HalfClips
<1>8. CASE \/ StartFails(r) \/ TranscribeFails(r) \/ Registered(r) \/ RegisterFails(r)
           \/ Readied(r) \/ ReadyFails(r) \/ Failed(r)
  <2>1. /\ stage[r] \notin Making
        /\ UNCHANGED <<refAudio, wholeAudio, clips, wholeClips>>
    BY <1>8 DEF StartFails, TranscribeFails, Registered, RegisterFails, Readied, ReadyFails,
        Failed, generated, Making
  <2>2. \A q \in Starts \ {r} : at'[q] = at[q]
    BY <1>8 DEF StartFails, TranscribeFails, Registered, RegisterFails, Readied, ReadyFails,
        Failed, Finish
  <2> QED
    BY <1>o, <2>1, <2>2, HalvesUntouched
<1> QED
  BY <1>1, <1>2, <1>3, <1>4, <1>5, <1>6, <1>7, <1>8 DEF RunStep

(* Nor does a request, an upload or a DELETE leave a half-made file. *)
LEMMA NothingElseLeavesHalf ==
    ASSUME PersonaAssumption, TypeOK, [Next]_vars, ~Crash, ~Shutdown
    PROVE  NoneLeftHalf
<1> USE DEF TypeOK, RequestsTypeOK, Actors, Uploads, PersonaAssumption
<1>1. ASSUME NEW u \in Uploads, UploadStep(u) PROVE NoneLeftHalf
  BY <1>1, HalvesUntouched DEF UploadStep, UploadAdmitted, UploadRejected, UploadWrites,
      UploadStored, UploadFails, Goto, generated
<1>2. ASSUME NEW r \in Starts, RequestStep(r) PROVE NoneLeftHalf
  BY <1>2, HalvesUntouched DEF RequestStep, ReadRow, Accept, Refuse, Suspend, Goto, generated,
      Making
<1>3. ASSUME NEW r \in Starts, RunStep(r) PROVE NoneLeftHalf
  BY <1>3, RunsLeaveNoHalf
<1>4. ASSUME NEW d \in Deletes, DeleteStep(d) PROVE NoneLeftHalf
  <2>1. CASE DeleteAdmitted(d) \/ Removed(d) \/ RemoveFails(d) \/ Dropped(d) \/ DropFails(d)
    BY <2>1, HalvesUntouched DEF DeleteAdmitted, Removed, RemoveFails, Dropped, DropFails,
        Goto, generated
  <2>2. ASSUME NEW k \in Entries, RemoveEntry(d, k) PROVE NoneLeftHalf
    <3>1. /\ refAudio' = NoFile \/ UNCHANGED <<refAudio, wholeAudio>>
          /\ clips' \ wholeClips' \subseteq clips \ wholeClips
          /\ UNCHANGED <<stage, at>>
      BY <2>2 DEF RemoveEntry
    <3> QED
      BY <3>1 DEF NoneLeftHalf, HalfAudio, HalfClips
  <2> QED
    BY <1>4, <2>1, <2>2 DEF DeleteStep
<1>5. CASE UNCHANGED vars
  BY <1>5, HalvesUntouched DEF vars, memory, generated
<1> QED
  BY <1>1, <1>2, <1>3, <1>4, <1>5 DEF Next, Quiet

(* A half-made ref_audio.wav or clip that no run is making any more was left  *)
(* by the kill of the worker or the cancellation of its runs: with a failing  *)
(* database, failing models, stale requests, several workers and DELETEs.     *)
THEOREM HalvesOnlyFromKills == Spec => OnlyKillsLeaveHalf
<1>1. TypeOK /\ [Next]_vars => [NoneLeftHalf \/ Crash \/ Shutdown]_vars
  BY NothingElseLeavesHalf, PersonaAssumption
<1> QED
  BY <1>1, TypeCorrect, PTL DEF Spec, OnlyKillsLeaveHalf, NoneLeftHalf
-----------------------------------------------------------------------------
(* What is made stays made.  A DELETE that has begun does not unhappen. *)
LEMMA DeletesLast ==
    ASSUME PersonaAssumption, TypeOK, [Next]_vars, Undisturbed'
    PROVE  Undisturbed
<1> USE DEF Undisturbed, TypeOK, RequestsTypeOK, Actors, PersonaAssumption
<1>1. ASSUME NEW u \in Uploads, UploadStep(u) PROVE Undisturbed
  BY <1>1 DEF UploadStep, UploadAdmitted, UploadRejected, UploadWrites, UploadStored,
      UploadFails, Goto
<1>2. ASSUME NEW r \in Starts, RequestStep(r) PROVE Undisturbed
  BY <1>2 DEF RequestStep, ReadRow, Accept, Refuse, Suspend, Goto
<1>3. ASSUME NEW r \in Starts, RunStep(r) PROVE Undisturbed
  <2>1. \E st \in RunStages \cup {"done"} : stage' = [stage EXCEPT ![r] = st]
    BY <1>3, RunMoves
  <2> QED
    BY <2>1
<1>4. ASSUME NEW d \in Deletes, DeleteStep(d) PROVE Undisturbed
  BY <1>4 DEF DeleteStep, DeleteAdmitted, Removed, RemoveFails, Dropped, DropFails,
      RemoveEntry, Goto
<1>5. CASE Crash \/ Shutdown
  BY <1>5 DEF Crash, Shutdown, Restarts
<1>6. CASE UNCHANGED vars
  BY <1>6 DEF vars, memory
<1> QED
  BY <1>1, <1>2, <1>3, <1>4, <1>5, <1>6 DEF Next, Quiet

(* From then on nobody makes or removes anything, whatever run is started    *)
(* and wherever it fails, until a DELETE comes.                             *)
LEMMA MadeStays ==
    ASSUME PersonaAssumption, TypeOK, MakingInv, Made, [Next]_vars, Undisturbed'
    PROVE  Made'
<1>1. Undisturbed /\ \A r \in Starts : OnTrack(r)
  BY DeletesLast DEF MakingInv
<1>2. \A r \in Starts : stage[r] \notin
          {"extracting", "trimming", "transcribing", "rendering", "muxing"}
  BY <1>1 DEF Made, OnTrack, TypeOK, RequestsTypeOK
<1> SUFFICES /\ UNCHANGED <<refAudio, refText, clips>>
             /\ \A r \in Starts : stage'[r] # "muxing"
  BY DEF Made
<1> USE DEF TypeOK, RequestsTypeOK, Actors, PersonaAssumption
<1>3. ASSUME NEW u \in Uploads, UploadStep(u)
      PROVE  UNCHANGED <<refAudio, refText, clips>> /\ \A r \in Starts : stage'[r] # "muxing"
  BY <1>2, <1>3 DEF UploadStep, UploadAdmitted, UploadRejected, UploadWrites, UploadStored,
      UploadFails, Goto, generated
<1>4. ASSUME NEW r \in Starts, RequestStep(r)
      PROVE  UNCHANGED <<refAudio, refText, clips>> /\ \A q \in Starts : stage'[q] # "muxing"
  BY <1>2, <1>4 DEF RequestStep, ReadRow, Accept, Refuse, Suspend, Goto, generated
<1>5. ASSUME NEW r \in Starts, RunStep(r)
      PROVE  UNCHANGED <<refAudio, refText, clips>> /\ \A q \in Starts : stage'[q] # "muxing"
  <2>1. CASE Started(r)
    <3>1. RenderIdle(r) /\ UNCHANGED <<refAudio, refText, clips>>
      BY <2>1 DEF Started, TranscribeOrSkip, Made, generated
    <3>2. stage'[r] # "muxing"
      BY <3>1 DEF RenderIdle, RenderFrom, Suspend, Goto
    <3> QED
      BY <1>2, <3>1, <3>2, OthersAfterIdle
  <2>2. CASE \/ StartFails(r) \/ Registered(r) \/ RegisterFails(r)
             \/ Readied(r) \/ ReadyFails(r) \/ Failed(r)
    BY <1>2, <2>2 DEF StartFails, Registered, RegisterFails, Readied, ReadyFails, Failed,
        Suspend, Finish, Goto, generated
  <2>3. CASE \/ AudioOpened(r) \/ Extracted(r) \/ ExtractFails(r) \/ Transcribed(r)
             \/ TranscribeFails(r) \/ ClipOpened(r) \/ Rendered(r) \/ RenderFails(r)
    BY <1>2, <2>3 DEF AudioOpened, Extracted, ExtractFails, Transcribed, TranscribeFails,
        ClipOpened, Rendered, RenderFails
  <2> QED
    BY <1>5, <2>1, <2>2, <2>3 DEF RunStep
<1>6. ASSUME NEW d \in Deletes, DeleteStep(d) PROVE FALSE
  BY <1>1, <1>6 DEF DeleteStep, DeleteAdmitted, Removed, RemoveFails, Dropped, DropFails,
      RemoveEntry, Goto, Undisturbed
<1>7. CASE Crash
  BY <1>7 DEF Crash, Restarts
<1>8. CASE Shutdown
  <2>1. {r \in Starts : stage[r] \in {"rendering", "muxing"}} = {}
    BY <1>2
  <2>2. clips' = clips
    BY <1>8, <2>1 DEF Shutdown
  <2> QED
    BY <1>8, <2>2 DEF Shutdown, Restarts
<1>9. CASE UNCHANGED vars
  BY <1>2, <1>9 DEF vars, memory, generated
<1> QED
  BY <1>3, <1>4, <1>5, <1>6, <1>7, <1>8, <1>9 DEF Next, Quiet
-----------------------------------------------------------------------------
(* The text and its recording.  They differ only between the moment ffmpeg   *)
(* opens a new ref_audio.wav and the moment the old ref_text.txt is removed; *)
(* what a run is transcribing is the ref_audio.wav, or it was deleted.       *)
Matched == NoFile \in {refAudio, refText} \/ refText = refAudio

PairInv ==
    /\ (\A r \in Starts : stage[r] # "trimming") => Matched
    /\ \A r \in Starts :
        /\ stage[r] = "extracting"   => refAudio = NoFile
        /\ stage[r] = "transcribing" => refAudio \in {NoFile, heard[r]}

(* A step that leaves both files and starts neither ffmpeg nor Gemma. *)
LEMMA PairUntouched ==
    ASSUME PairInv, UNCHANGED <<refAudio, refText>>,
           \A r \in Starts : stage[r] = "trimming" => stage'[r] = "trimming",
           \A r \in Starts : stage'[r] \in {"extracting", "transcribing"} =>
                              stage[r] = stage'[r] /\ heard'[r] = heard[r]
    PROVE  PairInv'
BY DEF PairInv, Matched

(* Another run is not at work while r is. *)
LEMMA OthersRest ==
    ASSUME ExclInv, NEW r \in Starts, Working(r)
    PROVE  \A q \in Starts \ {r} :
               stage[q] \notin {"extracting", "trimming", "transcribing"}
BY DEF ExclInv, WorkersExclusive, Working, RunStages, StepAt

(* Every step of one worker that nobody restarts keeps it. *)
LEMMA PairStep ==
    ASSUME PersonaAssumption, TypeOK, ExclInv, PairInv, [Next]_vars,
           "restart" \notin Environment
    PROVE  PairInv'
<1> USE DEF TypeOK, RequestsTypeOK, Actors, Uploads, PersonaAssumption
<1>1. ASSUME NEW u \in Uploads, UploadStep(u) PROVE PairInv'
  BY <1>1, PairUntouched DEF UploadStep, UploadAdmitted, UploadRejected, UploadWrites,
      UploadStored, UploadFails, Goto, generated
<1>2. ASSUME NEW r \in Starts, RequestStep(r) PROVE PairInv'
  BY <1>2, PairUntouched DEF RequestStep, ReadRow, Accept, Refuse, Suspend, Goto, generated
<1>3. ASSUME NEW r \in Starts, RunStep(r) PROVE PairInv'
  <2>m. PICK st \in RunStages \cup {"done"} : stage' = [stage EXCEPT ![r] = st]
    BY <1>3, RunMoves
  <2>o. \A q \in Starts \ {r} : stage'[q] = stage[q]
    BY <2>m
  <2>1. CASE Started(r)
    <3>1. stage[r] = "starting" /\ UNCHANGED <<refAudio, refText>>
      BY <2>1 DEF Started, generated
    <3>2. Matched
      BY <3>1, OthersRest DEF PairInv, Working, RunStages, StepAt
    <3>3. \A q \in Starts \ {r} : stage'[q] \notin {"extracting", "trimming", "transcribing"}
      BY <2>o, <3>1, OthersRest DEF Working, RunStages, StepAt
    <3>4. CASE refAudio = NoFile
      BY <2>1, <3>1, <3>2, <3>3, <3>4 DEF Started, Suspend, Goto, PairInv, Matched
    <3>5. CASE refAudio # NoFile /\ refText = NoFile
      BY <2>1, <3>1, <3>2, <3>3, <3>5
         DEF Started, TranscribeOrSkip, Suspend, Goto, PairInv, Matched
    <3>6. CASE refAudio # NoFile /\ refText # NoFile
      <4>1. RenderIdle(r)
        BY <2>1, <3>6 DEF Started, TranscribeOrSkip
      <4>2. stage'[r] \in {"registering", "rendering", "failing"}
        BY <4>1, RenderIdleEffect
      <4> QED
        BY <3>1, <3>2, <3>3, <4>2 DEF PairInv, Matched
    <3> QED
      BY <3>4, <3>5, <3>6
  <2>2. CASE AudioOpened(r)
    <3>1. stage[r] = "extracting" /\ stage'[r] = "trimming"
      BY <2>2 DEF AudioOpened, Suspend, Goto
    <3>2. \A q \in Starts \ {r} : stage'[q] \notin {"extracting", "trimming", "transcribing"}
      BY <2>o, <3>1, OthersRest DEF Working, RunStages, StepAt
    <3> QED
      BY <3>1, <3>2 DEF PairInv
  <2>3. CASE Extracted(r)
    <3>1. /\ stage[r] = "trimming" /\ stage'[r] = "transcribing"
          /\ refText' = NoFile /\ refAudio' = refAudio /\ heard'[r] = refAudio
      BY <2>3 DEF Extracted, Suspend, Goto
    <3>2. \A q \in Starts \ {r} : stage'[q] \notin {"extracting", "trimming", "transcribing"}
      BY <2>o, <3>1, OthersRest DEF Working, RunStages, StepAt
    <3> QED
      BY <3>1, <3>2 DEF PairInv, Matched
  <2>4. CASE ExtractFails(r)
    <3>1. refAudio' = NoFile /\ stage'[r] = "failing"
      BY <2>4 DEF ExtractFails, Suspend, Goto
    <3> QED
      BY <3>1, <2>o DEF PairInv, Matched
  <2>5. CASE Transcribed(r)
    <3>1. /\ stage[r] = "transcribing" /\ refAudio' = refAudio /\ RenderIdle(r)
          /\ refText' \in {heard[r]} \cup ({refAudio} \ {NoFile})
      BY <2>5 DEF Transcribed
    <3>2. refAudio = NoFile \/ refText' = refAudio
      BY <3>1 DEF PairInv
    <3>3. stage'[r] \in {"registering", "rendering", "failing"}
      BY <3>1, RenderIdleEffect
    <3>4. \A q \in Starts \ {r} : stage'[q] \notin {"extracting", "trimming", "transcribing"}
      BY <2>o, <3>1, OthersRest DEF Working, RunStages, StepAt
    <3> QED
      BY <3>1, <3>2, <3>3, <3>4 DEF PairInv, Matched
  <2>6. CASE TranscribeFails(r)
    BY <2>6, PairUntouched DEF TranscribeFails, Suspend, Goto, generated
  <2>7. CASE Rendered(r)
    <3>1. stage'[r] \in {"rendering", "registering"}
      BY <2>7 DEF Rendered, RenderFrom, Suspend, Goto
    <3>2. stage[r] = "muxing" /\ UNCHANGED <<refAudio, refText, heard>>
      BY <2>7 DEF Rendered
    <3> QED
      BY <2>o, <3>1, <3>2, PairUntouched
  <2>8. CASE StartFails(r) \/ ClipOpened(r) \/ RenderFails(r) \/ Registered(r)
            \/ RegisterFails(r) \/ Readied(r) \/ ReadyFails(r) \/ Failed(r)
    BY <2>8, PairUntouched DEF StartFails, ClipOpened, RenderFails, Registered, RegisterFails,
        Readied, ReadyFails, Failed, Finish, Suspend, Goto, generated
  <2> QED
    BY <1>3, <2>1, <2>2, <2>3, <2>4, <2>5, <2>6, <2>7, <2>8 DEF RunStep
<1>4. ASSUME NEW d \in Deletes, DeleteStep(d) PROVE PairInv'
  <2>1. CASE DeleteAdmitted(d) \/ Removed(d) \/ RemoveFails(d) \/ Dropped(d) \/ DropFails(d)
    BY <1>4, <2>1, PairUntouched DEF DeleteAdmitted, Removed, RemoveFails, Dropped, DropFails,
        Goto, generated
  <2>2. ASSUME NEW k \in Entries, RemoveEntry(d, k) PROVE PairInv'
    <3>1. /\ UNCHANGED <<stage, heard>>
          /\ \/ refAudio' = NoFile /\ refText' = refText
             \/ refAudio' = refAudio /\ refText' \in {NoFile, refText}
      BY <2>2 DEF RemoveEntry
    <3> QED
      BY <3>1 DEF PairInv, Matched
  <2> QED
    BY <1>4, <2>1, <2>2 DEF DeleteStep
<1>5. ~Crash /\ ~Shutdown
  BY DEF Crash, Shutdown, Restarts
<1>6. CASE UNCHANGED vars
  BY <1>6, PairUntouched DEF vars, memory, generated
<1> QED
  BY <1>1, <1>2, <1>3, <1>4, <1>5, <1>6 DEF Next, Quiet

(* The clips are made from a ref_audio.wav and its own transcript, whatever  *)
(* failed before and whichever DELETE went half way under the run - as long  *)
(* as no READY update fails, which lets a second run in, and the worker is   *)
(* not restarted between ffmpeg's first byte and the removal of the old      *)
(* ref_text.txt, after which the next run finds both and skips both.         *)
THEOREM AlwaysPaired ==
    ASSUME "db" \notin Environment, "restart" \notin Environment
    PROVE  Spec => []Paired
<1> DEFINE Inv == TypeOK /\ ExclInv /\ PairInv
<1>1. Init => Inv
  BY TypeInit, ExclusionInit, PersonaAssumption DEF Init, PairInv, Matched, Actors
<1>2. Inv /\ [Next]_vars => Inv'
  BY TypeStep, ExclusionStep, PairStep, PersonaAssumption DEF DbMayFail
<1>3. Inv => Paired
  <2> SUFFICES ASSUME Inv, NEW r \in Starts,
                      stage[r] \in {"rendering", "muxing", "registering"}
               PROVE  Matched
    BY DEF Paired, Matched
  <2> QED
    BY OthersRest DEF PairInv, Working, RunStages, StepAt
<1> QED
  BY <1>1, <1>2, <1>3, PTL DEF Spec
=============================================================================
