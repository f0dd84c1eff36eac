------------------------- MODULE Conversation_proofs -------------------------
(* Theorems about Conversation. *)
EXTENDS Conversation, FiniteSetTheorems, TLAPS

(* The slot count, in the three ways an action may change it. *)
LEMMA SlotKept ==
    ASSUME SlotsExact, Slots' = Slots, active' = active
    PROVE  SlotsExact'
BY DEF SlotsExact

(* A message is admitted. *)
LEMMA SlotTaken ==
    ASSUME ConversationAssumption, TypeOK, SlotsExact, NEW m \in Msgs, m \notin Slots,
           active < MaxMessages, Slots' = Slots \cup {m}, active' = active + 1
    PROVE  SlotsExact' /\ active' \in Nat
<1>1. IsFiniteSet(Slots)
  BY FS_Subset DEF Slots, ConversationAssumption
<1>2. Cardinality(Slots') = Cardinality(Slots) + 1
  BY <1>1, FS_AddElement
<1> QED
  BY <1>2 DEF SlotsExact, TypeOK, ConversationAssumption

(* A message ends, however it does. *)
LEMMA SlotGivenBack ==
    ASSUME ConversationAssumption, TypeOK, SlotsExact, NEW m \in Slots,
           Slots' = Slots \ {m}, active' = active - 1
    PROVE  SlotsExact' /\ active' \in Nat
<1>1. IsFiniteSet(Slots)
  BY FS_Subset DEF Slots, ConversationAssumption
<1>2. Cardinality(Slots') = Cardinality(Slots) - 1 /\ Cardinality(Slots') \in Nat
  BY <1>1, FS_RemoveElement, FS_CardinalityType
<1> QED
  BY <1>2 DEF SlotsExact, TypeOK, ConversationAssumption

(* The locks keep their types under every operation on them. *)
LEMMA HandOverType ==
    ASSUME LocksTypeOK, NEW a \in Actors, NEW drop, NEW r \in Resources,
           HandOver(a, drop, r)
    PROVE  LocksTypeOK'
<1>1. owner' \in [Resources -> Actors \cup {Nobody}]
  BY DEF LocksTypeOK, HandOver, Obtainable
<1>2. wants' \in [Actors -> Resources \cup {Nothing}]
  BY DEF LocksTypeOK, HandOver
<1>3. ahead' \in [Actors -> SUBSET Actors]
  BY DEF LocksTypeOK, HandOver, Waiters
<1> QED
  BY <1>1, <1>2, <1>3 DEF LocksTypeOK

(* So do the operations of AsyncLocks that the actions use. *)
LEMMA LockOpsType ==
    ASSUME LocksTypeOK, NEW a \in Actors
    PROVE  /\ Wake(a) => LocksTypeOK'
           /\ Leave(a) => LocksTypeOK'
           /\ \A r \in Resources : Release(r) => LocksTypeOK'
           /\ \A r \in Resources : Acquire(a, r) => LocksTypeOK'
<1>1. Wake(a) => LocksTypeOK'
  BY DEF LocksTypeOK, Wake, Waiting
<1>2. Leave(a) => LocksTypeOK'
  BY DEF LocksTypeOK, Leave
<1>3. \A r \in Resources : Release(r) => LocksTypeOK'
  BY DEF LocksTypeOK, Release
<1>4. \A r \in Resources : Acquire(a, r) => LocksTypeOK'
  BY HandOverType DEF Acquire
<1> QED
  BY <1>1, <1>2, <1>3, <1>4

(* A part of the state that a step leaves alone keeps its type. *)
LEMMA TypeUntouched ==
    /\ SessionsTypeOK /\ UNCHANGED sessionVars => SessionsTypeOK'
    /\ RequestsTypeOK /\ UNCHANGED <<stage, target, seen, sent>> => RequestsTypeOK'
    /\ LocksTypeOK /\ UNCHANGED locks => LocksTypeOK'
    /\ FilesTypeOK /\ UNCHANGED <<fileVars, safetyLog, stray>> => FilesTypeOK'
BY DEF SessionsTypeOK, sessionVars, RequestsTypeOK, LocksTypeOK, locks, FilesTypeOK,
       fileVars

(* Who is counted depends on the stages alone. *)
LEMMA SlotsUntouched ==
    ASSUME UNCHANGED stage
    PROVE  Slots' = Slots
BY DEF Slots, InFlight

(* The type invariant and the count together are inductive: that the count *)
(* stays a natural number when it is decremented is known only because it  *)
(* counts the message that gives its slot back.                            *)
Counted == TypeOK /\ SlotsExact

(* Nobody is counted in the beginning. *)
LEMMA CountedInit == ConversationAssumption /\ Init => Counted
<1> SUFFICES ASSUME ConversationAssumption, Init PROVE Counted
  OBVIOUS
<1>1. SessionsTypeOK /\ FilesTypeOK
  BY DEF Init, SessionsTypeOK, FilesTypeOK, Lives
<1>2. RequestsTypeOK
  BY DEF Init, RequestsTypeOK, Actors, Requests, MsgStages, EndStages
<1>3. LocksTypeOK
  BY DEF Init, LocksInit, LocksTypeOK
<1>4. Slots = {}
  BY DEF Init, Slots, InFlight, Pipeline, Actors, Requests
<1>5. SlotsExact /\ active \in Nat
  BY <1>4, FS_EmptySet DEF Init, SlotsExact, ConversationAssumption
<1> QED
  BY <1>1, <1>2, <1>3, <1>5 DEF Counted, TypeOK

(* Every step keeps the types and the count. *)
LEMMA CountedStep ==
    ASSUME ConversationAssumption, Counted, [Next]_vars
    PROVE  Counted'
<1> USE DEF Counted, TypeOK
<1>1. ASSUME NEW s \in Sessions, StartSession(s) PROVE Counted'
  <2>1. SessionsTypeOK'
    BY <1>1 DEF StartSession, SessionsTypeOK, Lives
  <2>2. SlotsExact' /\ active' \in Nat
    BY <1>1, SlotsUntouched, SlotKept DEF StartSession
  <2> QED
    BY <1>1, <2>1, <2>2, TypeUntouched DEF StartSession
<1>2. ASSUME NEW s \in Sessions, GoStale(s) PROVE Counted'
  <2>1. SessionsTypeOK'
    BY <1>2 DEF GoStale, SessionsTypeOK, Lives, Store
  <2>2. SlotsExact' /\ active' \in Nat
    BY <1>2, SlotsUntouched, SlotKept DEF GoStale
  <2> QED
    BY <1>2, <2>1, <2>2, TypeUntouched DEF GoStale
<1>3. ASSUME Sweep PROVE Counted'
  <2>1. SessionsTypeOK'
    BY <1>3 DEF Sweep, SessionsTypeOK, Lives, Store
  <2>2. SlotsExact' /\ active' \in Nat
    BY <1>3, SlotsUntouched, SlotKept DEF Sweep
  <2> QED
    BY <1>3, <2>1, <2>2, TypeUntouched DEF Sweep
<1>4. ASSUME NEW e \in Ends, NEW s \in Sessions, EndSession(e, s) PROVE Counted'
  <2>1. SessionsTypeOK'
    BY <1>4 DEF EndSession, SessionsTypeOK, Lives, Store
  <2>2. RequestsTypeOK'
    BY <1>4 DEF EndSession, RequestsTypeOK, Goto, Actors, Requests, MsgStages, EndStages,
        Pipeline, ConversationAssumption, Store
  <2>3. LocksTypeOK'
    BY <1>4, LockOpsType, TypeUntouched DEF EndSession, Resources, Actors, Requests
  <2>4. Slots' = Slots
    BY <1>4 DEF EndSession, Slots, InFlight, Goto, Running, LastEvent,
        RequestsTypeOK, Pipeline, Actors, Requests, MsgStages, ConversationAssumption
  <2>5. SlotsExact' /\ active' \in Nat
    BY <1>4, <2>4, SlotKept DEF EndSession
  <2> QED
    BY <1>4, <2>1, <2>2, <2>3, <2>5, TypeUntouched DEF EndSession
<1>5. ASSUME NEW e \in Ends, NEW s \in Sessions, EndSessionWaits(e, s) PROVE Counted'
  <2>1. RequestsTypeOK'
    BY <1>5 DEF EndSessionWaits, RequestsTypeOK, Goto, Actors, Requests, MsgStages,
        EndStages, Pipeline, ConversationAssumption, Store
  <2>2. LocksTypeOK'
    BY <1>5, LockOpsType, TypeUntouched DEF EndSessionWaits, Resources, Actors, Requests
  <2>3. Slots' = Slots
    BY <1>5 DEF EndSessionWaits, Slots, InFlight, Goto, Running, LastEvent,
        RequestsTypeOK, Pipeline, Actors, Requests, MsgStages, ConversationAssumption
  <2>4. SlotsExact' /\ active' \in Nat
    BY <1>5, <2>3, SlotKept DEF EndSessionWaits
  <2> QED
    BY <1>5, <2>1, <2>2, <2>4, TypeUntouched DEF EndSessionWaits
<1>6. ASSUME NEW e \in Ends, EndPop(e) PROVE Counted'
  <2>1. SessionsTypeOK'
    BY <1>6 DEF EndPop, SessionsTypeOK, Lives, Store
  <2>2. RequestsTypeOK'
    BY <1>6 DEF EndPop, RequestsTypeOK, Goto, Actors, Requests, MsgStages, EndStages,
        Pipeline, ConversationAssumption, Running
  <2>3. LocksTypeOK'
    BY <1>6, LockOpsType, TypeUntouched DEF EndPop, Resources, Actors, Requests,
        RequestsTypeOK
  <2>4. Slots' = Slots
    BY <1>6 DEF EndPop, Slots, InFlight, Goto, Running, LastEvent,
        RequestsTypeOK, Pipeline, Actors, Requests, MsgStages, ConversationAssumption
  <2>5. SlotsExact' /\ active' \in Nat
    BY <1>6, <2>4, SlotKept DEF EndPop
  <2> QED
    BY <1>6, <2>1, <2>2, <2>3, <2>5, TypeUntouched DEF EndPop
<1>7. ASSUME NEW e \in Ends, EndClean(e) PROVE Counted'
  <2>1. RequestsTypeOK'
    BY <1>7 DEF EndClean, RequestsTypeOK, Goto, Actors, Requests, MsgStages, EndStages,
        Pipeline, ConversationAssumption
  <2>2. LocksTypeOK'
    BY <1>7, LockOpsType, TypeUntouched DEF EndClean, Resources, Actors, Requests
  <2>3. FilesTypeOK'
    BY <1>7 DEF EndClean, FilesTypeOK, fileVars
  <2>4. Slots' = Slots
    BY <1>7 DEF EndClean, Slots, InFlight, Goto, Running, LastEvent,
        RequestsTypeOK, Pipeline, Actors, Requests, MsgStages, ConversationAssumption
  <2>5. SlotsExact' /\ active' \in Nat
    BY <1>7, <2>4, SlotKept DEF EndClean
  <2> QED
    BY <1>7, <2>1, <2>2, <2>3, <2>5, TypeUntouched DEF EndClean
<1>8. ASSUME NEW m \in Msgs, NEW s \in Sessions, PostMessage(m, s) PROVE Counted'
  <2>1. RequestsTypeOK'
    BY <1>8 DEF PostMessage, RequestsTypeOK, Goto, Actors, Requests, MsgStages,
        EndStages, Pipeline, ConversationAssumption, Store
  <2>2. m \notin Slots /\ Slots' = Slots \cup {m}
    BY <1>8 DEF PostMessage, Slots, InFlight, Goto, RequestsTypeOK, Pipeline,
        Actors, Requests
  <2>3. SlotsExact' /\ active' \in Nat
    BY <1>8, <2>2, SlotTaken DEF PostMessage
  <2> QED
    BY <1>8, <2>1, <2>3, TypeUntouched DEF PostMessage
<1>9. ASSUME NEW m \in Msgs, SaveAudio(m) PROVE Counted'
  <2>1. RequestsTypeOK'
    BY <1>9 DEF SaveAudio, RequestsTypeOK, Goto, Actors, Requests, MsgStages, EndStages,
        Pipeline, ConversationAssumption
  <2>2. LocksTypeOK'
    BY <1>9, LockOpsType, TypeUntouched DEF SaveAudio, Resources, Actors, Requests,
        RequestsTypeOK
  <2>3. Slots' = Slots
    BY <1>9 DEF SaveAudio, Slots, InFlight, Goto, Running, LastEvent,
        RequestsTypeOK, Pipeline, Actors, Requests, MsgStages, ConversationAssumption
  <2>4. SlotsExact' /\ active' \in Nat
    BY <1>9, <2>3, SlotKept DEF SaveAudio
  <2> QED
    BY <1>9, <2>1, <2>2, <2>4, TypeUntouched DEF SaveAudio
<1>10. ASSUME NEW m \in Msgs, SaveAudioFails(m) PROVE Counted'
  <2>1. RequestsTypeOK'
    BY <1>10 DEF SaveAudioFails, RequestsTypeOK, Goto, Actors, Requests, MsgStages,
        EndStages, Pipeline, ConversationAssumption
  <2>2. m \in Slots /\ Slots' = Slots \ {m}
    BY <1>10 DEF SaveAudioFails, Finish, Slots, InFlight, Goto, RequestsTypeOK,
        Pipeline, Actors, Requests
  <2>3. SlotsExact' /\ active' \in Nat
    BY <1>10, <2>2, SlotGivenBack DEF SaveAudioFails, Finish
  <2> QED
    BY <1>10, <2>1, <2>3, TypeUntouched DEF SaveAudioFails
<1>11. ASSUME NEW m \in Msgs, Transcribed(m) PROVE Counted'
  <2>1. RequestsTypeOK'
    <3>1. history[target[m]] \in Seq(Msgs)
      BY <1>11 DEF Transcribed, Running, RequestsTypeOK, SessionsTypeOK, Actors, Requests
    <3>2. Len(history[target[m]]) \in Nat
      BY <3>1
    <3>3. seen' \in [Msgs -> Nat]
      BY <1>11, <3>2 DEF Transcribed, RequestsTypeOK
    <3> QED
      BY <1>11, <3>3 DEF Transcribed, RequestsTypeOK, Goto, Actors, Requests, MsgStages,
          EndStages, Pipeline, ConversationAssumption, Running
  <2>2. Slots' = Slots
    BY <1>11 DEF Transcribed, Slots, InFlight, Goto, Running, LastEvent,
        RequestsTypeOK, Pipeline, Actors, Requests, MsgStages, ConversationAssumption
  <2>3. SlotsExact' /\ active' \in Nat
    BY <1>11, <2>2, SlotKept DEF Transcribed
  <2> QED
    BY <1>11, <2>1, <2>3, TypeUntouched DEF Transcribed
<1>12. ASSUME NEW m \in Msgs, CrisisFound(m) PROVE Counted'
  <2>1. RequestsTypeOK'
    BY <1>12 DEF CrisisFound, RequestsTypeOK, Goto, Actors, Requests, MsgStages,
        EndStages, Pipeline, ConversationAssumption, Running
  <2>2. Slots' = Slots
    BY <1>12 DEF CrisisFound, Slots, InFlight, Goto, Running, LastEvent,
        RequestsTypeOK, Pipeline, Actors, Requests, MsgStages, ConversationAssumption
  <2>3. SlotsExact' /\ active' \in Nat
    BY <1>12, <2>2, SlotKept DEF CrisisFound
  <2> QED
    BY <1>12, <2>1, <2>3, TypeUntouched DEF CrisisFound
<1>13. ASSUME NEW m \in Msgs, ModelFails(m) PROVE Counted'
  <2>1. RequestsTypeOK'
    BY <1>13 DEF ModelFails, RequestsTypeOK, Goto, Actors, Requests, MsgStages,
        EndStages, Pipeline, ConversationAssumption, Running, LastEvent, Send,
        Events
  <2>2. Slots' = Slots
    BY <1>13 DEF ModelFails, Slots, InFlight, Goto, Running, LastEvent,
        RequestsTypeOK, Pipeline, Actors, Requests, MsgStages, ConversationAssumption
  <2>3. SlotsExact' /\ active' \in Nat
    BY <1>13, <2>2, SlotKept DEF ModelFails
  <2> QED
    BY <1>13, <2>1, <2>3, TypeUntouched DEF ModelFails
<1>14. ASSUME NEW m \in Msgs, Crisis(m) PROVE Counted'
  <2>1. RequestsTypeOK'
    BY <1>14 DEF Crisis, RequestsTypeOK, Goto, Actors, Requests, MsgStages, EndStages,
        Pipeline, ConversationAssumption, LastEvent, Send, Events
  <2>2. FilesTypeOK'
    BY <1>14 DEF Crisis, FilesTypeOK, fileVars, LogSafety
  <2>3. Slots' = Slots
    BY <1>14 DEF Crisis, Slots, InFlight, Goto, Running, LastEvent,
        RequestsTypeOK, Pipeline, Actors, Requests, MsgStages, ConversationAssumption
  <2>4. SlotsExact' /\ active' \in Nat
    BY <1>14, <2>3, SlotKept DEF Crisis
  <2> QED
    BY <1>14, <2>1, <2>2, <2>4, TypeUntouched DEF Crisis
<1>15. ASSUME NEW m \in Msgs, Token(m) PROVE Counted'
  <2>1. RequestsTypeOK'
    BY <1>15 DEF Token, RequestsTypeOK, Goto, Actors, Requests, MsgStages, EndStages,
        Pipeline, ConversationAssumption, Send, Events
  <2>2. SlotsExact' /\ active' \in Nat
    BY <1>15, SlotsUntouched, SlotKept DEF Token
  <2> QED
    BY <1>15, <2>1, <2>2, TypeUntouched DEF Token
<1>16. ASSUME NEW m \in Msgs, StreamEnds(m) PROVE Counted'
  <2>1. RequestsTypeOK'
    BY <1>16 DEF StreamEnds, RequestsTypeOK, Goto, Actors, Requests, MsgStages,
        EndStages, Pipeline, ConversationAssumption, Send, Events
  <2>2. Slots' = Slots
    BY <1>16 DEF StreamEnds, Slots, InFlight, Goto, Running, LastEvent,
        RequestsTypeOK, Pipeline, Actors, Requests, MsgStages, ConversationAssumption
  <2>3. SlotsExact' /\ active' \in Nat
    BY <1>16, <2>2, SlotKept DEF StreamEnds
  <2> QED
    BY <1>16, <2>1, <2>3, TypeUntouched DEF StreamEnds
<1>17. ASSUME NEW m \in Msgs, Forbidden(m) PROVE Counted'
  <2>1. RequestsTypeOK'
    BY <1>17 DEF Forbidden, RequestsTypeOK, Goto, Actors, Requests, MsgStages, EndStages,
        Pipeline, ConversationAssumption
  <2>2. Slots' = Slots
    BY <1>17 DEF Forbidden, Slots, InFlight, Goto, Running, LastEvent,
        RequestsTypeOK, Pipeline, Actors, Requests, MsgStages, ConversationAssumption
  <2>3. SlotsExact' /\ active' \in Nat
    BY <1>17, <2>2, SlotKept DEF Forbidden
  <2> QED
    BY <1>17, <2>1, <2>3, TypeUntouched DEF Forbidden
<1>18. ASSUME NEW m \in Msgs, Masked(m) PROVE Counted'
  <2>1. RequestsTypeOK'
    BY <1>18 DEF Masked, RequestsTypeOK, Goto, Actors, Requests, MsgStages, EndStages,
        Pipeline, ConversationAssumption, Send, Events
  <2>2. FilesTypeOK'
    BY <1>18 DEF Masked, FilesTypeOK, fileVars, LogSafety
  <2>3. Slots' = Slots
    BY <1>18 DEF Masked, Slots, InFlight, Goto, Running, LastEvent,
        RequestsTypeOK, Pipeline, Actors, Requests, MsgStages, ConversationAssumption
  <2>4. SlotsExact' /\ active' \in Nat
    BY <1>18, <2>3, SlotKept DEF Masked
  <2> QED
    BY <1>18, <2>1, <2>2, <2>4, TypeUntouched DEF Masked
<1>19. ASSUME NEW m \in Msgs, StartMedia(m) PROVE Counted'
  <2>1. SessionsTypeOK'
    BY <1>19 DEF StartMedia, SessionsTypeOK, Lives, Record, RequestsTypeOK,
        MsgStages, Pipeline, Actors, Requests
  <2>2. RequestsTypeOK'
    BY <1>19 DEF StartMedia, RequestsTypeOK, Goto, Actors, Requests, MsgStages,
        EndStages, Pipeline, ConversationAssumption
  <2>3. LocksTypeOK'
    BY <1>19, LockOpsType, TypeUntouched DEF StartMedia, Resources, Actors, Requests
  <2>4. FilesTypeOK'
    BY <1>19 DEF StartMedia, FilesTypeOK, fileVars, RequestsTypeOK, Actors, Requests
  <2>5. Slots' = Slots
    BY <1>19 DEF StartMedia, Slots, InFlight, Goto, Running, LastEvent,
        RequestsTypeOK, Pipeline, Actors, Requests, MsgStages, ConversationAssumption
  <2>6. SlotsExact' /\ active' \in Nat
    BY <1>19, <2>5, SlotKept DEF StartMedia
  <2> QED
    BY <1>19, <2>1, <2>2, <2>3, <2>4, <2>6, TypeUntouched DEF StartMedia
<1>20. ASSUME NEW m \in Msgs, StartMediaFails(m) PROVE Counted'
  <2>1. SessionsTypeOK'
    BY <1>20 DEF StartMediaFails, SessionsTypeOK, Lives, Record,
        RequestsTypeOK, MsgStages, Pipeline, Actors, Requests
  <2>2. RequestsTypeOK'
    BY <1>20 DEF StartMediaFails, RequestsTypeOK, Goto, Actors, Requests, MsgStages,
        EndStages, Pipeline, ConversationAssumption, LastEvent, Send, Events
  <2>3. FilesTypeOK'
    BY <1>20 DEF StartMediaFails, FilesTypeOK, fileVars, RequestsTypeOK, Actors, Requests
  <2>4. Slots' = Slots
    BY <1>20 DEF StartMediaFails, Slots, InFlight, Goto, Running, LastEvent,
        RequestsTypeOK, Pipeline, Actors, Requests, MsgStages, ConversationAssumption
  <2>5. SlotsExact' /\ active' \in Nat
    BY <1>20, <2>4, SlotKept DEF StartMediaFails
  <2> QED
    BY <1>20, <2>1, <2>2, <2>3, <2>5, TypeUntouched DEF StartMediaFails
<1>21. ASSUME NEW m \in Msgs, Synthesized(m) PROVE Counted'
  <2>1. RequestsTypeOK'
    BY <1>21 DEF Synthesized, RequestsTypeOK, Goto, Actors, Requests, MsgStages,
        EndStages, Pipeline, ConversationAssumption, Running
  <2>2. LocksTypeOK'
    BY <1>21, HandOverType, TypeUntouched DEF Synthesized, Resources, Actors, Requests
  <2>3. FilesTypeOK'
    BY <1>21 DEF Synthesized, FilesTypeOK, fileVars
  <2>4. Slots' = Slots
    BY <1>21 DEF Synthesized, Slots, InFlight, Goto, Running, LastEvent,
        RequestsTypeOK, Pipeline, Actors, Requests, MsgStages, ConversationAssumption
  <2>5. SlotsExact' /\ active' \in Nat
    BY <1>21, <2>4, SlotKept DEF Synthesized
  <2> QED
    BY <1>21, <2>1, <2>2, <2>3, <2>5, TypeUntouched DEF Synthesized
<1>22. ASSUME NEW m \in Msgs, Rendered(m) PROVE Counted'
  <2>1. RequestsTypeOK'
    BY <1>22 DEF Rendered, RequestsTypeOK, Goto, Actors, Requests, MsgStages, EndStages,
        Pipeline, ConversationAssumption, Running, LastEvent, Send, Events
  <2>2. LocksTypeOK'
    BY <1>22, LockOpsType, TypeUntouched DEF Rendered, Resources, Actors, Requests
  <2>3. FilesTypeOK'
    BY <1>22 DEF Rendered, FilesTypeOK, fileVars
  <2>4. Slots' = Slots
    BY <1>22 DEF Rendered, Slots, InFlight, Goto, Running, LastEvent,
        RequestsTypeOK, Pipeline, Actors, Requests, MsgStages, ConversationAssumption
  <2>5. SlotsExact' /\ active' \in Nat
    BY <1>22, <2>4, SlotKept DEF Rendered
  <2> QED
    BY <1>22, <2>1, <2>2, <2>3, <2>5, TypeUntouched DEF Rendered
<1>23. ASSUME NEW m \in Msgs, MediaFails(m) PROVE Counted'
  <2>1. RequestsTypeOK'
    BY <1>23 DEF MediaFails, RequestsTypeOK, Goto, Actors, Requests, MsgStages,
        EndStages, Pipeline, ConversationAssumption, Running, LastEvent, Send,
        Events
  <2>2. LocksTypeOK'
    BY <1>23, LockOpsType, TypeUntouched DEF MediaFails, Resources, Actors, Requests
  <2>3. FilesTypeOK'
    BY <1>23 DEF MediaFails, FilesTypeOK, fileVars
  <2>4. Slots' = Slots
    BY <1>23 DEF MediaFails, Slots, InFlight, Goto, Running, LastEvent,
        RequestsTypeOK, Pipeline, Actors, Requests, MsgStages, ConversationAssumption
  <2>5. SlotsExact' /\ active' \in Nat
    BY <1>23, <2>4, SlotKept DEF MediaFails
  <2> QED
    BY <1>23, <2>1, <2>2, <2>3, <2>5, TypeUntouched DEF MediaFails
<1>24. ASSUME NEW m \in Msgs, Close(m) PROVE Counted'
  <2>1. RequestsTypeOK'
    BY <1>24 DEF Close, RequestsTypeOK, Goto, Actors, Requests, MsgStages, EndStages,
        Pipeline, ConversationAssumption, Finish
  <2>2. LocksTypeOK'
    BY <1>24, LockOpsType, TypeUntouched DEF Close, Resources, Actors, Requests, Finish
  <2>3. m \in Slots /\ Slots' = Slots \ {m}
    BY <1>24 DEF Close, Finish, Slots, InFlight, Goto, RequestsTypeOK,
        Pipeline, Actors, Requests
  <2>4. SlotsExact' /\ active' \in Nat
    BY <1>24, <2>3, SlotGivenBack DEF Close, Finish
  <2> QED
    BY <1>24, <2>1, <2>2, <2>4, TypeUntouched DEF Close, Finish
<1>25. ASSUME NEW m \in Msgs, Disconnect(m) PROVE Counted'
  <2>1. RequestsTypeOK'
    BY <1>25 DEF Disconnect, RequestsTypeOK, Goto, Actors, Requests, MsgStages,
        EndStages, Pipeline, ConversationAssumption, Finish
  <2>2. LocksTypeOK'
    BY <1>25, LockOpsType, TypeUntouched DEF Disconnect, Resources, Actors, Requests,
        Finish
  <2>3. FilesTypeOK'
    BY <1>25 DEF Disconnect, FilesTypeOK, fileVars, Underway, Models
  <2>4. m \in Slots /\ Slots' = Slots \ {m}
    BY <1>25 DEF Disconnect, Finish, Slots, InFlight, Goto, RequestsTypeOK,
        Pipeline, Actors, Requests
  <2>5. SlotsExact' /\ active' \in Nat
    BY <1>25, <2>4, SlotGivenBack DEF Disconnect, Finish
  <2> QED
    BY <1>25, <2>1, <2>2, <2>3, <2>5, TypeUntouched DEF Disconnect, Finish
<1>26. ASSUME NEW a \in Actors, Granted(a) PROVE Counted'
  <2>1. LocksTypeOK'
    BY <1>26, LockOpsType, TypeUntouched DEF Granted, Resources, Actors, Requests
  <2>2. SlotsExact' /\ active' \in Nat
    BY <1>26, SlotsUntouched, SlotKept DEF Granted
  <2>3. FilesTypeOK'
    BY <1>26 DEF Granted, FilesTypeOK, Made, RequestsTypeOK, Requests
  <2> QED
    BY <1>26, <2>1, <2>2, <2>3, TypeUntouched DEF Granted
<1>27. ASSUME NEW m \in Msgs, NEW k \in Models, StrayEnds(m, k) PROVE Counted'
  <2>1. FilesTypeOK'
    BY <1>27 DEF StrayEnds, FilesTypeOK, fileVars
  <2>2. SlotsExact' /\ active' \in Nat
    BY <1>27, SlotsUntouched, SlotKept DEF StrayEnds
  <2> QED
    BY <1>27, <2>1, <2>2, TypeUntouched DEF StrayEnds
<1>28. ASSUME Restart PROVE Counted'
  <2>1. SessionsTypeOK'
    BY <1>28 DEF Restart, SessionsTypeOK, Lives, Store
  <2>2. RequestsTypeOK'
    BY <1>28 DEF Restart, RequestsTypeOK, Goto, Actors, Requests, MsgStages, EndStages,
        Pipeline, ConversationAssumption
  <2>3. LocksTypeOK'
    BY <1>28 DEF Restart, LocksTypeOK
  <2>4. FilesTypeOK'
    BY <1>28 DEF Restart, FilesTypeOK, fileVars
  <2>5. Slots' = {}
    BY <1>28 DEF Restart, Slots, InFlight, Pipeline, Actors, Requests
  <2>6. SlotsExact' /\ active' \in Nat
    BY <1>28, <2>5, FS_EmptySet DEF Restart, SlotsExact, ConversationAssumption
  <2> QED
    BY <1>28, <2>1, <2>2, <2>3, <2>4, <2>6, TypeUntouched DEF Restart
<1>29. ASSUME NEW r \in Runs, NEW k \in {GPU, DITTO}, RunAsks(r, k) PROVE Counted'
  <2>1. LocksTypeOK'
    BY <1>29, HandOverType DEF RunAsks, Resources, Actors
  <2>2. SlotsExact' /\ active' \in Nat
    BY <1>29, SlotsUntouched, SlotKept DEF RunAsks
  <2> QED
    BY <1>29, <2>1, <2>2, TypeUntouched DEF RunAsks
<1>30. ASSUME NEW r \in Runs, RunLeaves(r) PROVE Counted'
  <2>1. LocksTypeOK'
    BY <1>30, LockOpsType DEF RunLeaves, Actors
  <2>2. SlotsExact' /\ active' \in Nat
    BY <1>30, SlotsUntouched, SlotKept DEF RunLeaves
  <2> QED
    BY <1>30, <2>1, <2>2, TypeUntouched DEF RunLeaves
<1>31. ASSUME UNCHANGED vars PROVE Counted'
  BY <1>31, TypeUntouched, SlotsUntouched, SlotKept DEF vars, sessionVars,
      locks, fileVars
<1> QED
  BY <1>1, <1>2, <1>3, <1>4, <1>5, <1>6, <1>7, <1>8, <1>9, <1>10, <1>11, <1>12,
      <1>13, <1>14, <1>15, <1>16, <1>17, <1>18, <1>19, <1>20, <1>21, <1>22,
      <1>23, <1>24, <1>25, <1>26, <1>27, <1>28, <1>29, <1>30, <1>31 DEF Next, MessageStep,
      EndStep, Quiet

(* What asking for a resource does to its owner and to the queues. *)
LEMMA AcquireEffect ==
    ASSUME LocksTypeOK, NEW a \in Actors, ~Waiting(a), NEW r \in Resources,
           Acquire(a, r)
    PROVE  IF Free(r)
             THEN owner' = [owner EXCEPT ![r] = a] /\ wants' = wants
             ELSE owner' = owner /\ wants' = [wants EXCEPT ![a] = r]
<1>1. CASE Free(r)
  BY <1>1 DEF LocksTypeOK, Acquire, HandOver, Waiting, Obtainable, Free
<1>2. CASE ~Free(r)
  BY <1>2 DEF LocksTypeOK, Acquire, HandOver, Obtainable, Free
<1> QED
  BY <1>1, <1>2

(* Who holds a lock is in the block it guards, and who is in the block holds *)
(* it: neither half is inductive alone, since a lock is granted to whoever   *)
(* waits for it and taken from whoever leaves.                               *)
LockInv == Serialised /\ NoPermitLeaked

(* The locks are free in the beginning. *)
LEMMA LockInit == ConversationAssumption /\ Init => LockInv
<1> SUFFICES ASSUME ConversationAssumption, Init PROVE LockInv
  OBVIOUS
<1>1. Serialised
  BY DEF Init, Serialised, Processing, Running, Pipeline, Actors, Requests
<1>2. NoPermitLeaked
  BY DEF Init, LocksInit, NoPermitLeaked, Waiting, Resources, Actors, Requests,
      ConversationAssumption
<1> QED
  BY <1>1, <1>2 DEF LockInv

(* Every step keeps owners and stages in agreement. *)
LEMMA LockStep ==
    ASSUME ConversationAssumption, TypeOK, LockInv, [Next]_vars
    PROVE  LockInv'
<1> USE DEF TypeOK, LockInv
<1>1. ASSUME NEW s \in Sessions, StartSession(s) PROVE LockInv'
  <2> QED
    BY <1>1 DEF StartSession, Serialised, NoPermitLeaked, Processing, Running,
        Waiting, locks
<1>2. ASSUME NEW s \in Sessions, GoStale(s) PROVE LockInv'
  <2> QED
    BY <1>2 DEF GoStale, Serialised, NoPermitLeaked, Processing, Running,
        Waiting, locks
<1>3. ASSUME Sweep PROVE LockInv'
  <2> QED
    BY <1>3 DEF Sweep, Serialised, NoPermitLeaked, Processing, Running,
        Waiting, locks
<1>4. ASSUME NEW e \in Ends, NEW s \in Sessions, EndSession(e, s) PROVE LockInv'
  <2>1. stage[e] = "idle" /\ owner[s] = Nobody /\ e \in Actors
    BY <1>4 DEF EndSession, Free, Actors, Requests
  <2>2. target' = [target EXCEPT ![e] = s]
    BY <1>4 DEF EndSession
  <2>3. ~Waiting(e) /\ \A r \in Resources : owner[r] # e
    BY <2>1 DEF NoPermitLeaked, Pipeline, Requests, Resources, Running,
        ConversationAssumption
  <2>4. CASE s \in speakDir
    <3>1. stage' = [stage EXCEPT ![e] = "cleaning"]
      BY <1>4, <2>4 DEF EndSession, Goto
    <3>2. owner' = [owner EXCEPT ![s] = e] /\ wants' = wants
      BY <1>4, <2>1, <2>3, <2>4, AcquireEffect DEF EndSession, Resources
    <3>3. Serialised'
      BY <2>1, <2>2, <2>3, <3>1, <3>2 DEF Serialised, Processing, Running, Waiting,
          Actors, Requests, RequestsTypeOK, LocksTypeOK, Resources, ConversationAssumption
    <3>4. NoPermitLeaked'
      BY <2>1, <2>2, <2>3, <3>1, <3>2 DEF NoPermitLeaked, Running, Waiting, Actors, Requests,
          RequestsTypeOK, LocksTypeOK, Resources, Pipeline, ConversationAssumption
    <3> QED
      BY <3>3, <3>4
  <2>5. CASE s \notin speakDir
    <3>1. stage' = [stage EXCEPT ![e] = "done"] /\ UNCHANGED locks
      BY <1>4, <2>5 DEF EndSession, Goto
    <3>2. Serialised'
      BY <2>1, <2>2, <2>3, <3>1 DEF Serialised, Processing, Running, Waiting, Actors, Requests,
          RequestsTypeOK, locks, ConversationAssumption
    <3>3. NoPermitLeaked'
      BY <2>1, <2>2, <2>3, <3>1 DEF NoPermitLeaked, Running, Waiting, Actors, Requests,
          RequestsTypeOK, LocksTypeOK, Resources, locks, Pipeline, ConversationAssumption
    <3> QED
      BY <3>2, <3>3
  <2> QED
    BY <2>4, <2>5
<1>5. ASSUME NEW e \in Ends, NEW s \in Sessions, EndSessionWaits(e, s) PROVE LockInv'
  <2>1. Serialised'
    BY <1>5 DEF Serialised, Processing, EndSessionWaits, Free, Obtainable, Waiters, Goto,
        Acquire, HandOver, Running, Waiting, RequestsTypeOK, Actors, Requests, Pipeline,
        LocksTypeOK, Resources, ConversationAssumption
  <2>2. NoPermitLeaked'
    BY <1>5 DEF NoPermitLeaked, EndSessionWaits, Free, Obtainable, Waiters, Goto, Acquire,
        HandOver, Running, Waiting, RequestsTypeOK, Actors, Requests, Pipeline,
        LocksTypeOK, Resources, ConversationAssumption
  <2> QED
    BY <2>1, <2>2
<1>6. ASSUME NEW e \in Ends, EndPop(e) PROVE LockInv'
  <2>1. Serialised'
    BY <1>6 DEF Serialised, Processing, EndPop, Running, Goto, Leave, Waiting,
        RequestsTypeOK, Actors, Requests, Pipeline, LocksTypeOK, Resources,
        ConversationAssumption, locks
  <2>2. NoPermitLeaked'
    <3>1. CASE UNCHANGED locks /\ stage' = [stage EXCEPT ![e] = "cleaning"]
      BY <1>6, <3>1 DEF NoPermitLeaked, EndPop, Running, Waiting,
          RequestsTypeOK, Requests, Pipeline, LocksTypeOK, Resources,
          ConversationAssumption, locks
    <3>2. CASE Leave(e) /\ stage' = [stage EXCEPT ![e] = "done"]
      BY <1>6, <3>2 DEF NoPermitLeaked, EndPop, Running, Leave, Waiting,
          RequestsTypeOK, Actors, Requests, LocksTypeOK, Resources,
          ConversationAssumption
    <3> QED
      BY <1>6, <3>1, <3>2 DEF EndPop, Goto
  <2> QED
    BY <2>1, <2>2
<1>7. ASSUME NEW e \in Ends, EndClean(e) PROVE LockInv'
  <2>1. Serialised'
    BY <1>7 DEF Serialised, Processing, EndClean, Goto, Leave, Running,
        Waiting, RequestsTypeOK, Actors, Requests, Pipeline, LocksTypeOK, Resources,
        ConversationAssumption
  <2>2. NoPermitLeaked'
    BY <1>7 DEF NoPermitLeaked, EndClean, Goto, Leave, Running, Waiting,
        RequestsTypeOK, Actors, Requests, Pipeline, LocksTypeOK, Resources,
        ConversationAssumption
  <2> QED
    BY <2>1, <2>2
<1>8. ASSUME NEW m \in Msgs, NEW s \in Sessions, PostMessage(m, s) PROVE LockInv'
  <2>1. Serialised'
    BY <1>8 DEF Serialised, Processing, PostMessage, Goto, Running, Waiting,
        RequestsTypeOK, Actors, Requests, Pipeline, LocksTypeOK, Resources,
        ConversationAssumption, locks
  <2>2. NoPermitLeaked'
    BY <1>8 DEF NoPermitLeaked, PostMessage, Goto, Running, Waiting,
        RequestsTypeOK, Actors, Requests, Pipeline, LocksTypeOK, Resources,
        ConversationAssumption, locks
  <2> QED
    BY <2>1, <2>2
<1>9. ASSUME NEW m \in Msgs, SaveAudio(m) PROVE LockInv'
  <2>1. stage[m] = "saving" /\ target[m] \in Sessions /\ m \in Actors
    BY <1>9 DEF SaveAudio, RequestsTypeOK, Actors, Requests
  <2>2. stage' = [stage EXCEPT ![m] = "transcribing"] /\ target' = target
    BY <1>9 DEF SaveAudio, Goto
  <2>3. ~Waiting(m) /\ \A r \in Resources : owner[r] # m
    BY <2>1 DEF NoPermitLeaked, Pipeline, Requests, Resources, Running,
        ConversationAssumption
  <2>4. CASE owner[target[m]] = Nobody /\ wants' = wants
             /\ owner' = [owner EXCEPT ![target[m]] = m]
    <3>1. Serialised'
      BY <2>1, <2>2, <2>3, <2>4 DEF Serialised, Processing, Running, Waiting, Actors, Requests,
          RequestsTypeOK, LocksTypeOK, Resources, ConversationAssumption
    <3>2. NoPermitLeaked'
      BY <2>1, <2>2, <2>3, <2>4 DEF NoPermitLeaked, Running, Waiting, Actors, Requests,
          RequestsTypeOK, LocksTypeOK, Resources, Pipeline, ConversationAssumption
    <3> QED
      BY <3>1, <3>2
  <2>5. CASE owner' = owner /\ wants' = [wants EXCEPT ![m] = target[m]]
    <3>1. Serialised'
      BY <2>1, <2>2, <2>3, <2>5 DEF Serialised, Processing, Running, Waiting, Actors, Requests,
          RequestsTypeOK, LocksTypeOK, Resources, ConversationAssumption
    <3>2. NoPermitLeaked'
      BY <2>1, <2>2, <2>3, <2>5 DEF NoPermitLeaked, Running, Waiting, Actors, Requests,
          RequestsTypeOK, LocksTypeOK, Resources, Pipeline, ConversationAssumption
    <3> QED
      BY <3>1, <3>2
  <2> QED
    BY <1>9, <2>1, <2>3, <2>4, <2>5, AcquireEffect DEF SaveAudio, Free, Resources
<1>10. ASSUME NEW m \in Msgs, SaveAudioFails(m) PROVE LockInv'
  <2>1. Serialised'
    BY <1>10 DEF Serialised, Processing, SaveAudioFails, Goto, Running,
        Waiting, RequestsTypeOK, Actors, Requests, Pipeline, LocksTypeOK, Resources,
        ConversationAssumption, locks
  <2>2. NoPermitLeaked'
    BY <1>10 DEF NoPermitLeaked, SaveAudioFails, Goto, Running, Waiting,
        RequestsTypeOK, Actors, Requests, Pipeline, LocksTypeOK, Resources,
        ConversationAssumption, locks
  <2> QED
    BY <2>1, <2>2
<1>11. ASSUME NEW m \in Msgs, Transcribed(m) PROVE LockInv'
  <2>1. Serialised'
    BY <1>11 DEF Serialised, Processing, Transcribed, Running, Goto, Waiting,
        RequestsTypeOK, Actors, Requests, Pipeline, LocksTypeOK, Resources,
        ConversationAssumption, locks
  <2>2. NoPermitLeaked'
    BY <1>11 DEF NoPermitLeaked, Transcribed, Running, Goto, Waiting,
        RequestsTypeOK, Actors, Requests, Pipeline, LocksTypeOK, Resources,
        ConversationAssumption, locks
  <2> QED
    BY <2>1, <2>2
<1>12. ASSUME NEW m \in Msgs, CrisisFound(m) PROVE LockInv'
  <2>1. Serialised'
    BY <1>12 DEF Serialised, Processing, CrisisFound, Running, Goto, Waiting,
        RequestsTypeOK, Actors, Requests, Pipeline, LocksTypeOK, Resources,
        ConversationAssumption, locks
  <2>2. NoPermitLeaked'
    BY <1>12 DEF NoPermitLeaked, CrisisFound, Running, Goto, Waiting,
        RequestsTypeOK, Actors, Requests, Pipeline, LocksTypeOK, Resources,
        ConversationAssumption, locks
  <2> QED
    BY <2>1, <2>2
<1>13. ASSUME NEW m \in Msgs, ModelFails(m) PROVE LockInv'
  <2>1. Serialised'
    BY <1>13 DEF Serialised, Processing, ModelFails, Running, LastEvent, Goto,
        Waiting, RequestsTypeOK, Actors, Requests, Pipeline, LocksTypeOK, Resources,
        ConversationAssumption, locks
  <2>2. NoPermitLeaked'
    BY <1>13 DEF NoPermitLeaked, ModelFails, Running, LastEvent, Goto, Waiting,
        RequestsTypeOK, Actors, Requests, Pipeline, LocksTypeOK, Resources,
        ConversationAssumption, locks
  <2> QED
    BY <2>1, <2>2
<1>14. ASSUME NEW m \in Msgs, Crisis(m) PROVE LockInv'
  <2>1. Serialised'
    BY <1>14 DEF Serialised, Processing, Crisis, LastEvent, Goto, Running,
        Waiting, RequestsTypeOK, Actors, Requests, Pipeline, LocksTypeOK, Resources,
        ConversationAssumption, locks
  <2>2. NoPermitLeaked'
    BY <1>14 DEF NoPermitLeaked, Crisis, LastEvent, Goto, Running, Waiting,
        RequestsTypeOK, Actors, Requests, Pipeline, LocksTypeOK, Resources,
        ConversationAssumption, locks
  <2> QED
    BY <2>1, <2>2
<1>15. ASSUME NEW m \in Msgs, Token(m) PROVE LockInv'
  <2>1. Serialised'
    BY <1>15 DEF Serialised, Processing, Token, Running, Waiting,
        RequestsTypeOK, Actors, Requests, Pipeline, LocksTypeOK, Resources,
        ConversationAssumption, locks
  <2>2. NoPermitLeaked'
    BY <1>15 DEF NoPermitLeaked, Token, Running, Waiting, RequestsTypeOK,
        Actors, Requests, Pipeline, LocksTypeOK, Resources, ConversationAssumption, locks
  <2> QED
    BY <2>1, <2>2
<1>16. ASSUME NEW m \in Msgs, StreamEnds(m) PROVE LockInv'
  <2>1. Serialised'
    BY <1>16 DEF Serialised, Processing, StreamEnds, Goto, Running, Waiting,
        RequestsTypeOK, Actors, Requests, Pipeline, LocksTypeOK, Resources,
        ConversationAssumption, locks
  <2>2. NoPermitLeaked'
    BY <1>16 DEF NoPermitLeaked, StreamEnds, Goto, Running, Waiting,
        RequestsTypeOK, Actors, Requests, Pipeline, LocksTypeOK, Resources,
        ConversationAssumption, locks
  <2> QED
    BY <2>1, <2>2
<1>17. ASSUME NEW m \in Msgs, Forbidden(m) PROVE LockInv'
  <2>1. Serialised'
    BY <1>17 DEF Serialised, Processing, Forbidden, Goto, Running, Waiting,
        RequestsTypeOK, Actors, Requests, Pipeline, LocksTypeOK, Resources,
        ConversationAssumption, locks
  <2>2. NoPermitLeaked'
    BY <1>17 DEF NoPermitLeaked, Forbidden, Goto, Running, Waiting,
        RequestsTypeOK, Actors, Requests, Pipeline, LocksTypeOK, Resources,
        ConversationAssumption, locks
  <2> QED
    BY <2>1, <2>2
<1>18. ASSUME NEW m \in Msgs, Masked(m) PROVE LockInv'
  <2>1. Serialised'
    BY <1>18 DEF Serialised, Processing, Masked, Goto, Running, Waiting,
        RequestsTypeOK, Actors, Requests, Pipeline, LocksTypeOK, Resources,
        ConversationAssumption, locks
  <2>2. NoPermitLeaked'
    BY <1>18 DEF NoPermitLeaked, Masked, Goto, Running, Waiting,
        RequestsTypeOK, Actors, Requests, Pipeline, LocksTypeOK, Resources,
        ConversationAssumption, locks
  <2> QED
    BY <2>1, <2>2
<1>19. ASSUME NEW m \in Msgs, StartMedia(m) PROVE LockInv'
  <2>1. Serialised'
    BY <1>19 DEF Serialised, Processing, StartMedia, Record, Goto, Acquire,
        HandOver, Free, Obtainable, Waiters, Running, Waiting, RequestsTypeOK, Actors, Requests,
        Pipeline, LocksTypeOK, Resources, ConversationAssumption
  <2>2. NoPermitLeaked'
    BY <1>19 DEF NoPermitLeaked, StartMedia, Record, Goto, Acquire, HandOver,
        Free, Obtainable, Waiters, Running, Waiting, RequestsTypeOK, Actors, Requests, Pipeline,
        LocksTypeOK, Resources, ConversationAssumption
  <2> QED
    BY <2>1, <2>2
<1>20. ASSUME NEW m \in Msgs, StartMediaFails(m) PROVE LockInv'
  <2>1. Serialised'
    BY <1>20 DEF Serialised, Processing, StartMediaFails, Record, LastEvent,
        Goto, Running, Waiting, RequestsTypeOK, Actors, Requests, Pipeline, LocksTypeOK,
        Resources, ConversationAssumption, locks
  <2>2. NoPermitLeaked'
    BY <1>20 DEF NoPermitLeaked, StartMediaFails, Record, LastEvent, Goto,
        Running, Waiting, RequestsTypeOK, Actors, Requests, Pipeline, LocksTypeOK,
        Resources, ConversationAssumption, locks
  <2> QED
    BY <2>1, <2>2
<1>21. ASSUME NEW m \in Msgs, Synthesized(m) PROVE LockInv'
  <2>1. Serialised'
    BY <1>21 DEF Serialised, Processing, Synthesized, Running, Goto, HandOver,
        Free, Obtainable, Waiters, Waiting, RequestsTypeOK, Actors, Requests, Pipeline, LocksTypeOK,
        Resources, ConversationAssumption
  <2>2. NoPermitLeaked'
    BY <1>21 DEF NoPermitLeaked, Synthesized, Running, Goto, HandOver, Free,
        Waiters, Waiting, RequestsTypeOK, Actors, Requests, Pipeline, LocksTypeOK,
        Resources, ConversationAssumption
  <2> QED
    BY <2>1, <2>2
<1>22. ASSUME NEW m \in Msgs, Rendered(m) PROVE LockInv'
  <2>1. Serialised'
    BY <1>22 DEF Serialised, Processing, Rendered, Running, Release, LastEvent,
        Goto, Waiting, RequestsTypeOK, Actors, Requests, Pipeline, LocksTypeOK,
        Resources, ConversationAssumption
  <2>2. NoPermitLeaked'
    BY <1>22 DEF NoPermitLeaked, Rendered, Running, Release, LastEvent, Goto,
        Waiting, RequestsTypeOK, Actors, Requests, Pipeline, LocksTypeOK, Resources,
        ConversationAssumption
  <2> QED
    BY <2>1, <2>2
<1>23. ASSUME NEW m \in Msgs, MediaFails(m) PROVE LockInv'
  <2>1. Serialised'
    BY <1>23 DEF Serialised, Processing, MediaFails, Running, Release,
        LastEvent, Goto, Waiting, RequestsTypeOK, Actors, Requests, Pipeline,
        LocksTypeOK, Resources, ConversationAssumption
  <2>2. NoPermitLeaked'
    BY <1>23 DEF NoPermitLeaked, MediaFails, Running, Release, LastEvent, Goto,
        Waiting, RequestsTypeOK, Actors, Requests, Pipeline, LocksTypeOK, Resources,
        ConversationAssumption
  <2> QED
    BY <2>1, <2>2
<1>24. ASSUME NEW m \in Msgs, Close(m) PROVE LockInv'
  <2>1. Serialised'
    BY <1>24 DEF Serialised, Processing, Close, Finish, Goto, Leave, Running,
        Waiting, RequestsTypeOK, Actors, Requests, Pipeline, LocksTypeOK, Resources,
        ConversationAssumption
  <2>2. NoPermitLeaked'
    BY <1>24 DEF NoPermitLeaked, Close, Finish, Goto, Leave, Running, Waiting,
        RequestsTypeOK, Actors, Requests, Pipeline, LocksTypeOK, Resources,
        ConversationAssumption
  <2> QED
    BY <2>1, <2>2
<1>25. ASSUME NEW m \in Msgs, Disconnect(m) PROVE LockInv'
  <2>1. Serialised'
    BY <1>25 DEF Serialised, Processing, Disconnect, Finish, Goto, Leave,
        Running, Waiting, RequestsTypeOK, Actors, Requests, Pipeline, LocksTypeOK,
        Resources, ConversationAssumption
  <2>2. NoPermitLeaked'
    BY <1>25 DEF NoPermitLeaked, Disconnect, Finish, Goto, Leave, Running,
        Waiting, RequestsTypeOK, Actors, Requests, Pipeline, LocksTypeOK, Resources,
        ConversationAssumption
  <2> QED
    BY <2>1, <2>2
<1>26. ASSUME NEW a \in Actors, Granted(a) PROVE LockInv'
  <2>1. Serialised'
    BY <1>26 DEF Serialised, Processing, NoPermitLeaked, Granted, Wake,
        Running, Waiting, RequestsTypeOK, Actors, Requests, Pipeline, LocksTypeOK,
        Resources, ConversationAssumption
  <2>2. NoPermitLeaked'
    BY <1>26 DEF NoPermitLeaked, Granted, Wake, Running, Waiting,
        RequestsTypeOK, Actors, Requests, Pipeline, LocksTypeOK, Resources,
        ConversationAssumption
  <2> QED
    BY <2>1, <2>2
<1>27. ASSUME NEW m \in Msgs, NEW k \in Models, StrayEnds(m, k) PROVE LockInv'
  <2> QED
    BY <1>27 DEF StrayEnds, Serialised, NoPermitLeaked, Processing, Running,
        Waiting, locks
<1>28. ASSUME Restart PROVE LockInv'
  <2>1. Serialised'
    BY <1>28 DEF Serialised, Processing, Restart, Running, Waiting,
        RequestsTypeOK, Actors, Requests, Pipeline, LocksTypeOK, Resources,
        ConversationAssumption, locks
  <2>2. NoPermitLeaked'
    BY <1>28 DEF NoPermitLeaked, Restart, Running, Waiting, RequestsTypeOK,
        Actors, Requests, Pipeline, LocksTypeOK, Resources, ConversationAssumption, locks
  <2> QED
    BY <2>1, <2>2
<1>29. ASSUME NEW r \in Runs, NEW k \in {GPU, DITTO}, RunAsks(r, k) PROVE LockInv'
  <2>1. r \in Actors /\ r \notin Requests /\ k \in Resources
    BY <1>29 DEF Actors, Requests, Resources, ConversationAssumption
  <2>2. Serialised'
    BY <1>29, <2>1 DEF Serialised, Processing, RunAsks, HandOver, Obtainable, Held,
        Pipeline, Running, Waiting, RequestsTypeOK, Actors, Requests, LocksTypeOK, Resources,
        ConversationAssumption
  <2>3. NoPermitLeaked'
    BY <1>29, <2>1 DEF NoPermitLeaked, RunAsks, HandOver, Obtainable, Held,
        Running, Waiting, RequestsTypeOK, Actors, Requests, LocksTypeOK, Resources,
        ConversationAssumption
  <2> QED
    BY <2>2, <2>3
<1>30. ASSUME NEW r \in Runs, RunLeaves(r) PROVE LockInv'
  <2>1. r \in Actors /\ r \notin Requests
    BY <1>30 DEF Actors, Requests, ConversationAssumption
  <2>2. Serialised'
    BY <1>30, <2>1 DEF Serialised, Processing, RunLeaves, Leave, Held,
        Pipeline, Running, Waiting, RequestsTypeOK, Actors, Requests, LocksTypeOK, Resources,
        ConversationAssumption
  <2>3. NoPermitLeaked'
    BY <1>30, <2>1 DEF NoPermitLeaked, RunLeaves, Leave, Held,
        Running, Waiting, RequestsTypeOK, Actors, Requests, LocksTypeOK, Resources,
        ConversationAssumption
  <2> QED
    BY <2>2, <2>3
<1>31. ASSUME UNCHANGED vars PROVE LockInv'
  BY <1>31 DEF vars, locks, Serialised, NoPermitLeaked, Processing, Running,
      Waiting
<1> QED
  BY <1>1, <1>2, <1>3, <1>4, <1>5, <1>6, <1>7, <1>8, <1>9, <1>10, <1>11, <1>12,
      <1>13, <1>14, <1>15, <1>16, <1>17, <1>18, <1>19, <1>20, <1>21, <1>22,
      <1>23, <1>24, <1>25, <1>26, <1>27, <1>28, <1>29, <1>30, <1>31 DEF Next, MessageStep,
      EndStep, Quiet

(* What a message relies on across its awaits: the directory it writes to and *)
(* the history it answers.  Inductive given who holds the session locks.      *)
PipelineInv == MediaDirKept /\ HistoryCurrent

(* Every step keeps what a message in the pipeline relies on. *)
LEMMA PipelineStep ==
    ASSUME ConversationAssumption, TypeOK, LockInv, PipelineInv, [Next]_vars
    PROVE  PipelineInv'
<1> USE DEF TypeOK, LockInv, PipelineInv
<1>1. ASSUME NEW s \in Sessions, StartSession(s) PROVE PipelineInv'
  <2> QED
    BY <1>1 DEF StartSession, MediaDirKept, HistoryCurrent, sessionVars,
        fileVars
<1>2. ASSUME NEW s \in Sessions, GoStale(s) PROVE PipelineInv'
  <2> QED
    BY <1>2 DEF GoStale, MediaDirKept, HistoryCurrent, sessionVars, fileVars
<1>3. ASSUME Sweep PROVE PipelineInv'
  <2> QED
    BY <1>3 DEF Sweep, MediaDirKept, HistoryCurrent, sessionVars, fileVars
<1>4. ASSUME NEW e \in Ends, NEW s \in Sessions, EndSession(e, s) PROVE PipelineInv'
  <2>1. MediaDirKept'
    BY <1>4 DEF MediaDirKept, EndSession, Goto, RequestsTypeOK, Actors, Requests,
        fileVars, ConversationAssumption
  <2>2. HistoryCurrent'
    BY <1>4 DEF HistoryCurrent, EndSession, Goto, RequestsTypeOK, Actors, Requests,
        sessionVars, ConversationAssumption
  <2> QED
    BY <2>1, <2>2
<1>5. ASSUME NEW e \in Ends, NEW s \in Sessions, EndSessionWaits(e, s) PROVE PipelineInv'
  <2>1. MediaDirKept'
    BY <1>5 DEF MediaDirKept, EndSessionWaits, Goto, RequestsTypeOK, Actors, Requests,
        fileVars, ConversationAssumption
  <2>2. HistoryCurrent'
    BY <1>5 DEF HistoryCurrent, EndSessionWaits, Goto, RequestsTypeOK, Actors, Requests,
        sessionVars, ConversationAssumption
  <2> QED
    BY <2>1, <2>2
<1>6. ASSUME NEW e \in Ends, EndPop(e) PROVE PipelineInv'
  <2>1. MediaDirKept'
    BY <1>6 DEF MediaDirKept, EndPop, Running, Goto, RequestsTypeOK, Actors, Requests,
        fileVars, ConversationAssumption
  <2>2. HistoryCurrent'
    BY <1>6 DEF HistoryCurrent, EndPop, Running, Goto, RequestsTypeOK, Actors, Requests,
        sessionVars, ConversationAssumption
  <2> QED
    BY <2>1, <2>2
<1>7. ASSUME NEW e \in Ends, EndClean(e) PROVE PipelineInv'
  <2>1. MediaDirKept'
    BY <1>7 DEF MediaDirKept, EndClean, Goto, RequestsTypeOK, Actors, Requests, fileVars,
        Serialised, Processing, Waiting, Pipeline, ConversationAssumption
  <2>2. HistoryCurrent'
    BY <1>7 DEF HistoryCurrent, EndClean, Goto, RequestsTypeOK, Actors, Requests,
        sessionVars, ConversationAssumption
  <2> QED
    BY <2>1, <2>2
<1>8. ASSUME NEW m \in Msgs, NEW s \in Sessions, PostMessage(m, s) PROVE PipelineInv'
  <2>1. MediaDirKept'
    BY <1>8 DEF MediaDirKept, PostMessage, Goto, RequestsTypeOK, Actors, Requests,
        fileVars
  <2>2. HistoryCurrent'
    BY <1>8 DEF HistoryCurrent, PostMessage, Goto, RequestsTypeOK, Actors, Requests,
        sessionVars
  <2> QED
    BY <2>1, <2>2
<1>9. ASSUME NEW m \in Msgs, SaveAudio(m) PROVE PipelineInv'
  <2>1. MediaDirKept'
    BY <1>9 DEF MediaDirKept, SaveAudio, Goto, RequestsTypeOK, Actors, Requests, fileVars
  <2>2. HistoryCurrent'
    BY <1>9 DEF HistoryCurrent, SaveAudio, Goto, RequestsTypeOK, Actors, Requests,
        sessionVars
  <2> QED
    BY <2>1, <2>2
<1>10. ASSUME NEW m \in Msgs, SaveAudioFails(m) PROVE PipelineInv'
  <2>1. MediaDirKept'
    BY <1>10 DEF MediaDirKept, SaveAudioFails, Goto, RequestsTypeOK, Actors, Requests,
        fileVars
  <2>2. HistoryCurrent'
    BY <1>10 DEF HistoryCurrent, SaveAudioFails, Goto, RequestsTypeOK, Actors, Requests,
        sessionVars
  <2> QED
    BY <2>1, <2>2
<1>11. ASSUME NEW m \in Msgs, Transcribed(m) PROVE PipelineInv'
  <2>1. MediaDirKept'
    BY <1>11 DEF MediaDirKept, Transcribed, Running, Goto, RequestsTypeOK,
        Actors, Requests, fileVars
  <2>2. HistoryCurrent'
    BY <1>11 DEF HistoryCurrent, Transcribed, Running, Goto, RequestsTypeOK,
        Actors, Requests, sessionVars
  <2> QED
    BY <2>1, <2>2
<1>12. ASSUME NEW m \in Msgs, CrisisFound(m) PROVE PipelineInv'
  <2>1. MediaDirKept'
    BY <1>12 DEF MediaDirKept, CrisisFound, Running, Goto, RequestsTypeOK,
        Actors, Requests, fileVars
  <2>2. HistoryCurrent'
    BY <1>12 DEF HistoryCurrent, CrisisFound, Running, Goto, RequestsTypeOK,
        Actors, Requests, sessionVars
  <2> QED
    BY <2>1, <2>2
<1>13. ASSUME NEW m \in Msgs, ModelFails(m) PROVE PipelineInv'
  <2>1. MediaDirKept'
    BY <1>13 DEF MediaDirKept, ModelFails, Running, LastEvent, Goto,
        RequestsTypeOK, Actors, Requests, fileVars
  <2>2. HistoryCurrent'
    BY <1>13 DEF HistoryCurrent, ModelFails, Running, LastEvent, Goto,
        RequestsTypeOK, Actors, Requests, sessionVars
  <2> QED
    BY <2>1, <2>2
<1>14. ASSUME NEW m \in Msgs, Crisis(m) PROVE PipelineInv'
  <2>1. MediaDirKept'
    BY <1>14 DEF MediaDirKept, Crisis, LastEvent, Goto, RequestsTypeOK, Actors, Requests,
        fileVars
  <2>2. HistoryCurrent'
    BY <1>14 DEF HistoryCurrent, Crisis, LastEvent, Goto, RequestsTypeOK,
        Actors, Requests, sessionVars
  <2> QED
    BY <2>1, <2>2
<1>15. ASSUME NEW m \in Msgs, Token(m) PROVE PipelineInv'
  <2>1. MediaDirKept'
    BY <1>15 DEF MediaDirKept, Token, RequestsTypeOK, Actors, Requests, fileVars
  <2>2. HistoryCurrent'
    BY <1>15 DEF HistoryCurrent, Token, RequestsTypeOK, Actors, Requests, sessionVars
  <2> QED
    BY <2>1, <2>2
<1>16. ASSUME NEW m \in Msgs, StreamEnds(m) PROVE PipelineInv'
  <2>1. MediaDirKept'
    BY <1>16 DEF MediaDirKept, StreamEnds, Goto, RequestsTypeOK, Actors, Requests,
        fileVars
  <2>2. HistoryCurrent'
    BY <1>16 DEF HistoryCurrent, StreamEnds, Goto, RequestsTypeOK, Actors, Requests,
        sessionVars
  <2> QED
    BY <2>1, <2>2
<1>17. ASSUME NEW m \in Msgs, Forbidden(m) PROVE PipelineInv'
  <2>1. MediaDirKept'
    BY <1>17 DEF MediaDirKept, Forbidden, Goto, RequestsTypeOK, Actors, Requests,
        fileVars
  <2>2. HistoryCurrent'
    BY <1>17 DEF HistoryCurrent, Forbidden, Goto, RequestsTypeOK, Actors, Requests,
        sessionVars
  <2> QED
    BY <2>1, <2>2
<1>18. ASSUME NEW m \in Msgs, Masked(m) PROVE PipelineInv'
  <2>1. MediaDirKept'
    BY <1>18 DEF MediaDirKept, Masked, Goto, RequestsTypeOK, Actors, Requests, fileVars
  <2>2. HistoryCurrent'
    BY <1>18 DEF HistoryCurrent, Masked, Goto, RequestsTypeOK, Actors, Requests,
        sessionVars
  <2> QED
    BY <2>1, <2>2
<1>19. ASSUME NEW m \in Msgs, StartMedia(m) PROVE PipelineInv'
  <2>1. MediaDirKept'
    BY <1>19 DEF MediaDirKept, StartMedia, Goto, RequestsTypeOK, Actors, Requests
  <2>2. \A k \in Msgs : k # m /\ stage[k] \in {"streaming", "masking", "text_done"}
          => target[k] # target[m]
    BY <1>19 DEF StartMedia, Serialised, Processing, Pipeline
  <2>3. \A s \in Sessions : s # target[m] => history'[s] = history[s]
    BY <1>19 DEF StartMedia, Record, SessionsTypeOK
  <2>4. HistoryCurrent'
    BY <1>19, <2>2, <2>3 DEF HistoryCurrent, StartMedia, Goto, RequestsTypeOK,
        Actors, Requests
  <2> QED
    BY <2>1, <2>4
<1>20. ASSUME NEW m \in Msgs, StartMediaFails(m) PROVE PipelineInv'
  <2>1. MediaDirKept'
    BY <1>20 DEF MediaDirKept, StartMediaFails, LastEvent, Goto, Send,
        RequestsTypeOK, Actors, Requests
  <2>2. \A k \in Msgs : k # m /\ stage[k] \in {"streaming", "masking", "text_done"}
          => target[k] # target[m]
    BY <1>20 DEF StartMediaFails, Serialised, Processing, Pipeline
  <2>3. \A s \in Sessions : s # target[m] => history'[s] = history[s]
    BY <1>20 DEF StartMediaFails, Record, SessionsTypeOK
  <2>4. HistoryCurrent'
    BY <1>20, <2>2, <2>3 DEF HistoryCurrent, StartMediaFails, LastEvent, Goto,
        Send, RequestsTypeOK, Actors, Requests
  <2> QED
    BY <2>1, <2>4
<1>21. ASSUME NEW m \in Msgs, Synthesized(m) PROVE PipelineInv'
  <2>1. MediaDirKept'
    BY <1>21 DEF MediaDirKept, Synthesized, Running, Goto, RequestsTypeOK,
        Actors, Requests, fileVars
  <2>2. HistoryCurrent'
    BY <1>21 DEF HistoryCurrent, Synthesized, Running, Goto, RequestsTypeOK,
        Actors, Requests, sessionVars
  <2> QED
    BY <2>1, <2>2
<1>22. ASSUME NEW m \in Msgs, Rendered(m) PROVE PipelineInv'
  <2>1. MediaDirKept'
    BY <1>22 DEF MediaDirKept, Rendered, Running, LastEvent, Goto,
        RequestsTypeOK, Actors, Requests, fileVars
  <2>2. HistoryCurrent'
    BY <1>22 DEF HistoryCurrent, Rendered, Running, LastEvent, Goto,
        RequestsTypeOK, Actors, Requests, sessionVars
  <2> QED
    BY <2>1, <2>2
<1>23. ASSUME NEW m \in Msgs, MediaFails(m) PROVE PipelineInv'
  <2>1. MediaDirKept'
    BY <1>23 DEF MediaDirKept, MediaFails, Running, LastEvent, Goto,
        RequestsTypeOK, Actors, Requests, fileVars
  <2>2. HistoryCurrent'
    BY <1>23 DEF HistoryCurrent, MediaFails, Running, LastEvent, Goto,
        RequestsTypeOK, Actors, Requests, sessionVars
  <2> QED
    BY <2>1, <2>2
<1>24. ASSUME NEW m \in Msgs, Close(m) PROVE PipelineInv'
  <2>1. MediaDirKept'
    BY <1>24 DEF MediaDirKept, Close, Finish, Goto, RequestsTypeOK, Actors, Requests,
        fileVars
  <2>2. HistoryCurrent'
    BY <1>24 DEF HistoryCurrent, Close, Finish, Goto, RequestsTypeOK, Actors, Requests,
        sessionVars
  <2> QED
    BY <2>1, <2>2
<1>25. ASSUME NEW m \in Msgs, Disconnect(m) PROVE PipelineInv'
  <2>1. MediaDirKept'
    BY <1>25 DEF MediaDirKept, Disconnect, Finish, Goto, Running,
        RequestsTypeOK, Actors, Requests, fileVars
  <2>2. HistoryCurrent'
    BY <1>25 DEF HistoryCurrent, Disconnect, Finish, Goto, Running,
        RequestsTypeOK, Actors, Requests, sessionVars
  <2> QED
    BY <2>1, <2>2
<1>26. ASSUME NEW a \in Actors, Granted(a) PROVE PipelineInv'
  <2> QED
    BY <1>26 DEF Granted, MediaDirKept, HistoryCurrent, sessionVars
<1>27. ASSUME NEW m \in Msgs, NEW k \in Models, StrayEnds(m, k) PROVE PipelineInv'
  <2> QED
    BY <1>27 DEF StrayEnds, MediaDirKept, HistoryCurrent, sessionVars, fileVars
<1>28. ASSUME Restart PROVE PipelineInv'
  <2>1. MediaDirKept'
    BY <1>28 DEF MediaDirKept, Restart, RequestsTypeOK, Actors, Requests, fileVars
  <2>2. HistoryCurrent'
    BY <1>28 DEF HistoryCurrent, Restart, RequestsTypeOK, Actors, Requests, sessionVars
  <2> QED
    BY <2>1, <2>2
<1>29. ASSUME NEW r \in Runs, NEW k \in {GPU, DITTO}, RunAsks(r, k) PROVE PipelineInv'
  BY <1>29 DEF RunAsks, MediaDirKept, HistoryCurrent, sessionVars, fileVars
<1>30. ASSUME NEW r \in Runs, RunLeaves(r) PROVE PipelineInv'
  BY <1>30 DEF RunLeaves, MediaDirKept, HistoryCurrent, sessionVars, fileVars
<1>31. ASSUME UNCHANGED vars PROVE PipelineInv'
  BY <1>31 DEF vars, sessionVars, fileVars, MediaDirKept, HistoryCurrent
<1> QED
  BY <1>1, <1>2, <1>3, <1>4, <1>5, <1>6, <1>7, <1>8, <1>9, <1>10, <1>11, <1>12,
      <1>13, <1>14, <1>15, <1>16, <1>17, <1>18, <1>19, <1>20, <1>21, <1>22,
      <1>23, <1>24, <1>25, <1>26, <1>27, <1>28, <1>29, <1>30, <1>31 DEF Next, MessageStep,
      EndStep, Quiet
-----------------------------------------------------------------------------
(* The inductive invariant of the module. *)
IInv == Counted /\ LockInv /\ PipelineInv

(* The inductive invariant holds in the beginning. *)
LEMMA IInvInit == ConversationAssumption /\ Init => IInv
<1> SUFFICES ASSUME ConversationAssumption, Init PROVE IInv
  OBVIOUS
<1>1. PipelineInv
  BY DEF Init, PipelineInv, MediaDirKept, HistoryCurrent, Actors, Requests
<1> QED
  BY <1>1, CountedInit, LockInit DEF IInv

(* Every step keeps it. *)
LEMMA IInvStep == ConversationAssumption /\ IInv /\ [Next]_vars => IInv'
BY CountedStep, LockStep, PipelineStep DEF IInv, Counted

(* So it always holds. *)
LEMMA Invariance == Spec => []IInv
<1>1. Init => IInv
  BY ConversationAssumption, IInvInit
<1>2. IInv /\ [Next]_vars => IInv'
  BY ConversationAssumption, IInvStep
<1> QED
  BY <1>1, <1>2, PTL DEF Spec

(* Every variable keeps to its type; in particular _active_messages never   *)
(* becomes negative.                                                        *)
THEOREM TypeCorrect == Spec => []TypeOK
BY Invariance, PTL DEF IInv, Counted

(* _active_messages counts exactly the messages in flight and never exceeds *)
(* the limit, whatever fails or disconnects, and across restarts.           *)
THEOREM SlotsAlwaysExact == Spec => []SlotsExact
BY Invariance, PTL DEF IInv, Counted

(* One message per session, one synthesis and one rendering hold their lock *)
(* at a time, and /end works under the lock of its session.                 *)
THEOREM AlwaysSerialised == Spec => []Serialised
BY Invariance, PTL DEF IInv, LockInv

(* No permit and no place in a queue outlives the block it belongs to.      *)
THEOREM NeverLeaked == Spec => []NoPermitLeaked
BY Invariance, PTL DEF IInv, LockInv

(* No /end removes the speak directory of a message that is being rendered. *)
THEOREM DirAlwaysKept == Spec => []MediaDirKept
BY Invariance, PTL DEF IInv, PipelineInv

(* The history a reply was generated from is the history it is appended to. *)
THEOREM HistoryAlwaysCurrent == Spec => []HistoryCurrent
BY Invariance, PTL DEF IInv, PipelineInv
=============================================================================
