--------------------------- MODULE Service_proofs ---------------------------
(* Theorems about Service. *)
EXTENDS Service, Persona_proofs

(* A step of the service is, for the persona, one of its own or none. *)
LEMMA StepOfPersona == [ServiceNext]_serviceVars => [Next]_vars
<1> SUFFICES ASSUME [ServiceNext]_serviceVars PROVE [Next]_vars
  OBVIOUS
<1>1. CASE PersonaStep
  BY <1>1 DEF PersonaStep, Next
<1>2. ASSUME NEW r \in Starts, RunContinues(r) PROVE [Next]_vars
  BY <1>2 DEF RunContinues, Next
<1>3. ASSUME NEW d \in Deletes, DeleteBegins(d) \/ RemoveSpeak(d) \/ DeleteContinues(d)
      PROVE  [Next]_vars
  BY <1>3 DEF DeleteBegins, RemoveSpeak, DeleteContinues, DeleteStep, Next
<1>4. ASSUME NEW s \in Sessions, StartReads(s) \/ StartCreates(s) PROVE [Next]_vars
  BY <1>4 DEF StartReads, StartCreates
<1>5. ASSUME NEW m \in Msgs, MessageStep(m) PROVE [Next]_vars
  BY <1>5 DEF MessageStep
<1>6. ASSUME NEW e \in Ends, EndStep(e) PROVE [Next]_vars
  BY <1>6 DEF EndStep
<1>7. CASE SessionStep
  BY <1>7 DEF SessionStep
<1>8. ASSUME NEW a \in C!Actors, LockGranted(a) PROVE [Next]_vars
  BY <1>8 DEF LockGranted
<1>9. CASE ServiceRestart
  BY <1>9 DEF ServiceRestart, Next
<1>10. CASE ServiceQuiet
  BY <1>10 DEF ServiceQuiet, Quiet
<1>11. CASE UNCHANGED serviceVars
  BY <1>11 DEF serviceVars
<1> QED
  BY <1>1, <1>2, <1>3, <1>4, <1>5, <1>6, <1>7, <1>8, <1>9, <1>10, <1>11 DEF ServiceNext

(* The service implements the life of a persona that Persona specifies:      *)
(* neither the sessions nor the shared semaphores let a run, an upload or a  *)
(* DELETE do anything they could not do alone.                               *)
THEOREM ServiceImplementsPersona == ServiceSpec => Spec
<1>1. ServiceInit => Init
  BY DEF ServiceInit
<1> QED
  BY <1>1, StepOfPersona, PTL DEF ServiceSpec, Spec
-----------------------------------------------------------------------------
(* The sessions that exist or are about to come of a READY row. *)
Granting == asked \cup C!Store

GrantInv ==
    /\ life \in [Sessions -> C!Lives]
    /\ Granting # {} /\ Undisturbed => Made

(* What a session or a message does to the lives of the sessions. *)
LEMMA Lives ==
    ASSUME life \in [Sessions -> C!Lives], [ServiceNext]_serviceVars
    PROVE  /\ life' \in [Sessions -> C!Lives]
           /\ Granting' \subseteq Granting \/ row = "READY"
<1> USE DEF C!Lives, C!Store, Granting
<1>1. ASSUME NEW s \in Sessions, StartReads(s)
      PROVE  life' = life /\ row = "READY"
  BY <1>1 DEF StartReads, conversationVars
<1>2. ASSUME NEW s \in Sessions, StartCreates(s)
      PROVE  life' \in [Sessions -> C!Lives] /\ Granting' \subseteq Granting
  BY <1>2 DEF StartCreates, C!StartSession
<1>3. ASSUME NEW m \in Msgs, MessageStep(m) PROVE life' = life /\ asked' = asked
  BY <1>3 DEF MessageStep, C!MessageStep, C!SaveAudio, C!SaveAudioFails, C!Transcribed,
      C!CrisisFound, C!Crisis, C!ModelFails, C!Token, C!StreamEnds, C!Forbidden, C!Masked,
      C!StartMedia, C!StartMediaFails, C!Record, C!Synthesized, C!Rendered, C!MediaFails,
      C!Close, C!sessionVars
<1>4. ASSUME NEW e \in Ends, EndStep(e)
      PROVE  life' \in [Sessions -> C!Lives] /\ Granting' \subseteq Granting
  BY <1>4 DEF EndStep, C!EndStep, C!EndPop, C!EndClean, C!sessionVars
<1>5. ASSUME SessionStep
      PROVE  life' \in [Sessions -> C!Lives] /\ Granting' \subseteq Granting
  <2>1. ASSUME NEW s \in Sessions, C!GoStale(s) PROVE life' = life
    BY <2>1 DEF C!GoStale
  <2>2. CASE C!Sweep
    BY <1>5, <2>2 DEF SessionStep, C!Sweep
  <2>3. ASSUME NEW e \in Ends, NEW s \in Sessions, C!EndSession(e, s) \/ C!EndSessionWaits(e, s)
        PROVE  life' \in [Sessions -> C!Lives] /\ C!Store' \subseteq C!Store
    BY <2>3 DEF C!EndSession, C!EndSessionWaits, C!sessionVars
  <2>4. ASSUME NEW m \in Msgs, NEW s \in Sessions, C!PostMessage(m, s) PROVE life' = life
    BY <2>4 DEF C!PostMessage, C!sessionVars
  <2>5. ASSUME NEW m \in Msgs, C!Disconnect(m) PROVE life' = life
    BY <2>5 DEF C!Disconnect, C!sessionVars
  <2>6. ASSUME NEW m \in Msgs, NEW k \in C!Models, C!StrayEnds(m, k) PROVE life' = life
    BY <2>6 DEF C!StrayEnds, C!sessionVars
  <2>7. asked' = asked
    BY <1>5 DEF SessionStep
  <2> QED
    BY <1>5, <2>1, <2>2, <2>3, <2>4, <2>5, <2>6, <2>7 DEF SessionStep
<1>6. ASSUME NEW r \in Starts, RunContinues(r) PROVE life' = life /\ asked' = asked
  BY <1>6 DEF RunContinues, RunLocks, C!RunAsks, C!RunLeaves, C!sessionVars, conversationVars
<1>7. ASSUME NEW d \in Deletes, DeleteBegins(d) \/ RemoveSpeak(d) \/ DeleteContinues(d)
      PROVE  life' = life /\ asked' = asked
  BY <1>7 DEF DeleteBegins, RemoveSpeak, DeleteContinues, conversationVars
<1>8. ASSUME NEW a \in C!Actors, LockGranted(a) PROVE life' = life /\ asked' = asked
  BY <1>8 DEF LockGranted, C!Granted, C!sessionVars
<1>9. CASE ServiceRestart
  BY <1>9 DEF ServiceRestart, C!Restart
<1>10. CASE PersonaStep \/ ServiceQuiet \/ UNCHANGED serviceVars
  BY <1>10 DEF PersonaStep, ServiceQuiet, C!Quiet, C!vars, C!sessionVars, serviceVars,
      conversationVars
<1> QED
  BY <1>1, <1>2, <1>3, <1>4, <1>5, <1>6, <1>7, <1>8, <1>9, <1>10 DEF ServiceNext

(* A session that was granted on a READY row can be held until a DELETE      *)
(* comes, whatever other runs, uploads, sessions, messages and restarts do:  *)
(* a READY persona is made, what is made stays made, and only a READY row    *)
(* grants a session.                                                        *)
THEOREM SessionsAlwaysUsable == ServiceSpec => []SessionsUsable
<1> DEFINE Inv == TypeOK /\ MakingInv /\ GrantInv
<1>1. ServiceInit => Inv
  <2> SUFFICES ASSUME ServiceInit PROVE Inv
    OBVIOUS
  <2>1. life = [s \in Sessions |-> "unborn"] /\ Granting = {}
    BY DEF ServiceInit, C!Init, Granting, C!Store
  <2> QED
    BY <2>1, TypeInit, MakingInit, PersonaAssumption DEF ServiceInit, GrantInv, C!Lives
<1>2. Inv /\ [ServiceNext]_serviceVars => Inv'
  <2> SUFFICES ASSUME Inv, [ServiceNext]_serviceVars PROVE Inv'
    OBVIOUS
  <2>1. [Next]_vars /\ TypeOK' /\ MakingInv'
    BY StepOfPersona, TypeStep, MakingStep, PersonaAssumption
  <2>2. life' \in [Sessions -> C!Lives] /\ (Granting' \subseteq Granting \/ row = "READY")
    BY Lives DEF GrantInv
  <2>3. ASSUME Granting' # {}, Undisturbed' PROVE Made'
    <3>1. Undisturbed
      BY <2>1, <2>3, DeletesLast, PersonaAssumption
    <3>2. Made
      BY <2>2, <2>3, <3>1 DEF GrantInv, MakingInv
    <3> QED
      BY <2>1, <2>3, <3>2, MadeStays, PersonaAssumption
  <2>4. C!Lives' = C!Lives
    BY DEF C!Lives
  <2> QED
    BY <2>1, <2>2, <2>3, <2>4 DEF GrantInv
<1>3. Inv => SessionsUsable
  BY DEF GrantInv, Granting, SessionsUsable, Undisturbed, Made, VoiceRef
<1> QED
  BY <1>1, <1>2, <1>3, PTL DEF ServiceSpec
-----------------------------------------------------------------------------
(* The conversations in the service.  What is proved of Conversation is       *)
(* proved of the instance of it that the service is made of; the lemmas are   *)
(* cited from an instance of the modules that prove them, and the two         *)
(* instances are the same machine.                                           *)
CP == INSTANCE Delivery_proofs WITH stage <- talk, Runs <- Starts

(* What the requests of the conversations and the sweeper do.                *)
ConversationRequests ==
    \/ C!Sweep
    \/ \E s \in Sessions : C!GoStale(s)
    \/ \E e \in Ends : C!EndStep(e)
    \/ \E e \in Ends, s \in Sessions : C!EndSession(e, s) \/ C!EndSessionWaits(e, s)
    \/ \E m \in Msgs : C!MessageStep(m) \/ C!Disconnect(m)
    \/ \E m \in Msgs, s \in Sessions : C!PostMessage(m, s)
    \/ \E m \in Msgs, k \in C!Models : C!StrayEnds(m, k)

(* Both instances define the same steps and the same parts of the state.     *)
LEMMA SameMachine ==
    /\ C!ConversationAssumption => CP!ConversationAssumption
    /\ C!Init => CP!Init
    /\ C!Next => CP!Next
    /\ UNCHANGED C!vars => UNCHANGED CP!vars
    /\ ConversationRequests => CP!OfRequests
<1> USE DEF C!Requests, CP!Requests, C!Actors, CP!Actors, C!Resources, CP!Resources,
            C!sessionVars, CP!sessionVars, C!locks, CP!locks, C!fileVars,
            CP!fileVars
<1>1. C!ConversationAssumption => CP!ConversationAssumption
  BY Zenon DEF C!ConversationAssumption, CP!ConversationAssumption, C!IsFiniteSet,
      CP!IsFiniteSet
<1>2. C!Init => CP!Init
  BY Zenon DEF C!Init, C!LocksInit, CP!Init, CP!LocksInit
<1>3. UNCHANGED C!vars => UNCHANGED CP!vars
  BY Zenon DEF C!vars, CP!vars
<1> USE DEF C!GoStale, CP!GoStale, C!Sweep, CP!Sweep, C!EndStep, CP!EndStep,
            C!EndSession, CP!EndSession, C!EndSessionWaits, CP!EndSessionWaits,
            C!MessageStep, CP!MessageStep, C!Disconnect, CP!Disconnect,
            C!PostMessage, CP!PostMessage, C!Models, CP!Models, C!StrayEnds,
            CP!StrayEnds, C!Store, CP!Store, C!EndPop, CP!EndPop, C!EndClean,
            CP!EndClean, C!Free, CP!Free, C!Goto, CP!Goto, C!Acquire, CP!Acquire,
            C!SaveAudio, CP!SaveAudio, C!SaveAudioFails, CP!SaveAudioFails,
            C!Transcribed, CP!Transcribed, C!CrisisFound, CP!CrisisFound, C!Crisis,
            CP!Crisis, C!ModelFails, CP!ModelFails, C!Token, CP!Token, C!StreamEnds,
            CP!StreamEnds, C!Forbidden, CP!Forbidden, C!Masked, CP!Masked,
            C!StartMedia, CP!StartMedia, C!StartMediaFails, CP!StartMediaFails,
            C!Synthesized, CP!Synthesized, C!Rendered, CP!Rendered, C!MediaFails,
            CP!MediaFails, C!Close, CP!Close, C!Pipeline, CP!Pipeline, C!Finish,
            CP!Finish, C!Underway, CP!Underway, C!Running, CP!Running, C!Leave,
            CP!Leave, C!Waiting, CP!Waiting, C!HandOver, CP!HandOver, C!Waiters,
            CP!Waiters, C!LogSafety, CP!LogSafety, C!LastEvent, CP!LastEvent,
            C!WasSent, CP!WasSent, C!Send, CP!Send, C!Record, CP!Record, C!Release,
            CP!Release, C!Obtainable, CP!Obtainable
<1>4. C!Next => CP!Next
  BY Zenon DEF C!Next, CP!Next, C!StartSession, CP!StartSession, C!Granted,
               CP!Granted, C!Wake, CP!Wake, C!Made, CP!Made, C!RunAsks, CP!RunAsks,
               C!RunLeaves, CP!RunLeaves, C!Held, CP!Held, C!Restart, CP!Restart,
               C!Quiet, CP!Quiet, C!vars, CP!vars
<1>5. ConversationRequests => CP!OfRequests
  BY Zenon DEF ConversationRequests, CP!OfRequests
<1> QED
  BY Zenon, <1>1, <1>2, <1>3, <1>4, <1>5

(* And they have the same properties. *)
LEMMA SameProperties ==
    /\ C!TypeOK <=> CP!TypeOK
    /\ C!SlotsExact <=> CP!SlotsExact
    /\ C!Serialised <=> CP!Serialised
    /\ C!NoPermitLeaked <=> CP!NoPermitLeaked
    /\ C!QueuesOrdered <=> CP!QueuesOrdered
    /\ C!NoDeadlock <=> CP!NoDeadlock
BY Zenon DEF C!TypeOK, C!SlotsExact, C!Serialised, C!NoPermitLeaked, C!QueuesOrdered,
       C!NoDeadlock, C!SessionsTypeOK, C!RequestsTypeOK, C!LocksTypeOK,
       C!FilesTypeOK, C!Slots, C!Processing, C!Running, C!Requests, C!Pipeline,
       C!Waiting, C!Actors, C!Resources, C!Waiters, C!Occupies, C!Unblocked,
       C!Lives, C!MsgStages, C!EndStages, C!Events, C!Models, C!InFlight, CP!TypeOK,
       CP!SlotsExact, CP!Serialised, CP!NoPermitLeaked, CP!QueuesOrdered,
       CP!NoDeadlock, CP!SessionsTypeOK, CP!RequestsTypeOK, CP!LocksTypeOK,
       CP!FilesTypeOK, CP!Slots, CP!Processing, CP!Running, CP!Requests,
       CP!Pipeline, CP!Waiting, CP!Actors, CP!Resources, CP!Waiters, CP!Occupies,
       CP!Unblocked, CP!Lives, CP!MsgStages, CP!EndStages, CP!Events, CP!Models,
       CP!InFlight,
       C!Cardinality, CP!Cardinality

(* And the same locks. *)
LEMMA SameLocks ==
    /\ C!Actors = CP!Actors /\ C!Resources = CP!Resources
    /\ \A a : C!Held(a) = CP!Held(a) /\ C!Held(a)' = CP!Held(a)'
BY Zenon DEF C!Actors, C!Requests, C!Resources, C!Held,
       CP!Actors, CP!Requests, CP!Resources, CP!Held

(* rmtree of the persona removes speak/ under the sessions.                  *)
SpeakGone ==
    /\ speakDir' = {} /\ wav' = {} /\ mp4' = {}
    /\ UNCHANGED <<life, stale, history, talk, target, seen, sent, active, owner, wants,
                   ahead, safetyLog, stray>>

(* The blocks a stage of a run is in. *)
LEMMA GuardingIs ==
    \A st \in StartStages :
        /\ st = "transcribing" => Guarding[st] = {GPU}
        /\ st \in {"rendering", "muxing"} => Guarding[st] = {DITTO}
        /\ st \notin {"transcribing", "rendering", "muxing"} => Guarding[st] = {}
BY DEF Guarding

(* A step of the service is, for the conversations, one of their own, none,  *)
(* or the removal of speak/.                                                *)
LEMMA StepOfConversation ==
    ASSUME PersonaAssumption, TypeOK, [ServiceNext]_serviceVars
    PROVE  [C!Next]_(C!vars) \/ SpeakGone
<1>u. ASSUME UNCHANGED conversationVars PROVE UNCHANGED C!vars
  BY <1>u DEF conversationVars, C!vars, C!sessionVars, C!locks, C!fileVars
<1>1. CASE PersonaStep
  BY <1>1, <1>u DEF PersonaStep
<1>2. ASSUME NEW r \in Starts, RunContinues(r) PROVE [C!Next]_(C!vars)
  <2>1. PICK st \in StartStages : stage' = [stage EXCEPT ![r] = st]
    BY <1>2, RunMoves DEF RunContinues, StartStages
  <2>2. stage'[r] \in StartStages
    BY <2>1 DEF TypeOK, RequestsTypeOK, Actors
  <2>3. CASE UNCHANGED conversationVars
    BY <1>u, <2>3
  <2>4. CASE C!RunLeaves(r)
    BY <2>4 DEF C!Next
  <2>5. ASSUME NEW x \in Guarding[stage'[r]], C!RunAsks(r, x) PROVE C!Next
    <3>1. x \in {GPU, DITTO}
      BY <2>2, GuardingIs
    <3> QED
      BY <2>5, <3>1 DEF C!Next
  <2> QED
    BY <1>2, <2>3, <2>4, <2>5 DEF RunContinues, RunLocks
<1>3. ASSUME NEW d \in Deletes, DeleteBegins(d) \/ DeleteContinues(d)
      PROVE  UNCHANGED C!vars
  BY <1>3, <1>u DEF DeleteBegins, DeleteContinues
<1>4. ASSUME NEW d \in Deletes, RemoveSpeak(d) PROVE SpeakGone
  BY <1>4 DEF RemoveSpeak, SpeakGone
<1>5. ASSUME NEW s \in Sessions, StartReads(s) \/ StartCreates(s) PROVE [C!Next]_(C!vars)
  BY <1>5, <1>u DEF StartReads, StartCreates, C!Next
<1>6. ASSUME NEW m \in Msgs, MessageStep(m) PROVE C!Next
  BY <1>6 DEF MessageStep, C!Next
<1>7. ASSUME NEW e \in Ends, EndStep(e) PROVE C!Next
  BY <1>7 DEF EndStep, C!Next
<1>8. CASE SessionStep
  BY <1>8 DEF SessionStep, C!Next
<1>9. ASSUME NEW a \in C!Actors, LockGranted(a) PROVE C!Next
  BY <1>9 DEF LockGranted, C!Next
<1>10. CASE ServiceRestart
  BY <1>10 DEF ServiceRestart, C!Next
<1>11. CASE ServiceQuiet
  BY <1>11 DEF ServiceQuiet, C!Next
<1>12. CASE UNCHANGED serviceVars
  BY <1>12, <1>u DEF serviceVars
<1> QED
  BY <1>1, <1>2, <1>3, <1>4, <1>5, <1>6, <1>7, <1>8, <1>9, <1>10, <1>11, <1>12
     DEF ServiceNext

(* What Conversation's locks and slots rest on, in the service. *)
LocksSound == CP!Counted /\ CP!LockInv /\ CP!QueueInv

(* The sessions, the runs and the DELETE together keep it. *)
LEMMA SoundStep ==
    ASSUME TypeOK, LocksSound, [ServiceNext]_serviceVars
    PROVE  LocksSound'
<1>1. CASE [C!Next]_(C!vars)
  <2>1. CP!ConversationAssumption /\ [CP!Next]_(CP!vars)
    BY <1>1, ServiceAssumption, SameMachine
  <2>2. CP!TypeOK /\ CP!NoPermitLeaked
    BY DEF LocksSound, CP!Counted, CP!LockInv
  <2> QED
    BY <2>1, <2>2, CP!CountedStep, CP!LockStep, CP!QueueStep DEF LocksSound
<1>2. CASE SpeakGone
  <2>1. CP!Counted'
    <3>1. CP!SessionsTypeOK' /\ CP!RequestsTypeOK' /\ CP!LocksTypeOK' /\ active' \in Nat
      BY <1>2 DEF SpeakGone, LocksSound, CP!Counted, CP!TypeOK, CP!SessionsTypeOK,
          CP!RequestsTypeOK, CP!LocksTypeOK
    <3>2. CP!FilesTypeOK'
      BY <1>2 DEF SpeakGone, LocksSound, CP!Counted, CP!TypeOK, CP!FilesTypeOK
    <3>3. CP!SlotsExact'
      BY <1>2 DEF SpeakGone, LocksSound, CP!Counted, CP!SlotsExact, CP!Slots, CP!InFlight
    <3> QED
      BY <3>1, <3>2, <3>3 DEF CP!Counted, CP!TypeOK
  <2>2. CP!LockInv'
    BY <1>2 DEF SpeakGone, LocksSound, CP!LockInv, CP!Serialised, CP!NoPermitLeaked,
        CP!Processing, CP!Running, CP!Waiting
  <2>3. CP!QueueInv'
    BY <1>2 DEF SpeakGone, LocksSound, CP!QueueInv, CP!QueuesOrdered, CP!Queued, CP!Waiting
  <2> QED
    BY <2>1, <2>2, <2>3 DEF LocksSound
<1> QED
  BY <1>1, <1>2, StepOfConversation, PersonaAssumption

(* Nothing is held, counted or queued for in the beginning. *)
LEMMA SoundInit == ServiceInit => LocksSound
<1> SUFFICES ASSUME ServiceInit PROVE LocksSound
  OBVIOUS
<1>1. CP!ConversationAssumption /\ CP!Init
  BY ServiceAssumption, SameMachine DEF ServiceInit
<1> QED
  BY <1>1, CP!CountedInit, CP!LockInit, CP!QueueInit DEF LocksSound

(* So it always holds, beside the persona's types. *)
LEMMA SoundAlways == ServiceSpec => [](TypeOK /\ LocksSound)
<1>1. ServiceInit => TypeOK /\ LocksSound
  BY TypeInit, SoundInit, PersonaAssumption DEF ServiceInit
<1>2. TypeOK /\ LocksSound /\ [ServiceNext]_serviceVars => TypeOK' /\ LocksSound'
  BY StepOfPersona, TypeStep, SoundStep, PersonaAssumption
<1> QED
  BY <1>1, <1>2, PTL DEF ServiceSpec

(* Every variable of the service has its type. *)
THEOREM ServiceTypeCorrect == ServiceSpec => []ServiceTypeOK
<1> DEFINE Inv == /\ TypeOK /\ LocksSound
                  /\ asked \subseteq Sessions /\ speakLeft \subseteq Deletes
<1>1. ServiceInit => Inv
  BY TypeInit, SoundInit, PersonaAssumption DEF ServiceInit
<1>2. Inv /\ [ServiceNext]_serviceVars => Inv'
  <2> SUFFICES ASSUME Inv, [ServiceNext]_serviceVars PROVE Inv'
    OBVIOUS
  <2>1. TypeOK' /\ LocksSound'
    BY StepOfPersona, TypeStep, SoundStep, PersonaAssumption
  <2>2. asked' \subseteq Sessions /\ speakLeft' \subseteq Deletes
    BY DEF ServiceNext, PersonaStep, RunContinues, DeleteBegins, RemoveSpeak, DeleteContinues,
        StartReads, StartCreates, MessageStep, EndStep, SessionStep, LockGranted,
        ServiceRestart, ServiceQuiet, serviceVars
  <2> QED
    BY <2>1, <2>2
<1>3. Inv => ServiceTypeOK
  BY SameProperties DEF ServiceTypeOK, LocksSound, CP!Counted
<1> QED
  BY <1>1, <1>2, <1>3, PTL DEF ServiceSpec

(* The slots and the locks of the conversations are sound with the real runs *)
(* at the semaphores and a DELETE at the speak directories: the messages in  *)
(* flight are counted exactly, one message per session and one user of each  *)
(* semaphore works at a time, nothing is held outside its block, the queues  *)
(* are orderly and nobody waits for ever on somebody who waits.              *)
THEOREM ServiceLocksSound ==
    ServiceSpec => [](/\ C!SlotsExact /\ C!Serialised /\ C!NoPermitLeaked
                      /\ C!QueuesOrdered /\ C!NoDeadlock)
<1>1. LocksSound => /\ C!SlotsExact /\ C!Serialised /\ C!NoPermitLeaked
                    /\ C!QueuesOrdered /\ C!NoDeadlock
  <2> SUFFICES ASSUME LocksSound
               PROVE  /\ CP!SlotsExact /\ CP!Serialised /\ CP!NoPermitLeaked
                      /\ CP!QueuesOrdered /\ CP!NoDeadlock
    BY SameProperties
  <2>1. CP!ConversationAssumption
    BY ServiceAssumption, SameMachine
  <2>2. CP!TypeOK /\ CP!SlotsExact /\ CP!Serialised /\ CP!NoPermitLeaked /\ CP!QueuesOrdered
    BY DEF LocksSound, CP!Counted, CP!LockInv, CP!QueueInv
  <2> QED
    BY <2>1, <2>2, CP!NobodyStuck DEF LocksSound
<1> QED
  BY <1>1, SoundAlways, PTL
-----------------------------------------------------------------------------
(* What a run holds.  While it waits it holds nothing and is queued for the   *)
(* block it is about to enter; else it holds the permit of the block it is in. *)
HoldInv ==
    \A r \in Starts : IF C!Waiting(r)
                        THEN C!Held(r) = {} /\ Guarding[stage[r]] = {wants[r]}
                        ELSE C!Held(r) = Guarding[stage[r]]

(* A step that moves no run into or out of a block. *)
LEMMA HoldUntouched ==
    ASSUME HoldInv,
           \A r \in Starts : Guarding[stage'[r]] = Guarding[stage[r]],
           \A r \in Starts : C!Held(r)' = C!Held(r) /\ wants'[r] = wants[r]
    PROVE  HoldInv'
BY DEF HoldInv, Guarding, C!Waiting

(* The locks stay as they are. *)
LEMMA LocksUntouched ==
    ASSUME UNCHANGED owner, NEW r
    PROVE  C!Held(r)' = C!Held(r)
BY DEF C!Held, C!Resources

(* A step of a run takes it from one block to the next.                      *)
LEMMA HoldOfRun ==
    ASSUME TypeOK, LocksSound, HoldInv, NEW r \in Starts, RunContinues(r)
    PROVE  HoldInv'
<1>1. PICK st \in StartStages : stage' = [stage EXCEPT ![r] = st]
  BY RunMoves DEF RunContinues, StartStages
<1>2. stage'[r] = st /\ \A q \in Starts \ {r} : stage'[q] = stage[q]
  BY <1>1 DEF TypeOK, RequestsTypeOK, Actors
<1>3. /\ CP!ConversationAssumption /\ CP!LocksTypeOK /\ Starts \subseteq CP!Actors
      /\ Nobody \notin Starts /\ wants[r] = Nothing
      /\ Nothing \notin {GPU, DITTO} /\ {GPU, DITTO} \subseteq CP!Resources
      /\ C!Held(r) = Guarding[stage[r]]
  BY ServiceAssumption, SameMachine
     DEF LocksSound, CP!Counted, CP!TypeOK, CP!Actors, CP!Resources, C!ConversationAssumption,
         RunContinues, C!Waiting, HoldInv
<1>4. ASSUME \A q \in Starts \ {r} : C!Held(q)' = C!Held(q) /\ wants'[q] = wants[q],
             IF wants'[r] # Nothing
               THEN C!Held(r)' = {} /\ Guarding[st] = {wants'[r]}
               ELSE C!Held(r)' = Guarding[st]
      PROVE  HoldInv'
  BY <1>2, <1>4 DEF HoldInv, Guarding, C!Waiting
<1>5. CASE st = "muxing"
  <2>1. UNCHANGED conversationVars /\ stage[r] = "rendering"
    <3>1. RunStep(r) /\ stage'[r] = "muxing"
      BY <1>2, <1>5 DEF RunContinues
    <3>2. ClipOpened(r)
      <4>1. CASE Started(r) \/ Transcribed(r) \/ Rendered(r)
        BY <4>1, <3>1 DEF Started, Transcribed, Rendered, TranscribeOrSkip, RenderIdle,
            RenderFrom, Suspend, Goto, TypeOK, RequestsTypeOK, Actors
      <4>2. CASE \/ StartFails(r) \/ AudioOpened(r) \/ Extracted(r) \/ ExtractFails(r)
                 \/ TranscribeFails(r) \/ RenderFails(r) \/ Registered(r)
                 \/ RegisterFails(r) \/ Readied(r) \/ ReadyFails(r) \/ Failed(r)
        BY <4>2, <3>1 DEF StartFails, AudioOpened, Extracted, ExtractFails, TranscribeFails,
            RenderFails, Registered, RegisterFails, Readied, ReadyFails, Failed, Finish,
            Suspend, Goto, TypeOK, RequestsTypeOK, Actors
      <4> QED
        BY <3>1, <4>1, <4>2 DEF RunStep
    <3> QED
      BY <3>1, <3>2 DEF ClipOpened, RunContinues, RunLocks
  <2>2. Guarding[stage[r]] = {DITTO} /\ Guarding[st] = {DITTO}
    BY <1>5, <2>1, GuardingIs DEF StartStages, RunStages, StepAt
  <2> QED
    BY <1>3, <1>4, <2>1, <2>2, LocksUntouched DEF conversationVars
<1>6. CASE st # "muxing" /\ Guarding[st] = {} /\ C!Held(r) = {}
  <2>1. UNCHANGED conversationVars
    BY <1>2, <1>6 DEF RunContinues, RunLocks
  <2> QED
    BY <1>3, <1>4, <1>6, <2>1, LocksUntouched DEF conversationVars
<1>7. CASE st # "muxing" /\ Guarding[st] = {} /\ C!Held(r) # {}
  <2>1. C!RunLeaves(r)
    BY <1>2, <1>7 DEF RunContinues, RunLocks
  <2>2. CP!Leave(r)
    BY <2>1 DEF C!RunLeaves, C!Leave, CP!Leave, C!Resources, CP!Resources, C!Actors,
        CP!Actors, C!Requests, CP!Requests
  <2>3. \A q \in Starts \ {r} : CP!Held(q)' = CP!Held(q) /\ wants'[q] = wants[q]
    BY <1>3, <2>2, CP!OthersKeepTheirs
  <2>4. wants'[r] = Nothing /\ CP!Held(r)' = {}
    BY <1>3, <2>2 DEF CP!Leave, CP!Held, CP!LocksTypeOK
  <2> QED
    BY <1>4, <1>7, <2>3, <2>4, SameLocks
<1>8. CASE st # "muxing" /\ Guarding[st] # {}
  <2>1. PICK x \in {GPU, DITTO} : Guarding[st] = {x} /\ C!RunAsks(r, x)
    BY <1>2, <1>8, GuardingIs DEF RunContinues, RunLocks
  <2>2. CP!HandOver(r, CP!Held(r), x)
    BY <2>1 DEF C!RunAsks, C!HandOver, CP!HandOver, C!Held, CP!Held, C!Resources,
        CP!Resources, C!Obtainable, CP!Obtainable, C!Waiters, CP!Waiters, C!Actors,
        CP!Actors, C!Requests, CP!Requests
  <2>3. CP!Held(r) \in SUBSET CP!Resources
    BY DEF CP!Held
  <2>4. \A q \in Starts \ {r} : CP!Held(q)' = CP!Held(q) /\ wants'[q] = wants[q]
    <3> SUFFICES ASSUME NEW q \in Starts \ {r}
                 PROVE  CP!Held(q)' = CP!Held(q) /\ wants'[q] = wants[q]
      OBVIOUS
    <3>1. \A y \in CP!Held(r) : owner[y] # q
      BY DEF CP!Held
    <3> QED
      BY <1>3, <2>2, <2>3, <3>1, CP!OthersKeepTheirs
  <2>5. \/ wants'[r] = Nothing /\ CP!Held(r)' = {x}
        \/ wants'[r] = x /\ CP!Held(r)' = {}
    BY <1>3, <2>2, CP!RunsHandOver
  <2> QED
    BY <1>3, <1>4, <2>1, <2>4, <2>5, SameLocks
<1> QED
  BY <1>5, <1>6, <1>7, <1>8

(* A lock is granted. *)
LEMMA HoldOfGrant ==
    ASSUME LocksSound, HoldInv, NEW a \in C!Actors, LockGranted(a)
    PROVE  HoldInv'
<1>1. /\ CP!ConversationAssumption /\ CP!LocksTypeOK /\ Starts \subseteq CP!Actors
      /\ Nobody \notin Starts /\ a \in CP!Actors /\ Nothing \notin CP!Resources
  BY ServiceAssumption, SameMachine, SameLocks
     DEF LocksSound, CP!Counted, CP!TypeOK, CP!Actors, CP!Resources, C!ConversationAssumption
<1>2. CP!Wake(a) /\ stage' = stage
  BY DEF LockGranted, C!Granted, C!Wake, CP!Wake, C!Waiting, CP!Waiting, C!Actors, CP!Actors,
      C!Requests, CP!Requests, vars, memory
<1> SUFFICES ASSUME NEW r \in Starts
             PROVE  IF wants'[r] # Nothing
                      THEN C!Held(r)' = {} /\ Guarding[stage[r]] = {wants'[r]}
                      ELSE C!Held(r)' = Guarding[stage[r]]
  BY <1>2 DEF HoldInv, C!Waiting, Guarding
<1>3. CASE r # a
  BY <1>1, <1>2, <1>3, CP!OthersKeepTheirs, SameLocks DEF HoldInv, C!Waiting
<1>4. CASE r = a
  <2>1. C!Held(r) = {} /\ Guarding[stage[r]] = {wants[r]} /\ wants[r] \in CP!Resources
    BY <1>1, <1>2, <1>4 DEF HoldInv, C!Waiting, CP!Wake, CP!Waiting, CP!LocksTypeOK
  <2>2. wants'[r] = Nothing /\ CP!Held(r)' = {wants[r]}
    BY <1>1, <1>2, <1>4, <2>1, SameLocks DEF CP!Wake, CP!Held, CP!LocksTypeOK
  <2> QED
    BY <2>1, <2>2, SameLocks
<1> QED
  BY <1>3, <1>4

(* A step of a request takes nothing from a run. *)
LEMMA RequestsAside ==
    ASSUME LocksSound,
           \/ \E m \in Msgs : MessageStep(m)
           \/ \E e \in Ends : EndStep(e)
           \/ SessionStep
    PROVE  \A r \in Starts : C!Held(r)' = C!Held(r) /\ wants'[r] = wants[r]
<1>1. CP!ConversationAssumption /\ CP!TypeOK /\ CP!LockInv
  BY ServiceAssumption, SameMachine DEF LocksSound, CP!Counted
<1>2. CP!OfRequests
  BY SameMachine DEF ConversationRequests, MessageStep, EndStep, SessionStep
<1> QED
  BY <1>1, <1>2, CP!RequestsLeaveRuns, SameLocks

(* Every step of the service keeps it. *)
LEMMA HoldStep ==
    ASSUME TypeOK, LocksSound, HoldInv, [ServiceNext]_serviceVars
    PROVE  HoldInv'
<1>a. Starts \subseteq Actors /\ Starts \cap Uploads = {} /\ Starts \cap Deletes = {}
  BY PersonaAssumption DEF Actors
<1>l. ASSUME UNCHANGED <<owner, wants>>
      PROVE  \A r \in Starts : C!Held(r)' = C!Held(r) /\ wants'[r] = wants[r]
  BY <1>l, LocksUntouched
<1>1. CASE PersonaStep
  <2>1. \A r \in Starts : Guarding[stage'[r]] = Guarding[stage[r]]
    <3>1. ASSUME NEW u \in Uploads, UploadStep(u)
          PROVE  \A r \in Starts : stage'[r] = stage[r]
      BY <3>1, <1>a DEF UploadStep, UploadAdmitted, UploadRejected, UploadWrites, UploadStored,
          UploadFails, Goto, TypeOK, RequestsTypeOK
    <3>2. ASSUME NEW q \in Starts, RequestStep(q), NEW r \in Starts
          PROVE  Guarding[stage'[r]] = Guarding[stage[r]]
      <4>1. CASE r # q
        BY <4>1, <3>2, <1>a DEF RequestStep, ReadRow, Accept, Refuse, Suspend, Goto, TypeOK,
            RequestsTypeOK
      <4>2. CASE r = q
        <5>1. /\ stage[r] \in {"idle", "checking"}
              /\ stage'[r] \in {"checking", "starting", "done"}
          BY <4>2, <3>2, <1>a DEF RequestStep, ReadRow, Accept, Refuse, Suspend, Goto, TypeOK,
              RequestsTypeOK
        <5> QED
          BY <5>1, GuardingIs DEF StartStages, RunStages, StepAt
      <4> QED
        BY <4>1, <4>2
    <3> QED
      BY <1>1, <3>1, <3>2 DEF PersonaStep
  <2> QED
    BY <1>1, <1>l, <2>1, HoldUntouched DEF PersonaStep, conversationVars
<1>2. ASSUME NEW r \in Starts, RunContinues(r) PROVE HoldInv'
  BY <1>2, HoldOfRun
<1>3. ASSUME NEW d \in Deletes, DeleteBegins(d) \/ RemoveSpeak(d) \/ DeleteContinues(d)
      PROVE  HoldInv'
  <2>1. UNCHANGED <<owner, wants>>
    BY <1>3 DEF DeleteBegins, RemoveSpeak, DeleteContinues, conversationVars
  <2>2. \A r \in Starts : stage'[r] = stage[r]
    BY <1>3, <1>a DEF DeleteBegins, RemoveSpeak, DeleteContinues, DeleteAdmitted,
        RemoveEntry, Removed, RemoveFails, Dropped, DropFails, Goto, vars, memory, TypeOK,
        RequestsTypeOK
  <2> QED
    BY <1>l, <2>1, <2>2, HoldUntouched
<1>4. ASSUME NEW a \in C!Actors, LockGranted(a) PROVE HoldInv'
  BY <1>4, HoldOfGrant
<1>5. CASE \/ \E s \in Sessions : StartReads(s) \/ StartCreates(s)
           \/ \E m \in Msgs : MessageStep(m)
           \/ \E e \in Ends : EndStep(e)
           \/ SessionStep
  <2>1. stage' = stage
    BY <1>5 DEF StartReads, StartCreates, MessageStep, EndStep, SessionStep, vars, memory
  <2>2. ASSUME NEW s \in Sessions, StartReads(s) PROVE HoldInv'
    BY <2>1, <2>2, <1>l, HoldUntouched DEF StartReads, conversationVars
  <2>3. ASSUME NEW s \in Sessions, StartCreates(s) PROVE HoldInv'
    BY <2>1, <2>3, <1>l, HoldUntouched DEF StartCreates, C!StartSession, C!locks
  <2>4. ASSUME \/ \E m \in Msgs : MessageStep(m)
               \/ \E e \in Ends : EndStep(e)
               \/ SessionStep
        PROVE  HoldInv'
    <3>1. [C!Next]_(C!vars)
      BY <2>4 DEF C!Next, MessageStep, EndStep, SessionStep
    <3> QED
      BY <2>1, <2>4, RequestsAside, HoldUntouched
  <2> QED
    BY <1>5, <2>2, <2>3, <2>4
<1>6. CASE ServiceRestart
  <2>1. /\ \A r \in Starts : stage'[r] \in {"idle", "done"}
        /\ owner' = [x \in C!Resources |-> Nobody] /\ wants' = [b \in C!Actors |-> Nothing]
    BY <1>6, <1>a DEF ServiceRestart, Crash, Shutdown, Restarts, C!Restart
  <2>2. Nobody \notin Starts /\ Starts \subseteq C!Actors
    BY ServiceAssumption DEF C!ConversationAssumption, C!Actors
  <2>3. \A r \in Starts : C!Held(r)' = {} /\ wants'[r] = Nothing
    BY <2>1, <2>2 DEF C!Held, C!Resources
  <2>4. \A r \in Starts : Guarding[stage'[r]] = {}
    BY <2>1, GuardingIs DEF StartStages, RunStages, StepAt
  <2> QED
    BY <2>3, <2>4 DEF HoldInv, C!Waiting, Guarding
<1>7. CASE ServiceQuiet \/ UNCHANGED serviceVars
  <2>1. UNCHANGED <<stage, owner, wants>>
    BY <1>7 DEF ServiceQuiet, Quiet, C!Quiet, C!vars, C!locks, serviceVars, conversationVars,
        vars, memory
  <2> QED
    BY <1>l, <2>1, HoldUntouched
<1> QED
  BY <1>1, <1>2, <1>3, <1>4, <1>5, <1>6, <1>7 DEF ServiceNext

(* However a run ends and wherever a call raises, it has what the block it is *)
(* in needs and nothing else, whatever the messages, the sweeper, a DELETE    *)
(* and restarts do in between.                                               *)
THEOREM RunsAlwaysHoldTheirs == ServiceSpec => []RunsHoldTheirs
<1>1. ServiceInit => HoldInv
  <2> SUFFICES ASSUME ServiceInit, NEW r \in Starts
               PROVE  C!Held(r) = Guarding[stage[r]] /\ ~C!Waiting(r)
    BY DEF HoldInv
  <2>1. stage[r] = "idle" /\ r # Nobody /\ r \in C!Actors
    BY ServiceAssumption DEF ServiceInit, Init, Actors, C!ConversationAssumption, C!Actors
  <2>2. Guarding[stage[r]] = {}
    BY <2>1, GuardingIs DEF StartStages
  <2> QED
    BY <2>1, <2>2 DEF ServiceInit, C!Init, C!LocksInit, C!Held, C!Waiting
<1>2. TypeOK /\ LocksSound /\ HoldInv /\ [ServiceNext]_serviceVars => HoldInv'
  BY HoldStep
<1>3. HoldInv => RunsHoldTheirs
  BY DEF HoldInv, RunsHoldTheirs
<1> QED
  BY <1>1, <1>2, <1>3, SoundAlways, PTL DEF ServiceSpec
-----------------------------------------------------------------------------
(* What the clients of the service are told. *)
ToldInv == CP!StreamInv /\ CP!RecordInv

(* A step of the persona's DELETE under a message changes neither the stream  *)
(* of its events nor the history; every other step is Conversation's own.     *)
LEMMA ToldStep ==
    ASSUME TypeOK, LocksSound, ToldInv, [ServiceNext]_serviceVars
    PROVE  ToldInv'
<1>1. CASE [C!Next]_(C!vars)
  <2>1. CP!ConversationAssumption /\ [CP!Next]_(CP!vars) /\ CP!TypeOK
    BY <1>1, ServiceAssumption, SameMachine DEF LocksSound, CP!Counted
  <2> QED
    BY <2>1, CP!StreamStep, CP!RecordStep DEF ToldInv
<1>2. CASE SpeakGone
  BY <1>2 DEF SpeakGone, ToldInv, CP!StreamInv, CP!Course, CP!Phase, CP!WasSent,
      CP!RecordInv, CP!Past
<1> QED
  BY <1>1, <1>2, StepOfConversation, PersonaAssumption

(* It holds of every state of the service. *)
LEMMA ToldAlways == ServiceSpec => [](TypeOK /\ LocksSound /\ ToldInv)
<1>1. ServiceInit => ToldInv
  <2> SUFFICES ASSUME ServiceInit PROVE ToldInv
    OBVIOUS
  <2>1. CP!ConversationAssumption /\ CP!Init
    BY ServiceAssumption, SameMachine DEF ServiceInit
  <2>2. CP!StreamInv
    BY <2>1, CP!StreamInit
  <2>3. CP!RecordInv
    BY <2>1, CP!RecordInit
  <2> QED
    BY <2>2, <2>3 DEF ToldInv
<1>2. TypeOK /\ LocksSound /\ ToldInv /\ [ServiceNext]_serviceVars => ToldInv'
  BY ToldStep
<1> QED
  BY <1>1, <1>2, SoundAlways, PTL DEF ServiceSpec

(* Whatever a DELETE removes under a message, whatever runs take part at the  *)
(* semaphores and however often the worker restarts, a session's history      *)
(* holds what its clients were told, and holds it once.                      *)
THEOREM ServiceHistoryDelivered == ServiceSpec => []C!HistoryDelivered
<1>1. LocksSound /\ ToldInv => C!HistoryDelivered
  <2> SUFFICES ASSUME LocksSound, ToldInv PROVE CP!HistoryDelivered
    BY Zenon DEF C!HistoryDelivered, CP!HistoryDelivered, C!WasSent, CP!WasSent
  <2> QED
    BY CP!RecordsDelivered, ServiceAssumption, SameMachine DEF LocksSound, CP!Counted, ToldInv
<1> QED
  BY <1>1, ToldAlways, PTL

(* And the event streams keep the contract of SseStream.                     *)
THEOREM ServiceKeepsSse == ServiceSpec => C!SseContract
<1> DEFINE phase == [m \in Msgs |-> C!Phase(m)]
<1>1. ServiceInit => C!SSE!Init
  BY DEF ServiceInit, C!Init, C!SSE!Init, C!Phase, C!Requests
<1>2. TypeOK /\ LocksSound /\ ToldInv /\ [ServiceNext]_serviceVars => [C!SSE!Next]_phase
  <2> SUFFICES ASSUME TypeOK, LocksSound, ToldInv, [ServiceNext]_serviceVars
               PROVE  [C!SSE!Next]_phase
    OBVIOUS
  <2>1. CASE [C!Next]_(C!vars)
    <3>1. CP!ConversationAssumption /\ [CP!Next]_(CP!vars) /\ CP!TypeOK /\ CP!StreamInv
      BY <2>1, ServiceAssumption, SameMachine DEF LocksSound, CP!Counted, ToldInv
    <3>2. [CP!SSE!Next]_[m \in Msgs |-> CP!Phase(m)]
      BY <3>1, CP!StepOfStream
    <3> QED
      BY Zenon, <3>2 DEF C!Phase, CP!Phase, C!SSE!Next, CP!SSE!Next, C!SSE!Token,
          CP!SSE!Token, C!SSE!TextDone, CP!SSE!TextDone, C!SSE!MediaReady, CP!SSE!MediaReady,
          C!SSE!Crisis, CP!SSE!Crisis, C!SSE!Error, CP!SSE!Error, C!SSE!Deliver,
          CP!SSE!Deliver, C!SSE!Close, CP!SSE!Close
  <2>2. CASE SpeakGone
    BY <2>2 DEF SpeakGone, C!Phase
  <2> QED
    BY <2>1, <2>2, StepOfConversation, PersonaAssumption
<1> QED
  BY <1>1, <1>2, ToldAlways, PTL DEF ServiceSpec, C!SSE!Spec, C!SseContract
=============================================================================
