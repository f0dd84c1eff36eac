---------------------------- MODULE Queues_proofs ----------------------------
(* Theorems about the queues of the locks and semaphores in Conversation.     *)
EXTENDS Conversation_proofs

(* What keeps a queue orderly: the three things that happen to it.            *)
LEMMA QueuesUntouched ==
    ASSUME QueuesOrdered, UNCHANGED <<wants, ahead>>
    PROVE  QueuesOrdered'
BY DEF QueuesOrdered, Waiting

(* Somebody who does not wait asks for a resource: it goes to the end.        *)
LEMMA QueuedLast ==
    ASSUME ConversationAssumption, LocksTypeOK, QueuesOrdered, NEW a \in Actors,
           NEW drop, NEW r \in Resources, ~Waiting(a), HandOver(a, drop, r)
    PROVE  QueuesOrdered'
<1>1. r # Nothing /\ \A b \in Actors : a \notin ahead[b]
  BY DEF QueuesOrdered, Waiting, Resources, ConversationAssumption
<1>2. ahead' = [ahead EXCEPT ![a] = Waiters(r)] /\ ahead[a] = {}
  BY DEF HandOver, QueuesOrdered, LocksTypeOK
<1>3. CASE Obtainable(drop, r)
  <2>1. wants' = wants /\ Waiters(r) = {}
    BY <1>3 DEF HandOver, Obtainable, Waiting, LocksTypeOK
  <2>2. ahead' = ahead
    BY <1>2, <2>1 DEF LocksTypeOK
  <2> QED
    BY <2>1, <2>2, QueuesUntouched
<1>4. CASE ~Obtainable(drop, r)
  <2>1. wants' = [wants EXCEPT ![a] = r]
    BY <1>4 DEF HandOver
  <2>2. a \notin Waiters(r) /\ \A b \in Waiters(r) : wants[b] = r /\ ahead[b] \subseteq Waiters(r)
    BY <1>1 DEF Waiters, Waiting, QueuesOrdered, LocksTypeOK
  <2> SUFFICES ASSUME NEW x \in Actors, NEW y \in Actors
               PROVE  /\ y \in ahead'[x] =>
                            /\ wants'[x] # Nothing /\ wants'[y] = wants'[x]
                            /\ ahead'[y] \subseteq ahead'[x]
                            /\ x \notin ahead'[y]
                      /\ x # y /\ wants'[x] # Nothing /\ wants'[x] = wants'[y] =>
                            x \in ahead'[y] \/ y \in ahead'[x]
    BY DEF QueuesOrdered, Waiting
  <2>3. CASE x = a
    BY <1>1, <1>2, <2>1, <2>2, <2>3 DEF QueuesOrdered, Waiters, Waiting, LocksTypeOK
  <2>4. CASE y = a
    BY <1>1, <1>2, <2>1, <2>2, <2>4 DEF QueuesOrdered, Waiters, Waiting, LocksTypeOK
  <2>5. CASE x # a /\ y # a
    BY <1>1, <1>2, <2>1, <2>5 DEF QueuesOrdered, Waiting, LocksTypeOK
  <2> QED
    BY <2>3, <2>4, <2>5
<1> QED
  BY <1>3, <1>4

(* Somebody leaves the queue it is in, from its front or its middle.          *)
LEMMA QueueLeft ==
    ASSUME LocksTypeOK, QueuesOrdered, NEW a \in Actors, Wake(a) \/ Leave(a)
    PROVE  QueuesOrdered'
<1>1. wants' = [wants EXCEPT ![a] = Nothing]
  BY DEF Wake, Leave
<1>2. ahead' = [b \in Actors |-> IF b = a THEN {} ELSE ahead[b] \ {a}]
  BY DEF Wake, Leave
<1> QED
  BY <1>1, <1>2 DEF QueuesOrdered, Waiting, LocksTypeOK

(* Everything an action does to the queues is one of those three things, or   *)
(* the end of all of them.                                                   *)
QueueMove ==
    \/ /\ UNCHANGED <<wants, ahead>>
       /\ \A r \in Resources : owner'[r] \in {owner[r], Nobody}
    \/ \E a \in Actors, r \in Resources, drop \in SUBSET Resources :
          ~Waiting(a) /\ (owner[r] # a \/ r \in drop) /\ HandOver(a, drop, r)
    \/ \E a \in Actors : Wake(a) \/ Leave(a)
    \/ /\ wants' = [a \in Actors |-> Nothing]
       /\ ahead' = [a \in Actors |-> {}]

(* Every step of Conversation moves the queues like that. *)
LEMMA QueueMoves ==
    ASSUME ConversationAssumption, TypeOK, NoPermitLeaked, [Next]_vars
    PROVE  QueueMove
<1> USE DEF QueueMove
<1>b. \A a \in Requests, s \in Sessions : owner[s] = a =>
         stage[a] \in Pipeline \cup {"ending", "cleaning"}
  BY DEF NoPermitLeaked, Requests, ConversationAssumption
<1>0. \A a \in Requests : Waiting(a) =>
         stage[a] \in {"transcribing", "ending", "synthesizing", "rendering"}
  BY DEF NoPermitLeaked
<1>a. Requests \subseteq Actors /\ Msgs \subseteq Actors /\ Ends \subseteq Actors
      /\ Runs \subseteq Actors /\ Sessions \subseteq Resources
      /\ GPU \in Resources /\ DITTO \in Resources
  BY DEF Actors, Requests, Resources
<1>1. ASSUME NEW s \in Sessions, StartSession(s) \/ GoStale(s) PROVE QueueMove
  BY <1>1 DEF StartSession, GoStale, locks
<1>2. CASE Sweep
  BY <1>2 DEF Sweep, locks
<1>3. ASSUME NEW e \in Ends, NEW s \in Sessions, EndSession(e, s) \/ EndSessionWaits(e, s)
      PROVE  QueueMove
  <2>1. stage[e] = "idle" /\ (Acquire(e, s) \/ UNCHANGED locks)
    BY <1>3 DEF EndSession, EndSessionWaits
  <2>2. ~Waiting(e) /\ owner[s] # e
    BY <2>1, <1>0, <1>b DEF Requests, Pipeline
  <2> QED
    BY <2>1, <2>2, <1>a DEF Acquire, locks
<1>4. ASSUME NEW e \in Ends, EndStep(e) PROVE QueueMove
  BY <1>4, <1>a DEF EndStep, EndPop, EndClean, locks
<1>5. ASSUME NEW m \in Msgs, NEW s \in Sessions, PostMessage(m, s) PROVE QueueMove
  BY <1>5 DEF PostMessage, locks
<1>6. ASSUME NEW m \in Msgs, SaveAudio(m) PROVE QueueMove
  <2>1. stage[m] = "saving" /\ Acquire(m, target[m]) /\ target[m] \in Sessions
    BY <1>6 DEF SaveAudio, TypeOK, RequestsTypeOK, Requests
  <2>2. ~Waiting(m) /\ owner[target[m]] # m
    BY <2>1, <1>0, <1>b DEF Requests, Pipeline
  <2> QED
    BY <2>1, <2>2, <1>a DEF Acquire
<1>7. ASSUME NEW m \in Msgs, StartMedia(m) PROVE QueueMove
  <2>1. stage[m] = "text_done" /\ Acquire(m, GPU)
    BY <1>7 DEF StartMedia
  <2>2. ~Waiting(m) /\ owner[GPU] # m
    BY <2>1, <1>0 DEF NoPermitLeaked, Running, Requests
  <2> QED
    BY <2>1, <2>2, <1>a DEF Acquire
<1>8. ASSUME NEW m \in Msgs, Synthesized(m) PROVE QueueMove
  <2>1. ~Waiting(m) /\ HandOver(m, {GPU}, DITTO) /\ {GPU} \in SUBSET Resources
    BY <1>8, <1>a DEF Synthesized, Running
  <2>2. owner[DITTO] # m
    BY <1>8 DEF Synthesized, NoPermitLeaked, Running, Requests
  <2> QED
    BY <2>1, <2>2, <1>a
<1>9. ASSUME NEW m \in Msgs, Rendered(m) \/ MediaFails(m) PROVE QueueMove
  BY <1>9 DEF Rendered, MediaFails, Release, TypeOK, LocksTypeOK
<1>10. ASSUME NEW m \in Msgs, Close(m) \/ Disconnect(m) PROVE QueueMove
  BY <1>10, <1>a DEF Close, Disconnect, Finish
<1>11. ASSUME NEW m \in Msgs,
              \/ SaveAudioFails(m) \/ Transcribed(m) \/ CrisisFound(m) \/ Crisis(m)
              \/ ModelFails(m) \/ Token(m) \/ StreamEnds(m) \/ Forbidden(m)
              \/ Masked(m) \/ StartMediaFails(m)
       PROVE  QueueMove
  BY <1>11 DEF SaveAudioFails, Transcribed, CrisisFound, Crisis, ModelFails, Token,
      StreamEnds, Forbidden, Masked, StartMediaFails, locks
<1>12. ASSUME NEW r \in Runs, NEW k \in {GPU, DITTO}, RunAsks(r, k) PROVE QueueMove
  <2>1. ~Waiting(r) /\ HandOver(r, Held(r), k) /\ Held(r) \in SUBSET Resources
        /\ (owner[k] # r \/ k \in Held(r))
    BY <1>12, <1>a DEF RunAsks, Held
  <2> QED
    BY <2>1, <1>a
<1>13. ASSUME NEW r \in Runs, RunLeaves(r) PROVE QueueMove
  BY <1>13, <1>a DEF RunLeaves
<1>14. ASSUME NEW a \in Actors, Granted(a) PROVE QueueMove
  BY <1>14 DEF Granted
<1>15. ASSUME NEW m \in Msgs, NEW k \in Models, StrayEnds(m, k) PROVE QueueMove
  BY <1>15 DEF StrayEnds, locks
<1>16. CASE Restart
  BY <1>16 DEF Restart
<1>17. CASE Quiet \/ UNCHANGED vars
  BY <1>17 DEF Quiet, vars, locks
<1> QED
  BY <1>1, <1>2, <1>3, <1>4, <1>5, <1>6, <1>7, <1>8, <1>9, <1>10, <1>11, <1>12, <1>13,
      <1>14, <1>15, <1>16, <1>17 DEF Next, MessageStep

(* The queues stay orderly and finite, and nobody queues for what it holds.   *)
Queued == {a \in Actors : Waiting(a)}
QueueInv ==
    /\ QueuesOrdered
    /\ IsFiniteSet(Queued)
    /\ \A a \in Actors : Waiting(a) => owner[wants[a]] # a

(* The queues are empty in the beginning. *)
LEMMA QueueInit == ConversationAssumption /\ Init => QueueInv
<1> SUFFICES ASSUME Init PROVE QueueInv
  OBVIOUS
<1>1. Queued = {} /\ QueuesOrdered
  BY DEF Init, LocksInit, Queued, Waiting, QueuesOrdered
<1> QED
  BY <1>1, FS_EmptySet DEF QueueInv, Queued

(* Every step keeps them so. *)
LEMMA QueueStep ==
    ASSUME ConversationAssumption, TypeOK, NoPermitLeaked, QueueInv, [Next]_vars
    PROVE  QueueInv'
<1> USE DEF QueueInv, TypeOK
<1>0. \A a \in Actors : Waiting(a) => wants[a] \in Resources /\ a # Nobody
  BY DEF Waiting, LocksTypeOK, Actors, Requests, ConversationAssumption
<1>1. CASE UNCHANGED <<wants, ahead>> /\ \A r \in Resources : owner'[r] \in {owner[r], Nobody}
  <2>1. QueuesOrdered' /\ Queued' = Queued
    BY <1>1, QueuesUntouched DEF Queued, Waiting
  <2> QED
    BY <1>0, <1>1, <2>1 DEF Waiting
<1>2. ASSUME NEW a \in Actors, NEW r \in Resources, NEW drop \in SUBSET Resources,
             ~Waiting(a), owner[r] # a \/ r \in drop, HandOver(a, drop, r)
      PROVE  QueueInv'
  <2>1. Queued' \subseteq Queued \cup {a}
    BY <1>2 DEF HandOver, Queued, Waiting, LocksTypeOK
  <2>2. IsFiniteSet(Queued \cup {a})
    BY FS_AddElement
  <2>3. ASSUME NEW b \in Actors, wants'[b] # Nothing PROVE owner'[wants'[b]] # b
    <3>1. CASE b = a
      BY <1>2, <2>3, <3>1 DEF HandOver, Waiting, LocksTypeOK, Actors, Requests,
          ConversationAssumption
    <3>2. CASE b # a
      <4>1. Waiting(b) /\ wants'[b] = wants[b] /\ wants[b] \in Resources
        BY <1>0, <1>2, <2>3, <3>2 DEF HandOver, Waiting, LocksTypeOK
      <4> QED
        BY <1>0, <1>2, <3>2, <4>1 DEF HandOver
    <3> QED
      BY <3>1, <3>2
  <2> QED
    BY <1>2, <2>1, <2>2, <2>3, QueuedLast, FS_Subset DEF Waiting
<1>3. ASSUME NEW a \in Actors, Wake(a) \/ Leave(a) PROVE QueueInv'
  <2>1. Queued' \subseteq Queued
    BY <1>3 DEF Wake, Leave, Queued, Waiting, LocksTypeOK
  <2>2. ASSUME NEW b \in Actors, wants'[b] # Nothing PROVE owner'[wants'[b]] # b
    <3>1. b # a /\ wants'[b] = wants[b] /\ Waiting(b)
      BY <1>3, <2>2 DEF Wake, Leave, Waiting, LocksTypeOK
    <3> QED
      BY <1>0, <1>3, <3>1 DEF Wake, Leave, Waiting, LocksTypeOK
  <2> QED
    BY <1>3, <2>1, <2>2, QueueLeft, FS_Subset DEF Waiting
<1>4. CASE wants' = [a \in Actors |-> Nothing] /\ ahead' = [a \in Actors |-> {}]
  <2>1. Queued' = {} /\ QueuesOrdered'
    BY <1>4 DEF Queued, Waiting, QueuesOrdered
  <2> QED
    BY <1>4, <2>1, FS_EmptySet DEF Waiting
<1> QED
  BY <1>1, <1>2, <1>3, <1>4, QueueMoves DEF QueueMove

(* A queue that is not empty has a first waiter: the sets of waiters ahead    *)
(* are finite, and somebody further in front has a smaller one.              *)
LEMMA QueueHasFirst ==
    ASSUME LocksTypeOK, QueueInv, NEW r \in Resources, r # Nothing, Waiters(r) # {}
    PROVE  \E a \in Waiters(r) : ahead[a] = {}
<1> DEFINE T == {ahead[a] : a \in Waiters(r)}
<1>1. \A a \in Waiters(r) : ahead[a] \subseteq Waiters(r) /\ ahead[a] \subseteq Queued
  BY DEF Waiters, Queued, Waiting, QueueInv, QueuesOrdered, LocksTypeOK
<1>2. T \subseteq FiniteSubsetsOf(Queued) /\ T # {}
  <2>1. T \subseteq SUBSET Queued /\ T # {}
    BY <1>1
  <2> QED
    BY <2>1, FS_FiniteSubsetsOfFinite DEF QueueInv
<1>3. \E X \in T : \A Y \in T : <<Y, X>> \notin StrictSubsetOrdering(Queued)
  <2> HIDE DEF T
  <2> QED
    BY <1>2, FS_StrictSubsetOrderingWellFounded, WFMin
<1>4. PICK a \in Waiters(r) :
        \A b \in Waiters(r) : <<ahead[b], ahead[a]>> \notin StrictSubsetOrdering(Queued)
  BY <1>3
<1>5. ASSUME NEW b \in ahead[a] PROVE FALSE
  <2>1. b \in Waiters(r) /\ ahead[b] \subseteq ahead[a] /\ b \notin ahead[b]
    BY <1>1 DEF Waiters, QueueInv, QueuesOrdered
  <2>2. <<ahead[b], ahead[a]>> \in StrictSubsetOrdering(Queued)
    BY <1>1, <2>1 DEF StrictSubsetOrdering
  <2> QED
    BY <1>4, <2>1, <2>2
<1> QED
  BY <1>5
-----------------------------------------------------------------------------
(* What a queue is behind, given that the locks are given back and ordered.   *)
LEMMA NobodyStuck ==
    ASSUME ConversationAssumption, TypeOK, NoPermitLeaked, QueueInv
    PROVE  NoDeadlock
<1> USE DEF TypeOK
<1>1. Nothing \notin Resources /\ Nobody \notin Actors
  BY DEF Resources, Actors, Requests, ConversationAssumption
<1>2. ASSUME NEW r \in Resources, Waiters(r) # {}, owner[r] = Nobody
      PROVE  \E b \in Actors : Occupies(b, r) /\ Unblocked(b)
  BY <1>1, <1>2, QueueHasFirst DEF Waiters, Occupies, Unblocked
<1>3. ASSUME NEW k \in {GPU, DITTO}, Waiters(k) # {}
      PROVE  \E c \in Actors : Occupies(c, k) /\ Unblocked(c)
  <2>1. k \in Resources
    BY DEF Resources
  <2>2. CASE owner[k] # Nobody
    <3>1. owner[k] \in Requests \cup Runs
      BY <2>1, <2>2 DEF LocksTypeOK, Actors
    <3>2. ~Waiting(owner[k])
      BY <3>1 DEF NoPermitLeaked, Running
    <3> QED
      BY <3>1, <3>2 DEF Occupies, Unblocked, Actors
  <2> QED
    BY <1>2, <1>3, <2>1, <2>2
<1>4. ASSUME NEW s \in Sessions, owner[s] # Nobody
      PROVE  \E b \in Actors : /\ Occupies(b, s)
                               /\ \/ Unblocked(b)
                                  \/ /\ wants[b] \in {GPU, DITTO} \ {s}
                                     /\ \E c \in Actors : Occupies(c, wants[b]) /\ Unblocked(c)
  <2>1. owner[s] \in Requests /\ owner[s] \in Actors /\ target[owner[s]] = s
        /\ s \in Resources
    BY <1>4 DEF NoPermitLeaked, Actors, Resources
  <2>2. CASE ~Waiting(owner[s])
    BY <2>1, <2>2 DEF Occupies, Unblocked
  <2>3. CASE Waiting(owner[s])
    <3>1. wants[owner[s]] # s
      BY <2>1, <2>3 DEF QueueInv
    <3>2. wants[owner[s]] \in {GPU, DITTO} \ {s}
      BY <2>1, <2>3, <3>1 DEF NoPermitLeaked, ConversationAssumption
    <3>3. Waiters(wants[owner[s]]) # {}
      BY <2>1 DEF Waiters
    <3> QED
      BY <1>3, <2>1, <3>2, <3>3 DEF Occupies
  <2> QED
    BY <2>2, <2>3
<1> QED
  BY <1>2, <1>3, <1>4 DEF NoDeadlock, Resources

(* The queues with everything their order rests on. *)
LEMMA QueueInvariance == Spec => [](TypeOK /\ NoPermitLeaked /\ QueueInv)
<1>1. Init => QueueInv
  BY ConversationAssumption, QueueInit
<1>2. QueueInv /\ TypeOK /\ NoPermitLeaked /\ [Next]_vars => QueueInv'
  BY ConversationAssumption, QueueStep
<1> QED
  BY <1>1, <1>2, TypeCorrect, NeverLeaked, PTL DEF Spec

(* Every lock and semaphore stays first come, first served, also when a       *)
(* waiter in the middle of its queue is cancelled.                           *)
THEOREM QueuesAlwaysOrdered == Spec => []QueuesOrdered
BY QueueInvariance, PTL DEF QueueInv

(* Whatever a coroutine waits for, something it waits behind can go on: the   *)
(* locks are taken in one order, nobody who holds a semaphore waits, and     *)
(* every queue has a first waiter.                                           *)
THEOREM NeverDeadlocked == Spec => []NoDeadlock
<1>1. TypeOK /\ NoPermitLeaked /\ QueueInv => NoDeadlock
  BY ConversationAssumption, NobodyStuck
<1> QED
  BY <1>1, QueueInvariance, PTL
-----------------------------------------------------------------------------
(* A lock operation of one actor leaves another what it holds and waits for.  *)
LEMMA OthersKeepTheirs ==
    ASSUME LocksTypeOK, NEW a \in Actors, NEW q \in Actors, a # q, q # Nobody,
           \/ Wake(a) \/ Leave(a)
           \/ \E drop \in SUBSET Resources, r \in Resources :
                 (\A x \in drop : owner[x] # q) /\ HandOver(a, drop, r)
    PROVE  Held(q)' = Held(q) /\ wants'[q] = wants[q]
<1>1. CASE Wake(a)
  BY <1>1 DEF Wake, Held, LocksTypeOK
<1>2. CASE Leave(a)
  BY <1>2 DEF Leave, Held, LocksTypeOK
<1>3. ASSUME NEW drop \in SUBSET Resources, NEW r \in Resources,
             \A x \in drop : owner[x] # q, HandOver(a, drop, r)
      PROVE  Held(q)' = Held(q) /\ wants'[q] = wants[q]
  <2>1. \A x \in Resources : owner'[x] = q <=> owner[x] = q
    BY <1>3 DEF HandOver, Obtainable
  <2> QED
    BY <1>3, <2>1 DEF HandOver, Held, LocksTypeOK
<1> QED
  BY <1>1, <1>2, <1>3

(* What the requests and the sweeper do, apart from being granted a lock.      *)
OfRequests ==
    \/ Sweep
    \/ \E s \in Sessions : GoStale(s)
    \/ \E e \in Ends : EndStep(e)
    \/ \E e \in Ends, s \in Sessions : EndSession(e, s) \/ EndSessionWaits(e, s)
    \/ \E m \in Msgs : MessageStep(m) \/ Disconnect(m)
    \/ \E m \in Msgs, s \in Sessions : PostMessage(m, s)
    \/ \E m \in Msgs, k \in Models : StrayEnds(m, k)

(* No step of a request, and none of the sweeper, takes a semaphore from a    *)
(* run or its place in a queue.                                              *)
LEMMA RequestsLeaveRuns ==
    ASSUME ConversationAssumption, TypeOK, LockInv, NEW q \in Runs, OfRequests
    PROVE  Held(q)' = Held(q) /\ wants'[q] = wants[q]
<1> USE DEF TypeOK
<1>q. /\ q \in Actors /\ q # Nobody /\ Requests \subseteq Actors \ {q}
      /\ Msgs \subseteq Requests /\ Ends \subseteq Requests /\ Sessions \subseteq Resources
      /\ GPU \in Resources /\ DITTO \in Resources
  BY DEF Actors, Requests, Resources, ConversationAssumption
<1>a. ASSUME NEW a \in Requests, NEW r \in Resources, Acquire(a, r)
      PROVE  Held(q)' = Held(q) /\ wants'[q] = wants[q]
  <2>1. {} \in SUBSET Resources /\ \A x \in {} : owner[x] # q
    OBVIOUS
  <2> QED
    BY <1>a, <1>q, <2>1, OthersKeepTheirs DEF Acquire
<1>l. ASSUME NEW a \in Requests, Leave(a) PROVE Held(q)' = Held(q) /\ wants'[q] = wants[q]
  BY <1>l, <1>q, OthersKeepTheirs
<1>u. ASSUME UNCHANGED locks PROVE Held(q)' = Held(q) /\ wants'[q] = wants[q]
  BY <1>u DEF locks, Held
<1>1. CASE \/ Sweep
           \/ \E s \in Sessions : GoStale(s)
           \/ \E m \in Msgs, s \in Sessions : PostMessage(m, s)
           \/ \E m \in Msgs, k \in Models : StrayEnds(m, k)
  BY <1>1, <1>u DEF Sweep, GoStale, PostMessage, StrayEnds
<1>2. ASSUME NEW e \in Ends, EndStep(e)
      PROVE  Held(q)' = Held(q) /\ wants'[q] = wants[q]
  BY <1>2, <1>q, <1>l, <1>u DEF EndStep, EndPop, EndClean
<1>3. ASSUME NEW e \in Ends, NEW s \in Sessions, EndSession(e, s) \/ EndSessionWaits(e, s)
      PROVE  Held(q)' = Held(q) /\ wants'[q] = wants[q]
  BY <1>3, <1>q, <1>a, <1>u DEF EndSession, EndSessionWaits
<1>4. ASSUME NEW m \in Msgs, MessageStep(m) \/ Disconnect(m)
      PROVE  Held(q)' = Held(q) /\ wants'[q] = wants[q]
  <2>1. CASE SaveAudio(m)
    <3>1. target[m] \in Sessions /\ Acquire(m, target[m])
      BY <2>1 DEF SaveAudio, RequestsTypeOK, Requests
    <3> QED
      BY <3>1, <1>q, <1>a
  <2>2. CASE StartMedia(m)
    BY <2>2, <1>q, <1>a DEF StartMedia
  <2>3. CASE Synthesized(m)
    <3>1. HandOver(m, {GPU}, DITTO) /\ owner[GPU] = m
      BY <2>3 DEF Synthesized, LockInv, Serialised
    <3>2. {GPU} \in SUBSET Resources /\ \A x \in {GPU} : owner[x] # q
      BY <3>1, <1>q
    <3> QED
      BY <1>q, <3>1, <3>2, OthersKeepTheirs
  <2>4. CASE Rendered(m) \/ MediaFails(m)
    <3>1. PICK k \in {GPU, DITTO} : Release(k) /\ owner[k] = m
      BY <2>4 DEF Rendered, MediaFails, LockInv, Serialised
    <3> QED
      BY <1>q, <3>1 DEF Release, Held, LocksTypeOK
  <2>5. CASE Close(m) \/ Disconnect(m)
    BY <2>5, <1>q, <1>l DEF Close, Disconnect, Finish
  <2>6. CASE \/ SaveAudioFails(m) \/ Transcribed(m) \/ CrisisFound(m) \/ Crisis(m)
             \/ ModelFails(m) \/ Token(m) \/ StreamEnds(m) \/ Forbidden(m)
             \/ Masked(m) \/ StartMediaFails(m)
    BY <2>6, <1>u DEF SaveAudioFails, Transcribed, CrisisFound, Crisis, ModelFails, Token,
        StreamEnds, Forbidden, Masked, StartMediaFails
  <2> QED
    BY <1>4, <2>1, <2>2, <2>3, <2>4, <2>5, <2>6 DEF MessageStep
<1> QED
  BY <1>1, <1>2, <1>3, <1>4 DEF OfRequests

(* What a run asks for it gets, or queues for without holding anything.       *)
LEMMA RunsHandOver ==
    ASSUME ConversationAssumption, LocksTypeOK, NEW r \in Runs, NEW k \in {GPU, DITTO},
           HandOver(r, Held(r), k)
    PROVE  \/ wants'[r] = Nothing /\ Held(r)' = {k}
           \/ wants'[r] = k /\ Held(r)' = {}
<1>1. k \in Resources /\ r \in Actors /\ r # Nobody
  BY DEF Resources, Actors, ConversationAssumption
<1>2. CASE Obtainable(Held(r), k)
  BY <1>1, <1>2 DEF HandOver, Held, LocksTypeOK
<1>3. CASE ~Obtainable(Held(r), k)
  BY <1>1, <1>3 DEF HandOver, Held, LocksTypeOK
<1> QED
  BY <1>2, <1>3
=============================================================================
