----------------------------- MODULE AsyncLocks -----------------------------
(***************************************************************************)
(* asyncio.Lock and asyncio.Semaphore(1), as src/app uses them: one         *)
(* SessionState.lock per session (sessions/schemas.py:40), and the          *)
(* gpu_semaphore and ditto_semaphore of the ModelRegistry                   *)
(* (models/registry.py:38,44), both created with GPU_CONCURRENCY = 1.       *)
(*                                                                         *)
(* The primitives are FIFO: a newcomer takes a free resource only if nobody *)
(* is queued, and a release wakes the first waiter.  A waiter is always     *)
(* waiting for one thing only (it is one coroutine), so the queues of all   *)
(* resources are kept in two functions: wants[a] is the resource a waits    *)
(* for and ahead[a] the waiters queued in front of it.                      *)
(***************************************************************************)
CONSTANTS Actors,       \* the coroutines that take locks
          Resources,    \* the locks and semaphores
          Nobody,       \* the owner of a free resource
          Nothing       \* what an actor that is not waiting wants

VARIABLES owner,        \* owner[r]: who holds r
          wants,        \* wants[a]: what a is queued for
          ahead         \* ahead[a]: the actors queued in front of a

lockVars == <<owner, wants, ahead>>

LocksTypeOK ==
    /\ owner \in [Resources -> Actors \cup {Nobody}]
    /\ wants \in [Actors -> Resources \cup {Nothing}]
    /\ ahead \in [Actors -> SUBSET Actors]

LocksInit ==
    /\ owner = [r \in Resources |-> Nobody]
    /\ wants = [a \in Actors |-> Nothing]
    /\ ahead = [a \in Actors |-> {}]

Waiters(r) == {a \in Actors : wants[a] = r}

Free(r) == owner[r] = Nobody /\ Waiters(r) = {}

(* r can be had at once by somebody who has just given up what is in drop. *)
Obtainable(drop, r) == (owner[r] = Nobody \/ r \in drop) /\ Waiters(r) = {}

Waiting(a) == wants[a] # Nothing

(* a gives up the resources in drop, which are its own, and asks for r,     *)
(* which it gets at once when r is free and has no queue.  ("async with"    *)
(* exit, then entry)                                                       *)
HandOver(a, drop, r) ==
    /\ owner' = [x \in Resources |->
                    IF x = r /\ Obtainable(drop, r) THEN a
                    ELSE IF x \in drop THEN Nobody ELSE owner[x]]
    /\ wants' = [wants EXCEPT ![a] = IF Obtainable(drop, r) THEN Nothing ELSE r]
    /\ ahead' = [ahead EXCEPT ![a] = Waiters(r)]

Acquire(a, r) == HandOver(a, {}, r)

Release(r) ==
    /\ owner' = [owner EXCEPT ![r] = Nobody]
    /\ UNCHANGED <<wants, ahead>>

(* The first waiter of a resource that was released runs again, owning it. *)
Wake(a) ==
    /\ Waiting(a)
    /\ owner[wants[a]] = Nobody
    /\ ahead[a] = {}
    /\ owner' = [owner EXCEPT ![wants[a]] = a]
    /\ wants' = [wants EXCEPT ![a] = Nothing]
    /\ ahead' = [b \in Actors |-> ahead[b] \ {a}]

(* Mutant: a cancelled waiter stays in the queue in front of the others. *)
LeaveQueued(a) ==
    /\ owner' = [r \in Resources |-> IF owner[r] = a THEN Nobody ELSE owner[r]]
    /\ wants' = [wants EXCEPT ![a] = Nothing]
    /\ ahead' = [ahead EXCEPT ![a] = {}]

(* a leaves every "async with" block it is in, by returning or because it  *)
(* is cancelled: it gives up what it holds and what it is queued for.      *)
Leave(a) ==
    /\ owner' = [r \in Resources |-> IF owner[r] = a THEN Nobody ELSE owner[r]]
    /\ wants' = [wants EXCEPT ![a] = Nothing]
    /\ ahead' = [b \in Actors |-> IF b = a THEN {} ELSE ahead[b] \ {a}]

(* The queues are orderly: whoever waits for the same resource is ordered  *)
(* by the time it queued, and only waiters of one's own resource are ahead.*)
QueuesOrdered ==
    \A a, b \in Actors :
        /\ b \in ahead[a] =>
              /\ Waiting(a) /\ wants[b] = wants[a]
              /\ ahead[b] \subseteq ahead[a]
              /\ a \notin ahead[b]
        /\ a # b /\ Waiting(a) /\ wants[a] = wants[b] =>
              a \in ahead[b] \/ b \in ahead[a]
=============================================================================
