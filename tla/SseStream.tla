------------------------------ MODULE SseStream ------------------------------
(***************************************************************************)
(* What a client of POST /message is promised about the event stream        *)
(* (routers/sessions.py:119-126, pipeline/conversation.py:8-13): tokens,    *)
(* then one text_done, then media_ready; crisis comes alone; after crisis,  *)
(* error or media_ready there is nothing; the stream may close at any time. *)
(***************************************************************************)
CONSTANT Msgs
VARIABLE phase      \* phase[m]: what the stream of m has delivered last

Phases == {"opened", "token", "text_done", "media_ready", "crisis", "error",
           "closed"}

Init == phase = [m \in Msgs |-> "opened"]

Deliver(m, before, event) ==
    /\ phase[m] \in before
    /\ phase' = [phase EXCEPT ![m] = event]

Token(m)      == Deliver(m, {"opened", "token"}, "token")
TextDone(m)   == Deliver(m, {"opened", "token"}, "text_done")
MediaReady(m) == Deliver(m, {"text_done"}, "media_ready")
Crisis(m)     == Deliver(m, {"opened"}, "crisis")
Error(m)      == Deliver(m, {"opened", "token", "text_done"}, "error")

(* A stream ends by itself or with its client; a worker that stops ends    *)
(* all of them.                                                            *)
Close == \E gone \in SUBSET Msgs :
            phase' = [m \in Msgs |-> IF m \in gone THEN "closed" ELSE phase[m]]

Next ==
    \/ \E m \in Msgs : Token(m) \/ TextDone(m) \/ MediaReady(m) \/ Crisis(m) \/ Error(m)
    \/ Close

Spec == Init /\ [][Next]_phase
=============================================================================
