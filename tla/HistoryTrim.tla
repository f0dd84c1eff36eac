----------------------------- MODULE HistoryTrim -----------------------------
(***************************************************************************)
(* The history of one session and what _trim_history                       *)
(* (pipeline/conversation.py) lets the model see of it.  A text is its      *)
(* number of characters.                                                   *)
(***************************************************************************)
EXTENDS Naturals, Sequences

CONSTANTS MaxChars,      \* _HISTORY_MAX_CHARS
          MaxMessages,   \* _HISTORY_MAX_MESSAGES
          Texts,         \* bound: the lengths a text may have
          MaxTurns       \* bound: the messages of the session

ASSUME TrimAssumption ==
    /\ MaxChars \in Nat /\ MaxMessages \in Nat
    /\ Texts \subseteq Nat /\ MaxTurns \in Nat

VARIABLES
    history,    \* SessionState.history
    prompt      \* the part of it that was given to the model last

trimVars == <<history, prompt>>

Newest(h, k) == SubSeq(h, Len(h) - k + 1, Len(h))

(* The characters of the k newest messages. *)
Chars(h, k) ==
    LET total[j \in 0..k] == IF j = 0 THEN 0 ELSE total[j - 1] + h[Len(h) - j + 1].chars
    IN  total[k]

(* Mutant: a message that is too long is skipped, older ones still kept. *)
TrimSkipping(h) ==
    LET scan[j \in 0..Len(h)] ==
          IF j = 0 THEN [kept |-> <<>>, total |-> 0]
          ELSE LET msg == h[Len(h) - j + 1]
                   old == scan[j - 1]
               IN  IF old.total + msg.chars > MaxChars \/ Len(old.kept) >= MaxMessages
                     THEN old
                     ELSE [kept |-> <<msg>> \o old.kept, total |-> old.total + msg.chars]
    IN  scan[Len(h)].kept

(* _trim_history: from the newest message back, until one does not fit. *)
Trim(h) ==
    LET kept[k \in 0..Len(h)] ==
          IF k = Len(h) \/ k >= MaxMessages \/ Chars(h, k + 1) > MaxChars
            THEN k ELSE kept[k + 1]
    IN  Newest(h, kept[0])

(* A message is answered: the history it is answered from, then the pair.   *)
Reply(u, a) ==
    /\ Len(history) < 2 * MaxTurns
    /\ prompt' = Trim(history)
    /\ history' = history \o <<[role |-> "user", chars |-> u],
                               [role |-> "assistant", chars |-> a]>>

TrimInit == history = <<>> /\ prompt = <<>>
TrimNext == \E u, a \in Texts : Reply(u, a)
-----------------------------------------------------------------------------
(* Properties *)

Fits(h, k) == k <= MaxMessages /\ Chars(h, k) <= MaxChars

(* conversation.py:41, "the newest messages, up to whichever limit is met   *)
(* first": the prompt is the longest end of the history that fits.          *)
PromptIsLongestThatFits ==
    [][LET k == Len(prompt') IN
       /\ k <= Len(history) /\ prompt' = Newest(history, k)
       /\ Fits(history, k)
       /\ \A j \in (k + 1)..Len(history) : ~Fits(history, j)]_trimVars

(* A message that fell out of the prompt does not come back into it later:  *)
(* the first message the model sees only ever moves forward.                *)
Seen(p, h) == (Len(h) - Len(p) + 1)..Len(h)
Forgets ==
    [][history # <<>> =>
         LET before == SubSeq(history, 1, Len(history) - 2)
         IN  Seen(prompt', history) \cap (1..Len(before)) \subseteq Seen(prompt, before)]_trimVars
=============================================================================
