---------------------------- MODULE GemmaStream ----------------------------
(***************************************************************************)
(* stream_response of the GemmaLLM (models/llm_gemma.py): how the tokens of  *)
(* a reply come from the thread of model.generate to the coroutine of the    *)
(* message, over the queue of a TextIteratorStreamer and the threads of the  *)
(* event loop's default executor, which all streams share.                  *)
(*                                                                         *)
(* Simplifications:                                                        *)
(*  - A piece of text is "text" or "blank": the streamer also passes on the  *)
(*    empty strings of tokens that make no word yet.                        *)
(*  - The stream begins when its thread has been started: what raises before *)
(*    that is ModelFails of Conversation.                                  *)
(*  - streamer.end() does not raise.                                       *)
(*  - The other users of the executor (transcribe, rmtree) are left out.     *)
(***************************************************************************)
EXTENDS Naturals, Sequences, FiniteSets, SequencesExt

CONSTANTS Streams,
          Workers,      \* the threads of the executor
          MaxPieces     \* _MAX_RESPONSE_TOKENS

ASSUME StreamAssumption == Workers \in Nat \ {0} /\ MaxPieces \in Nat

VARIABLES
    thread,     \* thread[s]: where the thread of generate is
    failed,     \* the streams whose generate has raised
    queue,      \* queue[s]: what the streamer holds
    reader,     \* reader[s]: where stream_response is
    got,        \* got[s]: how many pieces it has yielded
    made,       \* made[s]: how many pieces the reply has so far
    jobs, busy  \* the executor's queue, and the calls its threads are in

streamVars == <<thread, failed, queue, reader, got, made, jobs, busy>>

Pieces == {"text", "blank"}
Submit(job) == jobs' = Append(jobs, job)
Becomes(s, st) == reader' = [reader EXCEPT ![s] = st]

(* jobs without the call of s, if there is one: a coroutine awaits one call   *)
(* at a time.                                                              *)
Withdrawn(s) ==
    LET mine == {i \in DOMAIN jobs : jobs[i][1] = s}
    IN  IF mine = {} THEN jobs ELSE RemoveAt(jobs, CHOOSE i \in mine : TRUE)
-----------------------------------------------------------------------------
(* The thread of generate *)

(* The streamer is given a token. *)
Put(s) ==
    /\ thread[s] = "generating"
    /\ made[s] < MaxPieces
    /\ \E p \in Pieces : queue' = [queue EXCEPT ![s] = Append(@, p)]
    /\ made' = [made EXCEPT ![s] = @ + 1]
    /\ UNCHANGED <<thread, failed, reader, got, jobs, busy>>

(* streamer.end(): what is left of the text, and the stop signal.  Nothing   *)
(* of the reply comes after the first of these.                             *)
End(s, p) ==
    /\ queue' = [queue EXCEPT ![s] = @ \o <<p, "stop">>]
    /\ made' = IF thread[s] = "generating" \/ s \in failed
                 THEN [made EXCEPT ![s] = @ + 1] ELSE made

(* generate returns, having called end(). *)
Generated(s) ==
    /\ thread[s] = "generating"
    /\ \E p \in Pieces : End(s, p)
    /\ thread' = [thread EXCEPT ![s] = "finally"]
    /\ UNCHANGED <<failed, reader, got, jobs, busy>>

(* generate raises at any token, and has not. *)
GenerateRaises(s) ==
    /\ thread[s] = "generating"
    /\ failed' = failed \cup {s}
    /\ thread' = [thread EXCEPT ![s] = "finally"]
    /\ UNCHANGED <<queue, reader, got, made, jobs, busy>>

(* Mutant: without the finally clause. *)
FinallyWithoutEnd(s) ==
    /\ thread[s] = "finally"
    /\ thread' = [thread EXCEPT ![s] = "over"]
    /\ UNCHANGED <<failed, queue, reader, got, made, jobs, busy>>

(* The finally clause calls end() in either case. *)
Finally(s) ==
    /\ thread[s] = "finally"
    /\ \E p \in IF s \in failed THEN Pieces ELSE {"blank"} : End(s, p)
    /\ thread' = [thread EXCEPT ![s] = "over"]
    /\ UNCHANGED <<failed, reader, got, jobs, busy>>
-----------------------------------------------------------------------------
(* stream_response *)

(* The thread is started, the first token asked for. *)
Begin(s) ==
    /\ reader[s] = "idle"
    /\ thread' = [thread EXCEPT ![s] = "generating"]
    /\ Becomes(s, "asking")
    /\ Submit(<<s, "next">>)
    /\ UNCHANGED <<failed, queue, got, made, busy>>

(* The client took the token: the next one is asked for. *)
Taken(s) ==
    /\ reader[s] = "yielded"
    /\ Becomes(s, "asking")
    /\ Submit(<<s, "next">>)
    /\ UNCHANGED <<thread, failed, queue, got, made, busy>>

(* The message is cancelled.  A call that has no thread yet is withdrawn,   *)
(* any other goes on for nobody.  The finally clause asks for the join, of   *)
(* which a second cancellation may leave nothing.                          *)
Cancelled(s) ==
    LET kept == Withdrawn(s) IN
    /\ reader[s] \in {"asking", "yielded", "joining"}
    /\ \/ Becomes(s, "leaving") /\ jobs' = Append(kept, <<s, "join">>)
       \/ Becomes(s, "gone") /\ jobs' = kept
    /\ <<s, "join">> \notin busy
    /\ UNCHANGED <<thread, failed, queue, got, made, busy>>
-----------------------------------------------------------------------------
(* The executor *)

(* A free thread takes the oldest call. *)
Starts ==
    /\ jobs # <<>>
    /\ Cardinality(busy) < Workers
    /\ busy' = busy \cup {Head(jobs)}
    /\ jobs' = Tail(jobs)
    /\ UNCHANGED <<thread, failed, queue, reader, got, made>>

(* Mutant: an empty token is taken for the end. *)
NextStopsAtBlank(s) ==
    LET p == Head(queue[s]) IN
    /\ <<s, "next">> \in busy
    /\ queue[s] # <<>>
    /\ queue' = [queue EXCEPT ![s] = Tail(@)]
    /\ busy' = busy \ {<<s, "next">>}
    /\ IF reader[s] # "asking" THEN UNCHANGED <<reader, got, jobs>>
       ELSE IF p = "text" THEN /\ got' = [got EXCEPT ![s] = @ + 1]
                               /\ Becomes(s, "yielded") /\ UNCHANGED jobs
       ELSE Becomes(s, "joining") /\ Submit(<<s, "join">>) /\ UNCHANGED got
    /\ UNCHANGED <<thread, failed, made>>

(* next(streamer) blocks its thread until there is something.  Its caller,   *)
(* if it still waits, yields a piece and leaves the loop at the stop signal. *)
NextReturns(s) ==
    LET p == Head(queue[s]) IN
    /\ <<s, "next">> \in busy
    /\ queue[s] # <<>>
    /\ queue' = [queue EXCEPT ![s] = Tail(@)]
    /\ busy' = busy \ {<<s, "next">>}
    /\ IF reader[s] # "asking" THEN UNCHANGED <<reader, got, jobs>>
       ELSE IF p # "stop" THEN /\ got' = [got EXCEPT ![s] = @ + 1]
                               /\ Becomes(s, "yielded") /\ UNCHANGED jobs
       ELSE Becomes(s, "joining") /\ Submit(<<s, "join">>) /\ UNCHANGED got
    /\ UNCHANGED <<thread, failed, made>>

(* thread.join(5.0) returns, be it after the five seconds. *)
JoinReturns(s) ==
    /\ <<s, "join">> \in busy
    /\ busy' = busy \ {<<s, "join">>}
    /\ reader' = [reader EXCEPT ![s] = CASE @ = "joining" -> "complete"
                                         [] @ = "leaving" -> "gone"
                                         [] OTHER         -> @]
    /\ UNCHANGED <<thread, failed, queue, got, made, jobs>>
-----------------------------------------------------------------------------
StreamInit ==
    /\ thread = [s \in Streams |-> "none"]
    /\ failed = {}
    /\ queue = [s \in Streams |-> <<>>]
    /\ reader = [s \in Streams |-> "idle"]
    /\ got = [s \in Streams |-> 0]
    /\ made = [s \in Streams |-> 0]
    /\ jobs = <<>> /\ busy = {}

Generates(s) == Put(s) \/ Generated(s) \/ GenerateRaises(s) \/ Finally(s)
Returns(s) == NextReturns(s) \/ JoinReturns(s)

StreamNext ==
    \/ \E s \in Streams : Generates(s) \/ Returns(s) \/ Begin(s) \/ Taken(s) \/ Cancelled(s)
    \/ Starts

(* Threads run, generate makes its tokens or raises, and a client takes what *)
(* it is sent or goes away.                                                *)
StreamFairness ==
    /\ \A s \in Streams :
         /\ WF_streamVars(Generates(s))
         /\ WF_streamVars(Returns(s))
         /\ WF_streamVars(Taken(s) \/ Cancelled(s))
    /\ WF_streamVars(Starts)

StreamSpec == StreamInit /\ [][StreamNext]_streamVars
-----------------------------------------------------------------------------
(* Properties *)

(* A stream that has ended for its client has given it the whole reply: all  *)
(* that generate had put when it returned or raised and the rest that end()  *)
(* flushes, no more and no less, although end() is called twice and the stop *)
(* signal travels with the text (llm_gemma.py:282-291).                     *)
ReplyWhole == \A s \in Streams : reader[s] \in {"joining", "complete"} => got[s] = made[s]

(* llm_gemma.py:279: no next(streamer) blocks for ever, also that of a       *)
(* client that has left: every stream ends, and the executor, whose threads  *)
(* all streams share, gets every thread back.                               *)
StreamsEnd == \A s \in Streams : reader[s] = "asking" ~> reader[s] \in {"complete", "gone"}
ThreadsReturn == jobs # <<>> \/ busy # {} ~> jobs = <<>> /\ busy = {}

(* main.py:140, "error: a stage failed, transcribe, stream or media": a      *)
(* reply whose generation failed does not end like one that is complete.    *)
FailureReported == \A s \in failed : reader[s] # "complete"
=============================================================================
