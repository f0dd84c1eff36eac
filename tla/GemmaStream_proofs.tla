-------------------------- MODULE GemmaStream_proofs --------------------------
(* Theorems about GemmaStream.  The client of a stream that ended has got the *)
(* whole reply, whatever generate did and whoever was cancelled.             *)
EXTENDS GemmaStream, SequenceTheorems, TLAPS

-----------------------------------------------------------------------------
(* The executor's queue *)

None(q, c) == \A i \in DOMAIN q : q[i] # c
AtMostOnce(q, c) == \A i, j \in DOMAIN q : q[i] = c /\ q[j] = c => i = j

(* A call that is submitted is in the queue once more, any other as before.  *)
LEMMA SubmitOnce ==
    ASSUME NEW J, NEW q \in Seq(J), NEW d \in J
    PROVE  /\ Append(q, d) \in Seq(J)
           /\ None(q, d) => AtMostOnce(Append(q, d), d)
           /\ \A c : c # d => /\ None(q, c) => None(Append(q, d), c)
                              /\ AtMostOnce(q, c) => AtMostOnce(Append(q, d), c)
<1>1. /\ Append(q, d) \in Seq(J) /\ Len(q) \in Nat
      /\ DOMAIN q = 1 .. Len(q) /\ DOMAIN Append(q, d) = 1 .. Len(q) + 1
      /\ \A i \in 1 .. Len(q) : Append(q, d)[i] = q[i]
      /\ Append(q, d)[Len(q) + 1] = d
  OBVIOUS
<1> DEFINE p == Append(q, d)
<1> HIDE DEF p
<1>2. /\ Len(q) \in Nat
      /\ DOMAIN q = 1 .. Len(q) /\ DOMAIN p = 1 .. Len(q) + 1
      /\ \A i \in 1 .. Len(q) : p[i] = q[i]
      /\ p[Len(q) + 1] = d
  BY <1>1 DEF p
<1>3. None(q, d) => AtMostOnce(p, d)
  BY <1>2 DEF None, AtMostOnce
<1>4. ASSUME NEW c, c # d
      PROVE  /\ None(q, c) => None(p, c)
             /\ AtMostOnce(q, c) => AtMostOnce(p, c)
  BY <1>2, <1>4 DEF None, AtMostOnce
<1> QED
  BY <1>1, <1>3, <1>4 DEF p

(* A call that gets a thread leaves the queue. *)
LEMMA TakeOnce ==
    ASSUME NEW J, NEW q \in Seq(J), q # <<>>
    PROVE  /\ Tail(q) \in Seq(J) /\ Head(q) \in J
           /\ \A c : /\ None(q, c) => None(Tail(q), c) /\ Head(q) # c
                     /\ AtMostOnce(q, c) => AtMostOnce(Tail(q), c)
                     /\ AtMostOnce(q, c) /\ Head(q) = c => None(Tail(q), c)
<1>1. /\ Tail(q) \in Seq(J) /\ Head(q) \in J /\ Len(q) \in Nat /\ Len(q) > 0
      /\ DOMAIN q = 1 .. Len(q) /\ DOMAIN Tail(q) = 1 .. Len(q) - 1
      /\ \A i \in 1 .. Len(q) - 1 : Tail(q)[i] = q[i + 1]
      /\ Head(q) = q[1]
  OBVIOUS
<1> DEFINE p == Tail(q)
<1> HIDE DEF p
<1>2. /\ Len(q) \in Nat /\ Len(q) > 0
      /\ DOMAIN q = 1 .. Len(q) /\ DOMAIN p = 1 .. Len(q) - 1
      /\ \A i \in 1 .. Len(q) - 1 : p[i] = q[i + 1]
      /\ Head(q) = q[1]
  BY <1>1 DEF p
<1>3. ASSUME NEW c
      PROVE  /\ None(q, c) => None(p, c) /\ Head(q) # c
             /\ AtMostOnce(q, c) => AtMostOnce(p, c)
             /\ AtMostOnce(q, c) /\ Head(q) = c => None(p, c)
  <2>1. \A i \in DOMAIN p : i + 1 \in DOMAIN q /\ p[i] = q[i + 1]
    BY <1>2
  <2>2. 1 \in DOMAIN q /\ \A i \in DOMAIN p : i \in Int /\ i + 1 # 1
    BY <1>2
  <2>3. AtMostOnce(q, c) => AtMostOnce(p, c)
    <3> SUFFICES ASSUME AtMostOnce(q, c), NEW i \in DOMAIN p, NEW j \in DOMAIN p,
                        p[i] = c, p[j] = c
                 PROVE  i = j
      BY DEF AtMostOnce
    <3>1. i + 1 = j + 1
      BY <2>1 DEF AtMostOnce
    <3> QED
      BY <2>2, <3>1
  <2>4. AtMostOnce(q, c) /\ Head(q) = c => None(p, c)
    BY <1>2, <2>1, <2>2 DEF AtMostOnce, None
  <2>5. None(q, c) => None(p, c) /\ Head(q) # c
    BY <1>2, <2>1, <2>2 DEF None
  <2> QED
    BY <2>3, <2>4, <2>5
<1> QED
  BY <1>1, <1>3 DEF p

(* Withdrawing a call moves the others up. *)
LEMMA WithdrawOnce ==
    ASSUME NEW J, jobs \in Seq(J), NEW s
    PROVE  /\ Withdrawn(s) \in Seq(J)
           /\ \A c : /\ None(jobs, c) => None(Withdrawn(s), c)
                     /\ AtMostOnce(jobs, c) => AtMostOnce(Withdrawn(s), c)
<1> DEFINE mine == {i \in DOMAIN jobs : jobs[i][1] = s}
           r == CHOOSE i \in mine : TRUE
           p == SubSeq(jobs, 1, r - 1) \o SubSeq(jobs, r + 1, Len(jobs))
<1>1. CASE mine = {}
  BY <1>1 DEF Withdrawn
<1>2. CASE mine # {}
  <2>1. r \in DOMAIN jobs
    BY <1>2
  <2>2. Withdrawn(s) = p
    BY <1>2 DEF Withdrawn, RemoveAt
  <2> HIDE DEF mine, r
  <2>3. /\ Len(jobs) \in Nat /\ r \in Nat /\ r > 0 /\ r <= Len(jobs)
        /\ DOMAIN jobs = 1 .. Len(jobs)
    BY <2>1
  <2>4. /\ SubSeq(jobs, 1, r - 1) \in Seq(J) /\ Len(SubSeq(jobs, 1, r - 1)) = r - 1
        /\ \A i \in 1 .. r - 1 : SubSeq(jobs, 1, r - 1)[i] = jobs[i]
    <3>1. \A i \in 1 .. r - 1 : jobs[i] \in J /\ 1 + i - 1 = i
      BY <2>3
    <3> QED
      BY <2>3, <3>1, SubSeqProperties
  <2>5. /\ SubSeq(jobs, r + 1, Len(jobs)) \in Seq(J)
        /\ Len(SubSeq(jobs, r + 1, Len(jobs))) = Len(jobs) - r
        /\ \A i \in 1 .. Len(jobs) - r : SubSeq(jobs, r + 1, Len(jobs))[i] = jobs[i + r]
    <3>1. \A a, b \in Nat : a <= b =>
            /\ a + 1 \in Int /\ b \in Int /\ b - (a + 1) + 1 = b - a
            /\ \A i \in 1 .. b - a : a + 1 + i - 1 = i + a
            /\ ~(a + 1 <= b) => b - a = 0
      OBVIOUS
    <3>2. \A i \in r + 1 .. Len(jobs) : jobs[i] \in J
      <4>1. \A i \in r + 1 .. Len(jobs) : i \in 1 .. Len(jobs)
        BY <2>3
      <4> QED
        BY <2>3, <4>1
    <3>3. /\ r + 1 \in Int /\ Len(jobs) \in Int /\ Len(jobs) - (r + 1) + 1 = Len(jobs) - r
          /\ \A i \in 1 .. Len(jobs) - r : r + 1 + i - 1 = i + r
          /\ ~(r + 1 <= Len(jobs)) => Len(jobs) - r = 0
      BY <2>3, <3>1
    <3> QED
      BY <3>2, <3>3, SubSeqProperties
  <2>6. /\ p \in Seq(J) /\ DOMAIN p = 1 .. Len(jobs) - 1
        /\ \A i \in 1 .. Len(jobs) - 1 : p[i] = IF i < r THEN jobs[i] ELSE jobs[i + 1]
    <3> DEFINE a == SubSeq(jobs, 1, r - 1)
               b == SubSeq(jobs, r + 1, Len(jobs))
    <3>1. /\ a \in Seq(J) /\ Len(a) = r - 1 /\ \A i \in 1 .. r - 1 : a[i] = jobs[i]
          /\ b \in Seq(J) /\ Len(b) = Len(jobs) - r
          /\ \A i \in 1 .. Len(jobs) - r : b[i] = jobs[i + r]
      BY <2>4, <2>5
    <3> HIDE DEF a, b
    <3>2. /\ a \o b \in Seq(J) /\ Len(a \o b) = Len(jobs) - 1
          /\ \A i \in 1 .. Len(jobs) - 1 :
                (a \o b)[i] = IF i <= r - 1 THEN a[i] ELSE b[i - (r - 1)]
      <4>1. (r - 1) + (Len(jobs) - r) = Len(jobs) - 1
        BY <2>3
      <4> QED
        BY <3>1, <4>1, ConcatProperties
    <3>3. DOMAIN (a \o b) = 1 .. Len(jobs) - 1
      BY <3>2
    <3>4. ASSUME NEW i \in 1 .. Len(jobs) - 1
          PROVE  (a \o b)[i] = IF i < r THEN jobs[i] ELSE jobs[i + 1]
      <4>1. CASE i < r
        BY <2>3, <3>1, <3>2, <4>1
      <4>2. CASE ~(i < r)
        <5>1. i - (r - 1) \in 1 .. Len(jobs) - r /\ (i - (r - 1)) + r = i + 1
              /\ ~(i <= r - 1)
          BY <2>3, <4>2
        <5> QED
          BY <3>1, <3>2, <4>2, <5>1
      <4> QED
        BY <4>1, <4>2
    <3> QED
      BY <3>2, <3>3, <3>4 DEF a, b
  <2> HIDE DEF p
  <2> DEFINE up(i) == IF i < r THEN i ELSE i + 1
  <2>7. \A i \in DOMAIN p : up(i) \in DOMAIN jobs /\ p[i] = jobs[up(i)] /\ i \in Int
    BY <2>3, <2>6
  <2>8. \A i, j \in DOMAIN p : up(i) = up(j) => i = j
    BY <2>3, <2>7
  <2> HIDE DEF up
  <2>9. ASSUME NEW c
        PROVE  /\ None(jobs, c) => None(p, c)
               /\ AtMostOnce(jobs, c) => AtMostOnce(p, c)
    BY <2>7, <2>8 DEF None, AtMostOnce
  <2> QED
    BY <2>2, <2>6, <2>9
<1> QED
  BY <1>1, <1>2
-----------------------------------------------------------------------------
(* The inductive invariant *)

StreamShape ==
    /\ thread \in [Streams -> {"none", "generating", "finally", "over"}]
    /\ failed \subseteq Streams
    /\ queue \in [Streams -> Seq(Pieces \cup {"stop"})]
    /\ reader \in [Streams -> {"idle", "asking", "yielded", "joining", "complete",
                               "leaving", "gone"}]
    /\ got \in [Streams -> Nat] /\ made \in [Streams -> Nat]
    /\ jobs \in Seq(Streams \X {"next", "join"})
    /\ busy \subseteq Streams \X {"next", "join"}

(* The call with which s asks for its next piece. *)
Ask(s) == <<s, "next">>

(* A stream that asks has one call, in the queue or in a thread; one that     *)
(* does not ask yet or has been answered has none.                           *)
CallInv(s) ==
    /\ reader[s] \in {"idle", "yielded"} => Ask(s) \notin busy /\ None(jobs, Ask(s))
    /\ reader[s] = "asking" => /\ Ask(s) \in busy => None(jobs, Ask(s))
                               /\ AtMostOnce(jobs, Ask(s))

(* generate and its end() are over for the reply: end() has been called. *)
Stopped(s) == thread[s] = "over" \/ (thread[s] = "finally" /\ s \notin failed)

(* k is where the first stop signal of s is. *)
StopsAt(s, k) ==
    /\ k \in DOMAIN queue[s] /\ queue[s][k] = "stop"
    /\ \A i \in DOMAIN queue[s] : i < k => queue[s][i] # "stop"

(* What a client has got and what lies before the first stop signal is what   *)
(* has been made; there is a stop signal as soon as nothing more is made.    *)
ReplyInv(s) ==
    /\ thread[s] = "none" <=> reader[s] = "idle"
    /\ reader[s] = "idle" => queue[s] = <<>> /\ got[s] = 0 /\ made[s] = 0
    /\ thread[s] \in {"none", "generating"} => s \notin failed
    /\ reader[s] \in {"asking", "yielded"} /\ Stopped(s) =>
          \E k \in DOMAIN queue[s] : StopsAt(s, k) /\ made[s] = got[s] + (k - 1)
    /\ reader[s] \in {"asking", "yielded"} /\ ~Stopped(s) =>
          None(queue[s], "stop") /\ made[s] = got[s] + Len(queue[s])
    /\ reader[s] \in {"joining", "complete"} => Stopped(s) /\ got[s] = made[s]

(* A step that leaves the reader, the calls and busy of t alone. *)
LEMMA ReplyUntouched ==
    ASSUME NEW t, ReplyInv(t),
           thread'[t] = thread[t], queue'[t] = queue[t], reader'[t] = reader[t],
           got'[t] = got[t], made'[t] = made[t], t \in failed' <=> t \in failed
    PROVE  ReplyInv(t)'
BY DEF ReplyInv, Stopped, StopsAt, None

(* Nothing is asked, got or made in the beginning. *)
LEMMA StreamInitInv ==
    StreamInit => StreamShape /\ \A s \in Streams : CallInv(s) /\ ReplyInv(s)
<1> SUFFICES ASSUME StreamInit
             PROVE  StreamShape /\ \A s \in Streams : CallInv(s) /\ ReplyInv(s)
  OBVIOUS
<1>1. StreamShape
  BY DEF StreamInit, StreamShape
<1>2. DOMAIN jobs = {}
  BY DEF StreamInit
<1> QED
  BY <1>1, <1>2 DEF StreamInit, CallInv, ReplyInv, None
-----------------------------------------------------------------------------
(* The thread of generate *)

(* end() adds a piece and the stop signal behind what is in the queue. *)
LEMMA EndEffect ==
    ASSUME NEW q \in Seq(Pieces \cup {"stop"}), NEW p \in Pieces
    PROVE  /\ q \o <<p, "stop">> \in Seq(Pieces \cup {"stop"})
           /\ Len(q) \in Nat /\ DOMAIN q = 1 .. Len(q)
           /\ DOMAIN (q \o <<p, "stop">>) = 1 .. Len(q) + 2
           /\ \A i \in 1 .. Len(q) : (q \o <<p, "stop">>)[i] = q[i]
           /\ (q \o <<p, "stop">>)[Len(q) + 1] = p
           /\ (q \o <<p, "stop">>)[Len(q) + 2] = "stop"
           /\ p # "stop"
<1> DEFINE r == <<p, "stop">>
<1>1. r \in Seq(Pieces \cup {"stop"}) /\ Len(r) = 2 /\ r[1] = p /\ r[2] = "stop"
  OBVIOUS
<1>2. p # "stop"
  BY DEF Pieces
<1>3. Len(q) \in Nat /\ DOMAIN q = 1 .. Len(q)
  OBVIOUS
<1> HIDE DEF r
<1>4. /\ q \o r \in Seq(Pieces \cup {"stop"})
      /\ Len(q \o r) = Len(q) + 2
      /\ \A i \in 1 .. Len(q) + 2 : (q \o r)[i] = IF i <= Len(q) THEN q[i] ELSE r[i - Len(q)]
  <2>1. Len(q \o r) = Len(q) + Len(r) /\ Len(q) + Len(r) = Len(q) + 2
    BY <1>1, ConcatProperties
  <2> QED
    BY <1>1, <2>1, ConcatProperties
<1>5. DOMAIN (q \o r) = 1 .. Len(q) + 2
  BY <1>3, <1>4
<1>6. /\ \A i \in 1 .. Len(q) : (q \o r)[i] = q[i]
      /\ (q \o r)[Len(q) + 1] = p
      /\ (q \o r)[Len(q) + 2] = "stop"
  BY <1>1, <1>3, <1>4
<1> QED
  BY <1>2, <1>3, <1>4, <1>5, <1>6 DEF r

(* Whatever the thread of s does, the queue and the counts stay in step. *)
LEMMA GeneratesStep ==
    ASSUME StreamShape, NEW s \in Streams, Generates(s),
           \A t \in Streams : CallInv(t) /\ ReplyInv(t)
    PROVE  StreamShape' /\ \A t \in Streams : CallInv(t)' /\ ReplyInv(t)'
<1> DEFINE q == queue[s]
<1>0. /\ q \in Seq(Pieces \cup {"stop"}) /\ Len(q) \in Nat /\ DOMAIN q = 1 .. Len(q)
      /\ got[s] \in Nat /\ made[s] \in Nat
      /\ ReplyInv(s)
  BY DEF StreamShape
<1> HIDE DEF q
<1>1. /\ UNCHANGED <<reader, got, jobs, busy>>
      /\ \A t \in Streams \ {s} :
            /\ thread'[t] = thread[t] /\ queue'[t] = queue[t] /\ made'[t] = made[t]
            /\ t \in failed' <=> t \in failed
  BY DEF Generates, Put, Generated, GenerateRaises, Finally, End, StreamShape
<1>2. \A t \in Streams : CallInv(t)'
  BY <1>1 DEF CallInv
<1>3. \A t \in Streams \ {s} : ReplyInv(t)'
  BY <1>1, ReplyUntouched
<1>4. ASSUME Put(s) PROVE StreamShape' /\ ReplyInv(s)'
  <2>1. PICK p \in Pieces : queue' = [queue EXCEPT ![s] = Append(@, p)]
    BY <1>4 DEF Put
  <2>2. /\ queue'[s] = Append(q, p) /\ made'[s] = made[s] + 1 /\ thread'[s] = "generating"
        /\ thread[s] = "generating" /\ s \notin failed' /\ s \notin failed
    BY <1>0, <1>4, <2>1 DEF Put, StreamShape, ReplyInv, q
  <2>3. /\ Append(q, p) \in Seq(Pieces \cup {"stop"}) /\ Len(Append(q, p)) = Len(q) + 1
        /\ None(q, "stop") => None(Append(q, p), "stop")
    BY <1>0 DEF None, Pieces
  <2>4. StreamShape'
    BY <1>0, <1>1, <1>4, <2>1, <2>2, <2>3 DEF StreamShape, Put, q
  <2>5. ~Stopped(s) /\ ~Stopped(s)'
    BY <2>2 DEF Stopped
  <2> QED
    BY <1>0, <1>1, <2>2, <2>3, <2>4, <2>5 DEF ReplyInv, q
<1>5. ASSUME NEW p \in Pieces, End(s, p), ~Stopped(s), thread[s] \in {"generating", "finally"},
             thread' = [thread EXCEPT ![s] = IF thread[s] = "generating" THEN "finally" ELSE "over"],
             failed' = failed
      PROVE  StreamShape' /\ ReplyInv(s)'
  <2>1. thread[s] = "generating" \/ s \in failed
    BY <1>5 DEF Stopped
  <2>2. /\ queue' = [queue EXCEPT ![s] = q \o <<p, "stop">>]
        /\ made' = [made EXCEPT ![s] = @ + 1]
    BY <1>5, <2>1 DEF End, q
  <2>3. /\ queue'[s] = q \o <<p, "stop">> /\ made'[s] = made[s] + 1
        /\ thread'[s] = IF thread[s] = "generating" THEN "finally" ELSE "over"
    BY <1>5, <2>2 DEF StreamShape
  <2>4. StreamShape'
    BY <1>0, <1>1, <1>5, <2>2, EndEffect DEF StreamShape
  <2>5. Stopped(s)' /\ thread[s] # "none" /\ thread'[s] \notin {"none", "generating"}
    BY <1>0, <1>5, <2>3 DEF Stopped, ReplyInv
  <2>6. ASSUME reader[s] \in {"asking", "yielded"}
        PROVE  \E k \in DOMAIN queue'[s] : StopsAt(s, k)' /\ made'[s] = got'[s] + (k - 1)
    <3>1. None(q, "stop") /\ made[s] = got[s] + Len(q)
      BY <1>0, <1>5, <2>6 DEF ReplyInv, q
    <3>2. /\ DOMAIN queue'[s] = 1 .. Len(q) + 2
          /\ queue'[s][Len(q) + 2] = "stop"
          /\ \A i \in 1 .. Len(q) + 1 : queue'[s][i] # "stop"
      <4>1. \A i \in 1 .. Len(q) + 1 : i \in 1 .. Len(q) \/ i = Len(q) + 1
        BY <1>0
      <4>2. \A i \in 1 .. Len(q) : q[i] # "stop"
        BY <1>0, <3>1 DEF None
      <4> QED
        BY <1>0, <2>3, <4>1, <4>2, EndEffect
    <3>3. made'[s] = got'[s] + ((Len(q) + 2) - 1) /\ Len(q) + 2 \in 1 .. Len(q) + 2
      BY <1>0, <1>1, <2>3, <3>1
    <3>4. \A i \in 1 .. Len(q) + 2 : i < Len(q) + 2 => i \in 1 .. Len(q) + 1
      BY <1>0
    <3> QED
      BY <3>2, <3>3, <3>4 DEF StopsAt
  <2>7. reader[s] \notin {"idle", "joining", "complete"}
    BY <1>0, <1>5, <2>5 DEF ReplyInv
  <2> QED
    BY <1>1, <2>4, <2>5, <2>6, <2>7 DEF ReplyInv
<1>6. ASSUME Generated(s) PROVE StreamShape' /\ ReplyInv(s)'
  <2>1. thread[s] = "generating" /\ ~Stopped(s)
    BY <1>6 DEF Generated, Stopped
  <2> QED
    BY <1>5, <1>6, <2>1 DEF Generated
<1>7. ASSUME GenerateRaises(s) PROVE StreamShape' /\ ReplyInv(s)'
  <2>1. /\ thread[s] = "generating" /\ thread'[s] = "finally" /\ s \in failed'
        /\ UNCHANGED <<queue, reader, got, made, jobs, busy>>
    BY <1>7 DEF GenerateRaises, StreamShape
  <2>2. StreamShape'
    BY <1>7 DEF GenerateRaises, StreamShape
  <2>3. ~Stopped(s) /\ ~Stopped(s)'
    BY <2>1 DEF Stopped
  <2> QED
    BY <1>0, <2>1, <2>2, <2>3 DEF ReplyInv
<1>8. ASSUME Finally(s) PROVE StreamShape' /\ ReplyInv(s)'
  <2>1. PICK p \in Pieces : End(s, p)
    BY <1>8 DEF Finally, Pieces
  <2>2. thread[s] = "finally" /\ thread' = [thread EXCEPT ![s] = "over"] /\ failed' = failed
    BY <1>8 DEF Finally
  <2>3. CASE ~Stopped(s)
    BY <1>5, <2>1, <2>2, <2>3
  <2>4. CASE Stopped(s)
    <3>1. queue' = [queue EXCEPT ![s] = q \o <<p, "stop">>] /\ made' = made
      BY <2>1, <2>2, <2>4 DEF End, Stopped, q
    <3>2. queue'[s] = q \o <<p, "stop">> /\ thread'[s] = "over" /\ Stopped(s)'
      BY <2>2, <3>1 DEF StreamShape, Stopped
    <3>3. StreamShape'
      BY <1>0, <1>1, <2>2, <3>1, EndEffect DEF StreamShape
    <3>4. ASSUME NEW k \in DOMAIN queue[s], StopsAt(s, k)
          PROVE  k \in DOMAIN queue'[s] /\ StopsAt(s, k)'
      <4>1. /\ k \in 1 .. Len(q) /\ q[k] = "stop" /\ \A i \in 1 .. Len(q) : i < k => q[i] # "stop"
        BY <1>0, <3>4 DEF StopsAt, q
      <4>2. /\ DOMAIN queue'[s] = 1 .. Len(q) + 2
            /\ \A i \in 1 .. Len(q) : queue'[s][i] = q[i]
        BY <1>0, <3>2, EndEffect
      <4>3. /\ k \in 1 .. Len(q) + 2
            /\ \A i \in 1 .. Len(q) + 2 : i < k => i \in 1 .. Len(q)
        BY <1>0, <4>1
      <4> QED
        BY <4>1, <4>2, <4>3 DEF StopsAt
    <3> QED
      BY <1>0, <1>1, <2>2, <2>4, <3>1, <3>2, <3>3, <3>4 DEF ReplyInv
  <2> QED
    BY <2>3, <2>4
<1> QED
  BY <1>2, <1>3, <1>4, <1>6, <1>7, <1>8 DEF Generates
-----------------------------------------------------------------------------
(* The reader and the executor *)

(* The calls of the streams, after a step that leaves those of the others    *)
(* than s as they were or takes some away.                                   *)
LEMMA CallsOfOthers ==
    ASSUME NEW s \in Streams, NEW t \in Streams \ {s}, CallInv(t), reader'[t] = reader[t],
           Ask(t) \in busy' <=> Ask(t) \in busy,
           None(jobs, Ask(t)) => None(jobs, Ask(t))',
           AtMostOnce(jobs, Ask(t)) => AtMostOnce(jobs, Ask(t))'
    PROVE  CallInv(t)'
BY DEF CallInv, Ask

(* The steps of the reader keep every reply whole. *)
LEMMA ReaderStep ==
    ASSUME StreamShape, NEW s \in Streams, Begin(s) \/ Taken(s) \/ Cancelled(s),
           \A t \in Streams : CallInv(t) /\ ReplyInv(t)
    PROVE  StreamShape' /\ \A t \in Streams : CallInv(t)' /\ ReplyInv(t)'
<1> DEFINE J == Streams \X {"next", "join"}
<1>0. /\ jobs \in Seq(J) /\ <<s, "next">> \in J /\ <<s, "join">> \in J
      /\ Ask(s) = <<s, "next">>
      /\ \A t \in Streams : Ask(t) # <<s, "join">> /\ (t # s => Ask(t) # <<s, "next">>)
      /\ CallInv(s) /\ ReplyInv(s)
  BY DEF StreamShape, Ask
<1> HIDE DEF J
<1>1. ASSUME Begin(s) \/ Taken(s)
      PROVE  StreamShape' /\ \A t \in Streams : CallInv(t)' /\ ReplyInv(t)'
  <2>1. /\ reader[s] \in {"idle", "yielded"} /\ reader' = [reader EXCEPT ![s] = "asking"]
        /\ jobs' = Append(jobs, <<s, "next">>)
        /\ UNCHANGED <<failed, queue, got, made, busy>>
    BY <1>1 DEF Begin, Taken, Becomes, Submit
  <2>2. /\ reader'[s] = "asking" /\ \A t \in Streams \ {s} : reader'[t] = reader[t]
        /\ \A t \in Streams \ {s} : thread'[t] = thread[t]
        /\ IF reader[s] = "idle" THEN thread'[s] = "generating" ELSE thread'[s] = thread[s]
    BY <1>1, <2>1 DEF StreamShape, Begin, Taken
  <2>3. StreamShape'
    <3>1. jobs' \in Seq(J)
      BY <1>0, <2>1, SubmitOnce
    <3>2. thread' \in [Streams -> {"none", "generating", "finally", "over"}]
      BY <1>1 DEF Begin, Taken, StreamShape
    <3>3. reader' \in [Streams -> {"idle", "asking", "yielded", "joining", "complete",
                                   "leaving", "gone"}]
      BY <2>1 DEF StreamShape
    <3> QED
      BY <2>1, <3>1, <3>2, <3>3 DEF StreamShape, J
  <2>4. CallInv(s)'
    <3>1. Ask(s) \notin busy /\ None(jobs, Ask(s))
      BY <1>0, <2>1 DEF CallInv
    <3>2. AtMostOnce(jobs', Ask(s))
      BY <1>0, <2>1, <3>1, SubmitOnce
    <3> QED
      BY <2>1, <2>2, <3>1, <3>2 DEF CallInv, Ask, AtMostOnce
  <2>5. ASSUME NEW t \in Streams \ {s} PROVE CallInv(t)'
    <3>1. /\ None(jobs, Ask(t)) => None(jobs', Ask(t))
          /\ AtMostOnce(jobs, Ask(t)) => AtMostOnce(jobs', Ask(t))
      BY <1>0, <2>1, SubmitOnce
    <3>2. Ask(t)' = Ask(t)
      BY DEF Ask
    <3> QED
      BY <2>1, <2>2, <3>1, <3>2, CallsOfOthers DEF None, AtMostOnce
  <2>6. ReplyInv(s)'
    <3>1. CASE reader[s] = "yielded"
      <4>1. Stopped(s)' <=> Stopped(s)
        BY <2>1, <2>2, <3>1 DEF Stopped
      <4> QED
        BY <1>0, <2>1, <2>2, <3>1, <4>1 DEF ReplyInv, StopsAt, None
    <3>2. CASE reader[s] = "idle"
      <4>1. /\ queue'[s] = <<>> /\ got'[s] = 0 /\ made'[s] = 0 /\ s \notin failed'
            /\ ~Stopped(s)' /\ thread'[s] = "generating"
        BY <1>0, <2>1, <2>2, <3>2 DEF ReplyInv, Stopped
      <4>2. None(queue'[s], "stop") /\ Len(queue'[s]) = 0
        BY <4>1 DEF None
      <4> QED
        BY <2>2, <4>1, <4>2 DEF ReplyInv, None
    <3> QED
      BY <2>1, <3>1, <3>2
  <2>7. \A t \in Streams \ {s} : ReplyInv(t)'
    BY <2>1, <2>2, ReplyUntouched
  <2> QED
    BY <2>3, <2>4, <2>5, <2>6, <2>7
<1>2. ASSUME Cancelled(s)
      PROVE  StreamShape' /\ \A t \in Streams : CallInv(t)' /\ ReplyInv(t)'
  <2> DEFINE kept == Withdrawn(s)
  <2>1. /\ kept \in Seq(J)
        /\ \A c : /\ None(jobs, c) => None(kept, c)
                  /\ AtMostOnce(jobs, c) => AtMostOnce(kept, c)
    BY <1>0, WithdrawOnce
  <2>2. /\ reader[s] # "idle"
        /\ jobs' = kept \/ jobs' = Append(kept, <<s, "join">>)
        /\ \E st \in {"leaving", "gone"} : reader' = [reader EXCEPT ![s] = st]
        /\ UNCHANGED <<thread, failed, queue, got, made, busy>>
    BY <1>2 DEF Cancelled, Becomes
  <2> HIDE DEF kept
  <2>3. /\ reader'[s] \in {"leaving", "gone"}
        /\ \A t \in Streams \ {s} : reader'[t] = reader[t]
    BY <2>2 DEF StreamShape
  <2>4. /\ jobs' \in Seq(J)
        /\ \A t \in Streams : /\ None(jobs, Ask(t)) => None(jobs', Ask(t))
                              /\ AtMostOnce(jobs, Ask(t)) => AtMostOnce(jobs', Ask(t))
    <3>1. CASE jobs' = kept
      BY <2>1, <3>1
    <3>2. CASE jobs' = Append(kept, <<s, "join">>)
      <4>1. /\ jobs' \in Seq(J)
            /\ \A c : c # <<s, "join">> =>
                  /\ None(kept, c) => None(jobs', c)
                  /\ AtMostOnce(kept, c) => AtMostOnce(jobs', c)
        BY <1>0, <2>1, <3>2, SubmitOnce
      <4> QED
        BY <1>0, <2>1, <4>1
    <3> QED
      BY <2>2, <3>1, <3>2
  <2>5. StreamShape'
    BY <2>2, <2>4 DEF StreamShape, J
  <2>6. ASSUME NEW t \in Streams \ {s} PROVE CallInv(t)'
    <3>1. Ask(t)' = Ask(t)
      BY DEF Ask
    <3> QED
      BY <2>2, <2>3, <2>4, <3>1, CallsOfOthers DEF None, AtMostOnce
  <2>7. CallInv(s)' /\ ReplyInv(s)'
    <3>1. thread'[s] = thread[s] /\ (s \in failed' <=> s \in failed)
      BY <2>2
    <3> QED
      BY <1>0, <2>2, <2>3, <3>1 DEF CallInv, ReplyInv
  <2>8. \A t \in Streams \ {s} : ReplyInv(t)'
    BY <2>2, <2>3, ReplyUntouched
  <2> QED
    BY <2>5, <2>6, <2>7, <2>8
<1> QED
  BY <1>1, <1>2

(* The steps of the executor's threads do too. *)
LEMMA StartsStep ==
    ASSUME StreamShape, Starts, \A t \in Streams : CallInv(t) /\ ReplyInv(t)
    PROVE  StreamShape' /\ \A t \in Streams : CallInv(t)' /\ ReplyInv(t)'
<1> DEFINE J == Streams \X {"next", "join"}
<1>1. /\ jobs \in Seq(J) /\ jobs # <<>> /\ jobs' = Tail(jobs) /\ busy' = busy \cup {Head(jobs)}
      /\ UNCHANGED <<thread, failed, queue, reader, got, made>>
  BY DEF Starts, StreamShape
<1>2. jobs' \in Seq(J) /\ Head(jobs) \in J
  BY <1>1, TakeOnce
<1>3. StreamShape'
  BY <1>1, <1>2 DEF StreamShape
<1>4. ASSUME NEW t \in Streams PROVE CallInv(t)'
  <2>1. /\ None(jobs, Ask(t)) => None(jobs', Ask(t)) /\ Head(jobs) # Ask(t)
        /\ AtMostOnce(jobs, Ask(t)) => AtMostOnce(jobs', Ask(t))
        /\ AtMostOnce(jobs, Ask(t)) /\ Head(jobs) = Ask(t) => None(jobs', Ask(t))
    BY <1>1, TakeOnce
  <2>2. Ask(t)' = Ask(t) /\ None(jobs, Ask(t))' = None(jobs', Ask(t))
        /\ AtMostOnce(jobs, Ask(t))' = AtMostOnce(jobs', Ask(t))
    BY DEF Ask, None, AtMostOnce
  <2>3. CallInv(t)
    OBVIOUS
  <2> QED
    BY <1>1, <2>1, <2>2, <2>3 DEF CallInv
<1>5. ASSUME NEW t \in Streams PROVE ReplyInv(t)'
  BY <1>1, ReplyUntouched
<1> QED
  BY <1>3, <1>4, <1>5

(* A piece that is taken from the queue is one that was made, the stop signal *)
(* the first of the stop signals.                                           *)
LEMMA ReturnsStep ==
    ASSUME StreamShape, NEW s \in Streams, Returns(s),
           \A t \in Streams : CallInv(t) /\ ReplyInv(t)
    PROVE  StreamShape' /\ \A t \in Streams : CallInv(t)' /\ ReplyInv(t)'
<1> DEFINE J == Streams \X {"next", "join"}
           q == queue[s]
<1>0. /\ jobs \in Seq(J) /\ <<s, "next">> \in J /\ <<s, "join">> \in J
      /\ Ask(s) = <<s, "next">>
      /\ \A t \in Streams : Ask(t) # <<s, "join">> /\ (t # s => Ask(t) # <<s, "next">>)
      /\ CallInv(s) /\ ReplyInv(s)
      /\ q \in Seq(Pieces \cup {"stop"}) /\ got[s] \in Nat /\ made[s] \in Nat
      /\ reader[s] \in {"idle", "asking", "yielded", "joining", "complete", "leaving", "gone"}
  BY DEF StreamShape, Ask
<1> HIDE DEF J, q
<1>1. ASSUME NextReturns(s)
      PROVE  StreamShape' /\ \A t \in Streams : CallInv(t)' /\ ReplyInv(t)'
  <2>1. /\ Ask(s) \in busy /\ q # <<>>
        /\ queue' = [queue EXCEPT ![s] = Tail(q)] /\ busy' = busy \ {Ask(s)}
        /\ UNCHANGED <<thread, failed, made>>
    BY <1>0, <1>1 DEF NextReturns, q
  <2>2. \/ reader[s] # "asking" /\ UNCHANGED <<reader, got, jobs>>
        \/ /\ reader[s] = "asking" /\ Head(q) # "stop" /\ jobs' = jobs
           /\ got' = [got EXCEPT ![s] = @ + 1] /\ reader' = [reader EXCEPT ![s] = "yielded"]
        \/ /\ reader[s] = "asking" /\ Head(q) = "stop" /\ got' = got
           /\ jobs' = Append(jobs, <<s, "join">>)
           /\ reader' = [reader EXCEPT ![s] = "joining"]
    BY <1>1 DEF NextReturns, Becomes, Submit, q
  <2>3. /\ queue'[s] = Tail(q)
        /\ \A t \in Streams \ {s} :
              queue'[t] = queue[t] /\ reader'[t] = reader[t] /\ got'[t] = got[t]
    BY <2>1, <2>2 DEF StreamShape
  <2>4. /\ Tail(q) \in Seq(Pieces \cup {"stop"}) /\ Len(q) \in Nat /\ Len(q) > 0
        /\ DOMAIN q = 1 .. Len(q) /\ Head(q) = q[1]
        /\ Len(Tail(q)) = Len(q) - 1 /\ DOMAIN Tail(q) = 1 .. Len(q) - 1
        /\ \A i \in 1 .. Len(q) - 1 : Tail(q)[i] = q[i + 1] /\ i + 1 \in 1 .. Len(q)
    BY <1>0, <2>1
  <2>5. /\ jobs' \in Seq(J)
        /\ \A t \in Streams : /\ None(jobs, Ask(t)) => None(jobs', Ask(t))
                              /\ AtMostOnce(jobs, Ask(t)) => AtMostOnce(jobs', Ask(t))
    <3>1. CASE jobs' = jobs
      BY <1>0, <3>1
    <3>2. CASE jobs' = Append(jobs, <<s, "join">>)
      <4>1. /\ jobs' \in Seq(J)
            /\ \A c : c # <<s, "join">> =>
                  /\ None(jobs, c) => None(jobs', c)
                  /\ AtMostOnce(jobs, c) => AtMostOnce(jobs', c)
        BY <1>0, <3>2, SubmitOnce
      <4> QED
        BY <1>0, <4>1
    <3> QED
      BY <2>2, <3>1, <3>2
  <2>6. StreamShape'
    <3>1. queue' \in [Streams -> Seq(Pieces \cup {"stop"})]
      BY <2>1, <2>4 DEF StreamShape
    <3>2. got' \in [Streams -> Nat]
      <4>1. got' = got \/ got' = [got EXCEPT ![s] = got[s] + 1]
        BY <2>2
      <4>2. got[s] + 1 \in Nat /\ got \in [Streams -> Nat]
        BY <1>0 DEF StreamShape
      <4> QED
        BY <4>1, <4>2
    <3>3. reader' \in [Streams -> {"idle", "asking", "yielded", "joining", "complete",
                                   "leaving", "gone"}]
      BY <2>2 DEF StreamShape
    <3> QED
      BY <2>1, <2>5, <3>1, <3>2, <3>3 DEF StreamShape, J
  <2>7. ASSUME NEW t \in Streams \ {s} PROVE CallInv(t)' /\ ReplyInv(t)'
    <3>1. Ask(t)' = Ask(t) /\ (Ask(t) \in busy' <=> Ask(t) \in busy)
      BY <1>0, <2>1 DEF Ask
    <3> QED
      BY <2>1, <2>3, <2>5, <3>1, CallsOfOthers, ReplyUntouched DEF None, AtMostOnce
  <2>8. CallInv(s)'
    <3>1. Ask(s) \notin busy' /\ Ask(s)' = Ask(s)
      BY <2>1 DEF Ask
    <3>2. reader[s] = "asking" => None(jobs', Ask(s))
      BY <1>0, <2>1, <2>5 DEF CallInv
    <3>3. reader'[s] = "asking" => FALSE
      BY <2>2 DEF StreamShape
    <3>4. reader[s] # "asking" => reader[s] \notin {"idle", "yielded"} /\ reader'[s] = reader[s]
      BY <1>0, <2>1, <2>2 DEF CallInv
    <3> QED
      BY <3>1, <3>2, <3>3, <3>4 DEF CallInv, None
  <2>9. ReplyInv(s)'
    <3>0. /\ thread'[s] = thread[s] /\ (s \in failed' <=> s \in failed) /\ made'[s] = made[s]
          /\ (Stopped(s)' <=> Stopped(s))
      BY <2>1 DEF Stopped
    <3>1. CASE reader[s] # "asking"
      <4>1. reader[s] \notin {"idle", "yielded"} /\ reader'[s] = reader[s] /\ got'[s] = got[s]
        BY <1>0, <2>1, <2>2, <3>1 DEF CallInv
      <4> QED
        BY <1>0, <3>0, <3>1, <4>1 DEF ReplyInv
    <3>2. CASE reader[s] = "asking" /\ Head(q) # "stop"
      <4>1. reader'[s] = "yielded" /\ got'[s] = got[s] + 1
        BY <2>2, <3>2 DEF StreamShape
      <4>2. ASSUME ~Stopped(s)
            PROVE  None(queue'[s], "stop") /\ made'[s] = got'[s] + Len(queue'[s])
        <5>1. None(q, "stop") /\ made[s] = got[s] + Len(q)
          BY <1>0, <3>2, <4>2 DEF ReplyInv, q
        <5>2. made'[s] = got'[s] + Len(queue'[s])
          BY <1>0, <2>3, <2>4, <3>0, <4>1, <5>1
        <5> QED
          BY <2>3, <2>4, <5>1, <5>2 DEF None
      <4>3. ASSUME Stopped(s)
            PROVE  \E k \in DOMAIN queue'[s] : StopsAt(s, k)' /\ made'[s] = got'[s] + (k - 1)
        <5>1. PICK k \in DOMAIN q : StopsAt(s, k) /\ made[s] = got[s] + (k - 1)
          BY <1>0, <3>2, <4>3 DEF ReplyInv, q
        <5>2. /\ k \in 1 .. Len(q) /\ q[k] = "stop"
              /\ \A i \in 1 .. Len(q) : i < k => q[i] # "stop"
          BY <2>4, <5>1 DEF StopsAt, q
        <5>3. k # 1
          BY <2>4, <3>2, <5>2
        <5>4. /\ k - 1 \in 1 .. Len(q) - 1 /\ Tail(q)[k - 1] = "stop"
              /\ made'[s] = got'[s] + ((k - 1) - 1)
          <6>1. k - 1 \in 1 .. Len(q) - 1 /\ (k - 1) + 1 = k
            BY <2>4, <5>2, <5>3
          <6>2. made'[s] = got'[s] + ((k - 1) - 1)
            BY <1>0, <3>0, <4>1, <5>1, <5>2
          <6> QED
            BY <2>4, <5>2, <6>1, <6>2
        <5>5. \A i \in 1 .. Len(q) - 1 : i < k - 1 => Tail(q)[i] # "stop"
          <6>1. \A i \in 1 .. Len(q) - 1 : i < k - 1 => i + 1 < k
            BY <5>2
          <6> QED
            BY <2>4, <5>2, <6>1
        <5> QED
          BY <2>3, <2>4, <5>4, <5>5 DEF StopsAt
      <4> QED
        BY <1>0, <3>0, <3>2, <4>1, <4>2, <4>3 DEF ReplyInv, None
    <3>3. CASE reader[s] = "asking" /\ Head(q) = "stop"
      <4>1. reader'[s] = "joining" /\ got'[s] = got[s]
        BY <2>2, <3>3 DEF StreamShape
      <4>2. ~None(q, "stop")
        BY <2>4, <3>3 DEF None
      <4>3. Stopped(s) /\ \E k \in DOMAIN q : StopsAt(s, k) /\ made[s] = got[s] + (k - 1)
        BY <1>0, <3>3, <4>2 DEF ReplyInv, q
      <4>4. made[s] = got[s]
        <5>1. PICK k \in DOMAIN q : StopsAt(s, k) /\ made[s] = got[s] + (k - 1)
          BY <4>3
        <5>2. /\ k \in 1 .. Len(q) /\ \A i \in 1 .. Len(q) : i < k => q[i] # "stop"
          BY <2>4, <5>1 DEF StopsAt, q
        <5>3. k = 1
          BY <2>4, <3>3, <5>2
        <5> QED
          BY <1>0, <5>1, <5>3
      <4> QED
        BY <1>0, <3>0, <3>3, <4>1, <4>3, <4>4 DEF ReplyInv
    <3> QED
      BY <3>1, <3>2, <3>3
  <2> QED
    BY <2>6, <2>7, <2>8, <2>9
<1>2. ASSUME JoinReturns(s)
      PROVE  StreamShape' /\ \A t \in Streams : CallInv(t)' /\ ReplyInv(t)'
  <2>1. /\ busy' = busy \ {<<s, "join">>}
        /\ UNCHANGED <<thread, failed, queue, got, made, jobs>>
    BY <1>2 DEF JoinReturns
  <2>2. reader' = [reader EXCEPT ![s] = CASE reader[s] = "joining" -> "complete"
                                          [] reader[s] = "leaving" -> "gone"
                                          [] OTHER                 -> reader[s]]
    BY <1>2 DEF JoinReturns
  <2>3. /\ \A t \in Streams \ {s} : reader'[t] = reader[t]
        /\ \/ reader'[s] = reader[s]
           \/ reader[s] = "joining" /\ reader'[s] = "complete"
           \/ reader[s] = "leaving" /\ reader'[s] = "gone"
    BY <2>2 DEF StreamShape
  <2>4. reader' \in [Streams -> {"idle", "asking", "yielded", "joining", "complete",
                                 "leaving", "gone"}]
    <3>1. reader'[s] \in {"idle", "asking", "yielded", "joining", "complete", "leaving", "gone"}
      BY <1>0, <2>3
    <3> QED
      BY <2>2, <3>1 DEF StreamShape
  <2>5. StreamShape'
    BY <2>1, <2>4 DEF StreamShape
  <2>6. ASSUME NEW t \in Streams PROVE CallInv(t)'
    <3>1. Ask(t)' = Ask(t) /\ (Ask(t) \in busy' <=> Ask(t) \in busy)
      BY <1>0, <2>1 DEF Ask
    <3>2. reader'[t] \in {"idle", "yielded", "asking"} => reader'[t] = reader[t]
      BY <2>3
    <3>3. CallInv(t)
      OBVIOUS
    <3> QED
      BY <2>1, <3>1, <3>2, <3>3 DEF CallInv, None, AtMostOnce
  <2>7. \A t \in Streams \ {s} : ReplyInv(t)'
    BY <2>1, <2>3, ReplyUntouched
  <2>8. ReplyInv(s)'
    <3>1. Stopped(s)' <=> Stopped(s)
      BY <2>1 DEF Stopped
    <3>2. CASE reader'[s] = reader[s]
      BY <1>0, <2>1, <3>2, ReplyUntouched
    <3>3. CASE reader'[s] # reader[s]
      BY <1>0, <2>1, <2>3, <3>1, <3>3 DEF ReplyInv
    <3> QED
      BY <3>2, <3>3
  <2> QED
    BY <2>5, <2>6, <2>7, <2>8
<1> QED
  BY <1>1, <1>2 DEF Returns

(* The inductive invariant holds. *)
LEMMA StreamInvariance ==
    StreamSpec => [](StreamShape /\ \A s \in Streams : CallInv(s) /\ ReplyInv(s))
<1> DEFINE Inv == StreamShape /\ \A s \in Streams : CallInv(s) /\ ReplyInv(s)
<1>1. StreamInit => Inv
  BY StreamInitInv
<1>2. Inv /\ [StreamNext]_streamVars => Inv'
  <2> SUFFICES ASSUME Inv, [StreamNext]_streamVars PROVE Inv'
    OBVIOUS
  <2>1. ASSUME NEW s \in Streams, Generates(s) PROVE Inv'
    BY <2>1, GeneratesStep
  <2>2. ASSUME NEW s \in Streams, Returns(s) PROVE Inv'
    BY <2>2, ReturnsStep
  <2>3. ASSUME NEW s \in Streams, Begin(s) \/ Taken(s) \/ Cancelled(s) PROVE Inv'
    BY <2>3, ReaderStep
  <2>4. CASE Starts
    BY <2>4, StartsStep
  <2>5. CASE UNCHANGED streamVars
    <3>1. UNCHANGED <<thread, failed, queue, reader, got, made, jobs, busy>>
      BY <2>5 DEF streamVars
    <3>2. StreamShape'
      BY <3>1 DEF StreamShape
    <3>3. ASSUME NEW s \in Streams PROVE CallInv(s)' /\ ReplyInv(s)'
      <4>1. CallInv(s) /\ ReplyInv(s)
        OBVIOUS
      <4>2. CallInv(s)'
        BY <3>1, <4>1 DEF CallInv, None, AtMostOnce, Ask
      <4> QED
        BY <3>1, <4>1, <4>2, ReplyUntouched
    <3> QED
      BY <3>2, <3>3
  <2> QED
    BY <2>1, <2>2, <2>3, <2>4, <2>5 DEF StreamNext
<1> QED
  BY <1>1, <1>2, PTL DEF StreamSpec

(* A stream that has ended for its client has given it every piece that was   *)
(* made: with the stop signal sent twice, with a generate that raises at any  *)
(* token, and with calls of cancelled streams still in the shared executor.  *)
THEOREM ReplyAlwaysWhole == StreamSpec => []ReplyWhole
<1>1. (\A s \in Streams : CallInv(s) /\ ReplyInv(s)) => ReplyWhole
  BY DEF ReplyInv, ReplyWhole
<1> QED
  BY <1>1, StreamInvariance, PTL
=============================================================================
