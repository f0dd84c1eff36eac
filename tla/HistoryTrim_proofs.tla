------------------------- MODULE HistoryTrim_proofs -------------------------
(* Theorems about HistoryTrim, for histories of any length.  The induction    *)
(* that its recursive functions need is stated with sets: a set of numbers    *)
(* that holds 0 and the successor of each of its members holds them all.      *)
EXTENDS HistoryTrim, SequenceTheorems, WellFoundedInduction, TLAPS

(* A set of natural numbers that is not empty has a least member.            *)
LEMMA LeastNat ==
    ASSUME NEW T, T \subseteq Nat, T # {}
    PROVE  \E x \in T : \A y \in T : x <= y
<1> DEFINE R == {p \in Nat \X Nat : p[1] < p[2]}
<1>1. IsWellFoundedOn(R, Nat)
  <2>1. OpToRel(<, Nat) = R
    BY DEF OpToRel
  <2> QED
    BY <2>1, NatLessThanWellFounded
<1>2. \A a, b \in Nat : a < b => <<a, b>> \in R
  OBVIOUS
<1> HIDE DEF R
<1>3. PICK x \in T : \A y \in T : ~ (<<y, x>> \in R)
  BY <1>1, WFMin
<1>4. \A y \in T : ~(y < x)
  BY <1>2, <1>3
<1>5. \A y \in T : x <= y
  BY <1>4
<1> QED
  BY <1>5

(* Induction. *)
LEMMA Induction ==
    ASSUME NEW S, 0 \in S, \A n \in Nat : n \in S => n + 1 \in S
    PROVE  \A n \in Nat : n \in S
<1> SUFFICES ASSUME Nat \ S # {} PROVE FALSE
  OBVIOUS
<1>1. PICK x \in Nat \ S : \A y \in Nat \ S : x <= y
  BY LeastNat
<1>2. x # 0 /\ x - 1 \in Nat
  BY <1>1
<1>3. x - 1 \in S
  BY <1>1, <1>2
<1> QED
  BY <1>1, <1>2, <1>3
-----------------------------------------------------------------------------
(* The characters of the newest messages *)

Turns == [role : {"user", "assistant"}, chars : Nat]

(* f is the function that Chars(h, k) computes. *)
IsTotal(h, k, f) ==
    f = [j \in 0..k |-> IF j = 0 THEN 0 ELSE f[j - 1] + h[Len(h) - j + 1].chars]

(* There is such a function: one for k + 1 continues one for k. *)
LEMMA TotalExists ==
    ASSUME NEW h, NEW k \in Nat
    PROVE  \E f : IsTotal(h, k, f)
<1> DEFINE S == {n \in Nat : \E f : IsTotal(h, n, f)}
           next(f, n) == [j \in 0..n |-> IF j = 0 THEN 0
                                         ELSE f[j - 1] + h[Len(h) - j + 1].chars]
<1>1. 0 \in S
  <2>1. IsTotal(h, 0, [j \in 0..0 |-> 0])
    BY DEF IsTotal
  <2> QED
    BY <2>1
<1>2. ASSUME NEW n \in Nat, n \in S PROVE n + 1 \in S
  <2>1. PICK f : IsTotal(h, n, f)
    BY <1>2
  <2> DEFINE g == next(f, n + 1)
  <2>2. \A j \in 0..n : g[j] = f[j]
    BY <2>1 DEF IsTotal
  <2>3. \A j \in 0..n + 1 : g[j] = IF j = 0 THEN 0 ELSE g[j - 1] + h[Len(h) - j + 1].chars
    <3> SUFFICES ASSUME NEW j \in 0..n + 1
                 PROVE  g[j] = IF j = 0 THEN 0 ELSE g[j - 1] + h[Len(h) - j + 1].chars
      OBVIOUS
    <3>1. g[j] = IF j = 0 THEN 0 ELSE f[j - 1] + h[Len(h) - j + 1].chars
      OBVIOUS
    <3>2. ASSUME j # 0 PROVE g[j - 1] = f[j - 1]
      <4>1. j - 1 \in 0..n
        BY <3>2
      <4> HIDE DEF g
      <4> QED
        BY <2>2, <4>1
    <3> QED
      BY <3>1, <3>2
  <2>4. g = [j \in 0..n + 1 |-> g[j]]
    OBVIOUS
  <2> HIDE DEF g
  <2>5. IsTotal(h, n + 1, g)
    BY <2>3, <2>4 DEF IsTotal
  <2> QED
    BY <2>5
<1>3. k \in S
  <2> HIDE DEF S
  <2> QED
    BY <1>1, <1>2, Induction
<1> QED
  BY <1>3

(* Chars is the last value of it. *)
LEMMA CharsIs ==
    ASSUME NEW h, NEW k \in Nat
    PROVE  \E f : IsTotal(h, k, f) /\ Chars(h, k) = f[k]
<1> DEFINE f == CHOOSE x : IsTotal(h, k, x)
<1>1. IsTotal(h, k, f)
  BY TotalExists
<1>2. Chars(h, k) = f[k]
  BY DEF Chars, IsTotal
<1> QED
  BY <1>1, <1>2

(* It is a natural number at each place, and does not depend on where it ends. *)
LEMMA TotalsAgree ==
    ASSUME NEW h \in Seq(Turns), NEW k \in 0..Len(h), NEW l \in 0..Len(h),
           NEW f, NEW g, IsTotal(h, k, f), IsTotal(h, l, g), k <= l
    PROVE  \A j \in 0..k : f[j] \in Nat /\ g[j] = f[j]
<1> DEFINE S == {n \in Nat : n <= k => f[n] \in Nat /\ g[n] = f[n]}
<1>0. Len(h) \in Nat
  OBVIOUS
<1>1. 0 \in S
  BY DEF IsTotal
<1>2. ASSUME NEW n \in Nat, n \in S PROVE n + 1 \in S
  <2> SUFFICES ASSUME n + 1 <= k PROVE f[n + 1] \in Nat /\ g[n + 1] = f[n + 1]
    OBVIOUS
  <2> DEFINE c == h[Len(h) - n].chars
  <2>1. f[n] \in Nat /\ g[n] = f[n]
    BY <1>2
  <2>2. c \in Nat
    <3>1. Len(h) - n \in 1..Len(h)
      BY <1>0
    <3>2. h[Len(h) - n] \in Turns
      BY <3>1, ElementOfSeq
    <3> QED
      BY <3>2 DEF Turns
  <2>3. n + 1 \in 0..k /\ n + 1 \in 0..l /\ n + 1 # 0 /\ (n + 1) - 1 = n
        /\ Len(h) - (n + 1) + 1 = Len(h) - n
    BY <1>0
  <2>4. f[n + 1] = f[n] + c /\ g[n + 1] = g[n] + c
    BY <2>3 DEF IsTotal
  <2> QED
    BY <2>1, <2>2, <2>4
<1>3. \A n \in Nat : n \in S
  <2> HIDE DEF S
  <2> QED
    BY <1>1, <1>2, Induction
<1> QED
  BY <1>3

(* What the code adds up: nothing at first, then message by message. *)
LEMMA CharsStep ==
    ASSUME NEW h \in Seq(Turns)
    PROVE  /\ Chars(h, 0) = 0
           /\ \A k \in 0..Len(h) : Chars(h, k) \in Nat
           /\ \A k \in 0..Len(h) - 1 :
                 /\ h[Len(h) - k].chars \in Nat
                 /\ Chars(h, k + 1) = Chars(h, k) + h[Len(h) - k].chars
<1>0. Len(h) \in Nat
  OBVIOUS
<1>1. Chars(h, 0) = 0
  <2>1. PICK f : IsTotal(h, 0, f) /\ Chars(h, 0) = f[0]
    BY CharsIs
  <2> QED
    BY <2>1 DEF IsTotal
<1>2. ASSUME NEW k \in 0..Len(h) PROVE Chars(h, k) \in Nat
  <2>1. PICK f : IsTotal(h, k, f) /\ Chars(h, k) = f[k]
    BY <1>0, CharsIs
  <2> QED
    BY <1>0, <2>1, TotalsAgree
<1>3. ASSUME NEW k \in 0..Len(h) - 1
      PROVE  /\ h[Len(h) - k].chars \in Nat
             /\ Chars(h, k + 1) = Chars(h, k) + h[Len(h) - k].chars
  <2>1. PICK f : IsTotal(h, k, f) /\ Chars(h, k) = f[k]
    BY <1>0, CharsIs
  <2>2. PICK g : IsTotal(h, k + 1, g) /\ Chars(h, k + 1) = g[k + 1]
    BY <1>0, CharsIs
  <2>3. g[k] = f[k]
    BY <1>0, <2>1, <2>2, TotalsAgree
  <2>4. k + 1 \in 0..k + 1 /\ k + 1 # 0 /\ (k + 1) - 1 = k /\ Len(h) - (k + 1) + 1 = Len(h) - k
    BY <1>0
  <2>5. g[k + 1] = g[k] + h[Len(h) - k].chars
    BY <2>2, <2>4 DEF IsTotal
  <2>6. h[Len(h) - k].chars \in Nat
    <3>1. Len(h) - k \in 1..Len(h)
      BY <1>0
    <3>2. h[Len(h) - k] \in Turns
      BY <3>1, ElementOfSeq
    <3> QED
      BY <3>2 DEF Turns
  <2> QED
    BY <2>1, <2>2, <2>3, <2>5, <2>6
<1> QED
  BY <1>1, <1>2, <1>3

(* More messages have no fewer characters. *)
LEMMA CharsGrow ==
    ASSUME NEW h \in Seq(Turns), NEW k \in 0..Len(h), NEW j \in 0..k
    PROVE  Chars(h, j) <= Chars(h, k)
<1> DEFINE S == {n \in Nat : j + n <= Len(h) => Chars(h, j) <= Chars(h, j + n)}
<1>0. Len(h) \in Nat /\ j \in Nat /\ j \in 0..Len(h) /\ Chars(h, j) \in Nat
  BY CharsStep
<1>1. 0 \in S
  BY <1>0
<1>2. ASSUME NEW n \in Nat, n \in S PROVE n + 1 \in S
  <2> SUFFICES ASSUME j + (n + 1) <= Len(h) PROVE Chars(h, j) <= Chars(h, j + (n + 1))
    OBVIOUS
  <2>1. Chars(h, j) <= Chars(h, j + n)
    BY <1>0, <1>2
  <2>2. j + n \in 0..Len(h) - 1 /\ (j + n) + 1 = j + (n + 1) /\ j + n \in 0..Len(h)
    BY <1>0
  <2>3. /\ h[Len(h) - (j + n)].chars \in Nat
        /\ Chars(h, (j + n) + 1) = Chars(h, j + n) + h[Len(h) - (j + n)].chars
        /\ Chars(h, j + n) \in Nat
    BY <2>2, CharsStep
  <2> QED
    BY <1>0, <2>1, <2>2, <2>3
<1>3. k - j \in S
  <2>1. k - j \in Nat
    BY <1>0
  <2> HIDE DEF S
  <2> QED
    BY <2>1, <1>1, <1>2, Induction
<1> QED
  BY <1>0, <1>3
-----------------------------------------------------------------------------
(* How far back the prompt goes *)

(* The loop of _trim_history ends with k messages kept. *)
Stop(h, k) == k = Len(h) \/ k >= MaxMessages \/ Chars(h, k + 1) > MaxChars

(* k is where it first ends, from m on. *)
StopsAt(h, m, k) ==
    k \in m..Len(h) /\ Stop(h, k) /\ \A j \in m..Len(h) : j < k => ~Stop(h, j)

(* f is the function that Trim computes. *)
IsKept(h, f) ==
    f = [k \in 0..Len(h) |-> IF k = Len(h) \/ k >= MaxMessages \/ Chars(h, k + 1) > MaxChars
                               THEN k ELSE f[k + 1]]

(* The loop ends: at the latest when the history is used up. *)
LEMMA StopExists ==
    ASSUME NEW h \in Seq(Turns), NEW m \in 0..Len(h)
    PROVE  \E k : StopsAt(h, m, k)
<1> DEFINE T == {k \in m..Len(h) : Stop(h, k)}
<1>1. Len(h) \in T /\ T \subseteq Nat
  BY DEF Stop
<1>2. PICK k \in T : \A y \in T : k <= y
  BY <1>1, LeastNat
<1>3. ASSUME NEW j \in m..Len(h), j < k PROVE ~Stop(h, j)
  <2>1. k \in Nat /\ j \in Nat
    BY <1>1
  <2> QED
    BY <1>2, <1>3, <2>1
<1> QED
  BY <1>2, <1>3 DEF StopsAt

(* There is such a function, the first stop from each place. *)
LEMMA KeptExists ==
    ASSUME NEW h \in Seq(Turns)
    PROVE  \E f : IsKept(h, f)
<1> DEFINE first(m) == CHOOSE k : StopsAt(h, m, k)
           f == [m \in 0..Len(h) |-> first(m)]
<1>0. Len(h) \in Nat
  OBVIOUS
<1>1. ASSUME NEW m \in 0..Len(h) PROVE StopsAt(h, m, first(m))
  BY StopExists
<1>2. ASSUME NEW m \in 0..Len(h), NEW i, NEW k, StopsAt(h, m, i), StopsAt(h, m, k)
      PROVE  i = k
  <2>1. i \in m..Len(h) /\ k \in m..Len(h) /\ i \in Nat /\ k \in Nat
    BY <1>2 DEF StopsAt
  <2>2. ~(i < k) /\ ~(k < i)
    BY <1>2, <2>1 DEF StopsAt
  <2> QED
    BY <2>1, <2>2
<1>3. ASSUME NEW m \in 0..Len(h) PROVE f[m] = IF Stop(h, m) THEN m ELSE f[m + 1]
  <2>1. f[m] = first(m)
    OBVIOUS
  <2> HIDE DEF first
  <2>2. CASE Stop(h, m)
    <3>1. StopsAt(h, m, m)
      BY <1>0, <2>2 DEF StopsAt
    <3>2. first(m) = m
      BY <1>1, <1>2, <3>1
    <3> QED
      BY <2>1, <2>2, <3>2
  <2>3. CASE ~Stop(h, m)
    <3>1. m # Len(h)
      BY <2>3 DEF Stop
    <3>2. m + 1 \in 0..Len(h) /\ m \in Nat
      BY <1>0, <3>1
    <3>3. StopsAt(h, m + 1, first(m + 1)) /\ f[m + 1] = first(m + 1)
      BY <1>1, <3>2
    <3>4. StopsAt(h, m, first(m + 1))
      <4>1. first(m + 1) \in m..Len(h) /\ Stop(h, first(m + 1))
        BY <1>0, <3>2, <3>3 DEF StopsAt
      <4>2. ASSUME NEW j \in m..Len(h), j < first(m + 1) PROVE ~Stop(h, j)
        <5>1. j = m \/ j \in (m + 1)..Len(h)
          BY <1>0
        <5> QED
          BY <2>3, <3>3, <4>2, <5>1 DEF StopsAt
      <4> QED
        BY <4>1, <4>2 DEF StopsAt
    <3>5. first(m) = first(m + 1)
      BY <1>1, <1>2, <3>4
    <3> QED
      BY <2>1, <2>3, <3>3, <3>5
  <2> QED
    BY <2>2, <2>3
<1>4. f = [m \in 0..Len(h) |-> f[m]]
  OBVIOUS
<1> HIDE DEF f
<1>5. IsKept(h, f)
  BY <1>3, <1>4 DEF IsKept, Stop
<1> QED
  BY <1>5

(* The prompt is the messages up to the first stop. *)
LEMMA TrimIs ==
    ASSUME NEW h \in Seq(Turns)
    PROVE  \E k : StopsAt(h, 0, k) /\ Trim(h) = Newest(h, k)
<1> DEFINE f == CHOOSE x : IsKept(h, x)
<1>0. Len(h) \in Nat
  OBVIOUS
<1>1. IsKept(h, f)
  BY KeptExists
<1>2. Trim(h) = Newest(h, f[0])
  BY DEF Trim, IsKept
<1> HIDE DEF f
<1>3. PICK k : StopsAt(h, 0, k)
  BY <1>0, StopExists
<1>4. k \in 0..Len(h) /\ k \in Nat
  BY <1>0, <1>3 DEF StopsAt
<1>5. \A m \in 0..Len(h) : f[m] = IF Stop(h, m) THEN m ELSE f[m + 1]
  BY <1>1 DEF IsKept, Stop
<1> DEFINE S == {m \in Nat : m <= k => f[0] = f[m]}
<1>6. 0 \in S
  OBVIOUS
<1>7. ASSUME NEW m \in Nat, m \in S PROVE m + 1 \in S
  <2> SUFFICES ASSUME m + 1 <= k PROVE f[0] = f[m + 1]
    OBVIOUS
  <2>1. m \in 0..Len(h) /\ m < k
    BY <1>0, <1>4
  <2>2. ~Stop(h, m)
    BY <1>3, <2>1 DEF StopsAt
  <2>3. f[0] = f[m]
    BY <1>4, <1>7, <2>1
  <2> QED
    BY <1>5, <2>1, <2>2, <2>3
<1>8. k \in S
  <2> HIDE DEF S
  <2> QED
    BY <1>4, <1>6, <1>7, Induction
<1>9. f[0] = k
  BY <1>3, <1>4, <1>5, <1>8 DEF StopsAt
<1> QED
  BY <1>2, <1>3, <1>9

(* What is kept fits, and nothing longer does. *)
LEMMA StopFits ==
    ASSUME NEW h \in Seq(Turns), NEW k, StopsAt(h, 0, k)
    PROVE  Fits(h, k) /\ \A j \in (k + 1)..Len(h) : ~Fits(h, j)
<1> USE TrimAssumption
<1>0. Len(h) \in Nat /\ k \in Nat /\ k \in 0..Len(h) /\ Stop(h, k)
  BY DEF StopsAt
<1>1. Fits(h, k)
  <2>1. CASE k = 0
    BY <2>1, CharsStep DEF Fits
  <2>2. CASE k # 0
    <3>1. k - 1 \in 0..Len(h) /\ k - 1 < k /\ (k - 1) + 1 = k /\ k - 1 \in Nat
      BY <1>0, <2>2
    <3>2. ~Stop(h, k - 1)
      BY <3>1 DEF StopsAt
    <3>3. ~(k - 1 >= MaxMessages) /\ ~(Chars(h, k) > MaxChars)
      BY <3>1, <3>2 DEF Stop
    <3>4. Chars(h, k) \in Nat
      BY <1>0, CharsStep
    <3> QED
      BY <1>0, <3>3, <3>4 DEF Fits
  <2> QED
    BY <2>1, <2>2
<1>2. ASSUME NEW j \in (k + 1)..Len(h) PROVE ~Fits(h, j)
  <2>1. k # Len(h) /\ k + 1 \in 0..j /\ j \in 0..Len(h) /\ k + 1 \in 0..Len(h) /\ j > k
    BY <1>0
  <2>2. Chars(h, k + 1) <= Chars(h, j) /\ Chars(h, k + 1) \in Nat /\ Chars(h, j) \in Nat
    BY <2>1, CharsGrow, CharsStep
  <2>3. CASE k >= MaxMessages
    BY <1>0, <2>1, <2>3 DEF Fits
  <2>4. CASE Chars(h, k + 1) > MaxChars
    BY <2>2, <2>4 DEF Fits
  <2> QED
    BY <1>0, <2>1, <2>3, <2>4 DEF Stop
<1> QED
  BY <1>1, <1>2

(* The newest k messages are k messages. *)
LEMMA NewestLen ==
    ASSUME NEW h \in Seq(Turns), NEW k \in 0..Len(h)
    PROVE  Len(Newest(h, k)) = k
<1>1. Len(h) \in Nat /\ k \in Nat /\ Len(h) - k + 1 \in Int
  OBVIOUS
<1>2. \A i \in Len(h) - k + 1 .. Len(h) : h[i] \in Turns
  <2> SUFFICES ASSUME NEW i \in Len(h) - k + 1 .. Len(h) PROVE h[i] \in Turns
    OBVIOUS
  <2>1. i \in 1..Len(h)
    BY <1>1
  <2> QED
    BY <2>1, ElementOfSeq
<1>3. Len(Newest(h, k)) = IF Len(h) - k + 1 <= Len(h) THEN Len(h) - (Len(h) - k + 1) + 1 ELSE 0
  BY <1>1, <1>2, SubSeqProperties DEF Newest
<1> QED
  BY <1>1, <1>3

(* _trim_history is correct for every history. *)
LEMMA TrimIsLongest ==
    ASSUME NEW h \in Seq(Turns)
    PROVE  LET k == Len(Trim(h))
           IN  /\ StopsAt(h, 0, k)
               /\ k \in 0..Len(h) /\ Trim(h) = Newest(h, k)
               /\ Fits(h, k)
               /\ \A j \in (k + 1)..Len(h) : ~Fits(h, j)
<1>1. PICK k : StopsAt(h, 0, k) /\ Trim(h) = Newest(h, k)
  BY TrimIs
<1>2. k \in 0..Len(h)
  BY <1>1 DEF StopsAt
<1>3. Len(Trim(h)) = k
  BY <1>1, <1>2, NewestLen
<1> QED
  BY <1>1, <1>2, <1>3, StopFits
-----------------------------------------------------------------------------
(* The history only holds messages. *)
HistoryOK == history \in Seq(Turns)

(* Every reply keeps it so. *)
LEMMA HistoryStep ==
    ASSUME HistoryOK, [TrimNext]_trimVars
    PROVE  HistoryOK'
<1>1. CASE UNCHANGED trimVars
  BY <1>1 DEF HistoryOK, trimVars
<1>2. CASE TrimNext
  <2>1. PICK u, a \in Texts : Reply(u, a)
    BY <1>2 DEF TrimNext
  <2>2. <<[role |-> "user", chars |-> u], [role |-> "assistant", chars |-> a]>> \in Seq(Turns)
    BY TrimAssumption DEF Turns
  <2> QED
    BY <2>1, <2>2, ConcatProperties DEF HistoryOK, Reply
<1> QED
  BY <1>1, <1>2

(* The theorem of PromptIsLongestThatFits: whatever the limits, the lengths  *)
(* and the history, the prompt is the longest end of it that fits.           *)
THEOREM PromptAlwaysLongestThatFits ==
    TrimInit /\ [][TrimNext]_trimVars => PromptIsLongestThatFits
<1> DEFINE A == LET k == Len(prompt') IN
                /\ k <= Len(history) /\ prompt' = Newest(history, k)
                /\ Fits(history, k)
                /\ \A j \in (k + 1)..Len(history) : ~Fits(history, j)
<1>1. TrimInit => HistoryOK
  BY DEF TrimInit, HistoryOK
<1>2. HistoryOK /\ [TrimNext]_trimVars => HistoryOK'
  BY HistoryStep
<1>3. HistoryOK /\ [TrimNext]_trimVars => [A]_trimVars
  <2> SUFFICES ASSUME HistoryOK, TrimNext PROVE A
    OBVIOUS
  <2>1. prompt' = Trim(history)
    BY DEF TrimNext, Reply
  <2>2. Len(prompt') \in 0..Len(history)
    BY <2>1, TrimIsLongest DEF HistoryOK
  <2>3. Len(prompt') <= Len(history)
    BY <2>2 DEF HistoryOK
  <2> QED
    BY <2>1, <2>3, TrimIsLongest DEF HistoryOK
<1> QED
  BY <1>1, <1>2, <1>3, PTL DEF PromptIsLongestThatFits
-----------------------------------------------------------------------------
(* The first message the model sees only moves forward *)

(* The history before its last two messages. *)
Before(h) == SubSeq(h, 1, Len(h) - 2)

(* It is the history without them, message by message. *)
LEMMA BeforeIs ==
    ASSUME NEW h \in Seq(Turns), Len(h) >= 2
    PROVE  /\ Before(h) \in Seq(Turns)
           /\ Len(Before(h)) = Len(h) - 2
           /\ \A i \in 1..Len(h) - 2 : Before(h)[i] = h[i]
<1>1. Len(h) \in Nat /\ Len(h) - 2 \in Nat /\ 1 \in Int
  OBVIOUS
<1>2. \A i \in 1 .. Len(h) - 2 : h[i] \in Turns
  <2> SUFFICES ASSUME NEW i \in 1 .. Len(h) - 2 PROVE h[i] \in Turns
    OBVIOUS
  <2>1. i \in 1..Len(h)
    BY <1>1
  <2> QED
    BY <2>1, ElementOfSeq
<1>3. /\ SubSeq(h, 1, Len(h) - 2) \in Seq(Turns)
      /\ Len(SubSeq(h, 1, Len(h) - 2)) = IF 1 <= Len(h) - 2 THEN Len(h) - 2 - 1 + 1 ELSE 0
      /\ \A i \in 1 .. Len(h) - 2 - 1 + 1 : SubSeq(h, 1, Len(h) - 2)[i] = h[1 + i - 1]
  BY <1>1, <1>2, SubSeqProperties
<1>4. Len(h) - 2 - 1 + 1 = Len(h) - 2
  BY <1>1
<1>5. \A i \in 1..Len(h) - 2 : 1 + i - 1 = i
  BY <1>1
<1> QED
  BY <1>1, <1>3, <1>4, <1>5 DEF Before

(* The j + 2 newest messages hold at least the characters of the j that were *)
(* the newest before the last two came.                                      *)
LEMMA CharsBefore ==
    ASSUME NEW h \in Seq(Turns), Len(h) >= 2, NEW j \in 0..Len(h) - 2
    PROVE  Chars(Before(h), j) <= Chars(h, j + 2)
<1> DEFINE b == Before(h)
           S == {n \in Nat : n <= Len(h) - 2 => Chars(b, n) <= Chars(h, n + 2)}
<1>0. /\ Len(h) \in Nat /\ b \in Seq(Turns) /\ Len(b) = Len(h) - 2
      /\ \A i \in 1..Len(h) - 2 : b[i] = h[i]
  BY BeforeIs
<1> HIDE DEF b
<1>1. 0 \in S
  <2>1. 0 + 2 \in 0..Len(h)
    BY <1>0
  <2>2. Chars(b, 0) = 0 /\ Chars(h, 0 + 2) \in Nat
    BY <1>0, <2>1, CharsStep
  <2> QED
    BY <2>2
<1>2. ASSUME NEW n \in Nat, n \in S PROVE n + 1 \in S
  <2> SUFFICES ASSUME n + 1 <= Len(h) - 2 PROVE Chars(b, n + 1) <= Chars(h, (n + 1) + 2)
    OBVIOUS
  <2>1. /\ n \in 0..Len(b) - 1 /\ n \in 0..Len(b) /\ n + 2 \in 0..Len(h) - 1 /\ n + 2 \in 0..Len(h)
        /\ (n + 2) + 1 = (n + 1) + 2 /\ Len(b) - n = Len(h) - (n + 2)
        /\ Len(b) - n \in 1..Len(h) - 2
    BY <1>0
  <2>2. /\ Chars(b, n) \in Nat /\ b[Len(b) - n].chars \in Nat
        /\ Chars(b, n + 1) = Chars(b, n) + b[Len(b) - n].chars
    BY <1>0, <2>1, CharsStep
  <2>3. /\ Chars(h, n + 2) \in Nat
        /\ Chars(h, (n + 2) + 1) = Chars(h, n + 2) + h[Len(h) - (n + 2)].chars
    BY <2>1, CharsStep
  <2>4. b[Len(b) - n] = h[Len(h) - (n + 2)]
    BY <1>0, <2>1
  <2>5. Chars(b, n) <= Chars(h, n + 2)
    BY <1>0, <1>2, <2>1
  <2>6. Chars(h, (n + 1) + 2) = Chars(h, n + 2) + b[Len(b) - n].chars
    BY <2>1, <2>3, <2>4
  <2> QED
    BY <2>2, <2>3, <2>5, <2>6
<1>3. j \in S
  <2>1. j \in Nat
    BY <1>0
  <2> HIDE DEF S
  <2> QED
    BY <1>1, <1>2, <2>1, Induction
<1> QED
  BY <1>0, <1>3 DEF b

(* The prompt grows by at most the two messages that were added. *)
LEMMA TrimGrows ==
    ASSUME NEW h \in Seq(Turns), Len(h) >= 2
    PROVE  Len(Trim(h)) <= Len(Trim(Before(h))) + 2
<1> USE TrimAssumption
<1> DEFINE b == Before(h)
           k == Len(Trim(h))
           l == Len(Trim(b))
<1>0. Len(h) \in Nat /\ b \in Seq(Turns) /\ Len(b) = Len(h) - 2
  BY BeforeIs
<1>1. k \in 0..Len(h) /\ Fits(h, k)
  BY TrimIsLongest
<1>2. l \in 0..Len(b) /\ \A j \in (l + 1)..Len(b) : ~Fits(b, j)
  BY <1>0, TrimIsLongest
<1>3. \A j \in 0..Len(h) - 2 : Chars(b, j) <= Chars(h, j + 2)
  BY CharsBefore
<1> HIDE DEF b, k, l
<1> SUFFICES ASSUME k > l + 2 PROVE FALSE
  BY <1>0, <1>1, <1>2 DEF b, k, l
<1>4. k - 2 \in (l + 1)..Len(b) /\ k - 2 \in 0..Len(h) - 2 /\ (k - 2) + 2 = k /\ k - 2 \in 0..Len(b)
  BY <1>0, <1>1, <1>2
<1>5. Chars(b, k - 2) <= Chars(h, k)
  BY <1>3, <1>4
<1>6. Chars(b, k - 2) \in Nat /\ Chars(h, k) \in Nat
  BY <1>0, <1>1, <1>4, CharsStep
<1>7. ~Fits(b, k - 2)
  BY <1>2, <1>4
<1> QED
  BY <1>1, <1>4, <1>5, <1>6, <1>7 DEF Fits

(* The prompt is what was trimmed when the last pair was not there yet.      *)
PromptInv ==
    /\ HistoryOK
    /\ \/ history = <<>>
       \/ Len(history) >= 2 /\ prompt = Trim(Before(history))

(* Every reply keeps that so. *)
LEMMA PromptStep ==
    ASSUME PromptInv, [TrimNext]_trimVars
    PROVE  PromptInv'
<1>1. HistoryOK'
  BY HistoryStep DEF PromptInv
<1>2. CASE UNCHANGED trimVars
  BY <1>1, <1>2 DEF PromptInv, trimVars
<1>3. CASE TrimNext
  <2>1. PICK u, a \in Texts : Reply(u, a)
    BY <1>3 DEF TrimNext
  <2> DEFINE pair == <<[role |-> "user", chars |-> u], [role |-> "assistant", chars |-> a]>>
  <2>2. pair \in Seq(Turns) /\ Len(pair) = 2
    BY TrimAssumption DEF Turns
  <2>3. history' = history \o pair /\ prompt' = Trim(history) /\ history \in Seq(Turns)
    BY <2>1 DEF Reply, PromptInv, HistoryOK
  <2> HIDE DEF pair
  <2>4. Len(history') = Len(history) + 2 /\ Len(history) \in Nat
    <3>1. Len(history \o pair) = Len(history) + Len(pair)
      BY <2>2, <2>3, ConcatProperties
    <3>2. Len(history) \in Nat
      BY <2>3
    <3> QED
      BY <2>2, <2>3, <3>1, <3>2
  <2>5. Before(history') = history
    <3>0. Before(history') = SubSeq(history \o pair, 1, Len(history))
      BY <2>3, <2>4 DEF Before
    <3>1. CASE history = <<>>
      <4>1. Len(history) < 1
        BY <3>1
      <4>2. SubSeq(history \o pair, 1, Len(history)) = <<>>
        BY <2>4, <4>1, SubSeqEmpty
      <4> QED
        BY <3>0, <3>1, <4>2
    <3>2. CASE history # <<>>
      <4>1. 1 \in 1..Len(history) /\ Len(history) \in 1..Len(history)
        BY <2>3, <2>4, <3>2
      <4>2. SubSeq(history \o pair, 1, Len(history)) = SubSeq(history, 1, Len(history))
        BY <2>2, <2>3, <4>1, SubSeqOfConcat1
      <4> QED
        BY <2>3, <3>0, <4>2, SubSeqFull
    <3> QED
      BY <3>1, <3>2
  <2>6. Len(history') >= 2
    BY <2>4
  <2> QED
    BY <1>1, <2>3, <2>5, <2>6 DEF PromptInv
<1> QED
  BY <1>2, <1>3

(* The theorem of Forgets: a message that fell out of the prompt never comes *)
(* back into it.                                                             *)
THEOREM PromptAlwaysForgets ==
    TrimInit /\ [][TrimNext]_trimVars => Forgets
<1> DEFINE A == history # <<>> =>
                  LET before == SubSeq(history, 1, Len(history) - 2)
                  IN  Seen(prompt', history) \cap (1..Len(before)) \subseteq Seen(prompt, before)
<1>1. TrimInit => PromptInv
  BY DEF TrimInit, PromptInv, HistoryOK
<1>2. PromptInv /\ [TrimNext]_trimVars => PromptInv'
  BY PromptStep
<1>3. PromptInv /\ [TrimNext]_trimVars => [A]_trimVars
  <2> SUFFICES ASSUME PromptInv, TrimNext, history # <<>> PROVE A
    OBVIOUS
  <2> DEFINE b == Before(history)
             k == Len(Trim(history))
             l == Len(Trim(b))
  <2>1. history \in Seq(Turns) /\ Len(history) >= 2 /\ prompt = Trim(b)
    BY DEF PromptInv, HistoryOK
  <2>2. prompt' = Trim(history)
    BY DEF TrimNext, Reply
  <2>3. Len(history) \in Nat /\ b \in Seq(Turns) /\ Len(b) = Len(history) - 2
    BY <2>1, BeforeIs
  <2>4. k \in 0..Len(history) /\ l \in 0..Len(b) /\ k <= l + 2
    BY <2>1, <2>3, TrimIsLongest, TrimGrows
  <2>5. Seen(prompt', history) = (Len(history) - k + 1)..Len(history)
    BY <2>2 DEF Seen
  <2>6. Seen(prompt, b) = (Len(b) - l + 1)..Len(b)
    BY <2>1 DEF Seen
  <2> HIDE DEF b, k, l
  <2>7. Seen(prompt', history) \cap (1..Len(b)) \subseteq Seen(prompt, b)
    BY <2>3, <2>4, <2>5, <2>6
  <2> QED
    BY <2>7 DEF b, Before
<1> QED
  BY <1>1, <1>2, <1>3, PTL DEF Forgets
=============================================================================
