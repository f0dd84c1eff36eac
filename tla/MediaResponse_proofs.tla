------------------------ MODULE MediaResponse_proofs ------------------------
(* Theorems about MediaResponse. *)
EXTENDS MediaResponse, TLAPS

(* A range that is not refused is what was asked for, and not empty. *)
LEMMA RangeIsRequested ==
    ASSUME NEW h \in Headers, NEW n \in Nat, ~Refused(h, n), h.form # "none", MediaAssumption
    PROVE  /\ FirstByte(h, n) \in Nat /\ LastByte(h, n) \in Nat
           /\ FirstByte(h, n) <= LastByte(h, n) /\ LastByte(h, n) < n
           /\ Requested(h, n) = FirstByte(h, n)..LastByte(h, n)
<1>1. CASE h.form = "suffix"
  <2>0. h.last \in Int
    BY <1>1, MediaAssumption DEF Headers, MediaAssumption
  <2>1. h.last \in Int /\ h.last > 0 /\ LastByte(h, n) = n - 1
    BY <1>1, <2>0 DEF Refused, LastByte
  <2>2. FirstByte(h, n) = IF h.last < n THEN n - h.last ELSE 0
    BY <1>1 DEF FirstByte
  <2>3. FirstByte(h, n) \in Nat /\ FirstByte(h, n) <= n - 1
    BY <1>1, <2>1, <2>2 DEF Refused
  <2>4. Requested(h, n) = {i \in 0..(n - 1) : i >= n - h.last}
    BY <1>1 DEF Requested
  <2> QED
    BY <2>1, <2>2, <2>3, <2>4
<1>2. CASE h.form = "from"
  <2>1. h.first \in Nat /\ FirstByte(h, n) = h.first /\ LastByte(h, n) = n - 1
    BY <1>2 DEF Headers, FirstByte, LastByte
  <2>2. Requested(h, n) = {i \in 0..(n - 1) : i >= h.first}
    BY <1>2 DEF Requested
  <2> QED
    BY <1>2, <2>1, <2>2 DEF Refused
<1>3. CASE h.form = "span"
  <2>1. h.first \in Nat /\ h.last \in Int /\ FirstByte(h, n) = h.first
    BY <1>3 DEF Headers, FirstByte, MediaAssumption
  <2>2. LastByte(h, n) = IF h.last < n THEN h.last ELSE n - 1
    BY <1>3 DEF LastByte
  <2>3. Requested(h, n) = {i \in 0..(n - 1) : h.first <= i /\ i <= h.last}
    BY <1>3 DEF Requested
  <2> QED
    BY <1>3, <2>1, <2>2, <2>3 DEF Refused
<1> QED
  BY <1>1, <1>2, <1>3 DEF Refused, Headers

(* How far the delivery is: of a 206, the bytes that remain end with the    *)
(* last one that was asked for, which the file still has.                   *)
Delivering ==
    /\ phase = "refused" => Refused(header, size)
    /\ phase \in {"opening", "sending", "sent"} =>
         /\ size <= length /\ pos <= length
         /\ ~Refused(header, size)
         /\ start = IF header.form = "none" THEN 0 ELSE FirstByte(header, size)
         /\ start <= pos
         /\ header.form # "none" => pos + remaining = LastByte(header, size) + 1
    /\ phase = "sent" =>
         IF header.form = "none" THEN pos = length \/ size <= pos ELSE remaining = 0

(* Types and progress of the delivery, together inductive. *)
MediaInv == MediaTypeOK /\ Delivering

(* The invariant holds before the request. *)
LEMMA MediaInvInit == MediaAssumption /\ MediaInit => MediaInv
<1> SUFFICES ASSUME MediaAssumption, MediaInit PROVE MediaInv
  OBVIOUS
<1>1. header \in Headers
  BY DEF MediaInit, Headers
<1> QED
  BY <1>1 DEF MediaAssumption, MediaInit, MediaInv, MediaTypeOK, Delivering, Phases

(* Every step keeps it. *)
LEMMA MediaInvStep ==
    ASSUME MediaAssumption, MediaInv, [MediaNext]_mediaVars
    PROVE  MediaInv'
<1> USE DEF MediaInv, MediaTypeOK, Phases
<1>1. ASSUME Grow PROVE MediaInv'
  BY <1>1 DEF Grow, responseVars, Delivering
<1>2. ASSUME Unlink PROVE MediaInv'
  BY <1>2 DEF Unlink, responseVars, Delivering
<1>3. ASSUME Forgotten PROVE MediaInv'
  BY <1>3 DEF Forgotten, responseVars, Delivering
<1>4. ASSUME NEW h \in Headers, Lookup(h) PROVE MediaInv'
  BY <1>4 DEF Lookup, Became, fileVars, Delivering
<1>5. ASSUME Stat PROVE MediaInv'
  <2>1. CASE Refused(header, length)
    BY <1>5, <2>1 DEF Stat, Became, fileVars, Delivering
  <2>2. CASE ~Refused(header, length) /\ header.form = "none"
    BY <1>5, <2>2 DEF Stat, Became, fileVars, Delivering
  <2>3. CASE ~Refused(header, length) /\ header.form # "none"
    <3>1. /\ FirstByte(header, length) \in Nat /\ LastByte(header, length) \in Nat
          /\ FirstByte(header, length) <= LastByte(header, length)
          /\ LastByte(header, length) < length
      BY <2>3, RangeIsRequested
    <3>2. /\ size' = length /\ phase' = "opening" /\ header' = header
          /\ start' = FirstByte(header, length) /\ pos' = start'
          /\ remaining' = LastByte(header, length) - start' + 1
          /\ known' = known /\ linked' = linked /\ length' = length
      BY <1>5, <2>3 DEF Stat, Became, fileVars
    <3>3. MediaTypeOK'
      BY <3>1, <3>2
    <3>4. Delivering'
      BY <3>1, <3>2, <2>3 DEF Delivering
    <3> QED
      BY <3>3, <3>4
  <2> QED
    BY <2>1, <2>2, <2>3
<1>6. ASSUME Vanished PROVE MediaInv'
  BY <1>6 DEF Vanished, Became, fileVars, Delivering
<1>7. ASSUME Open PROVE MediaInv'
  BY <1>7 DEF Open, Became, fileVars, Delivering
<1>8. ASSUME ReadPart PROVE MediaInv'
  <2>1. /\ phase = "sending" /\ header.form # "none" /\ ~Refused(header, size)
        /\ pos + remaining = LastByte(header, size) + 1
        /\ LastByte(header, size) \in Nat /\ LastByte(header, size) < size
    BY <1>8, RangeIsRequested DEF ReadPart, Delivering
  <2> DEFINE data == Smaller(Smaller(Chunk, remaining), length - pos)
  <2>2. /\ data \in Int /\ data <= remaining /\ data <= length - pos
        /\ remaining > 0 => data > 0
    BY <2>1 DEF Smaller, MediaAssumption, Delivering
  <2>3. CASE remaining <= 0 \/ data <= 0
    BY <1>8, <2>1, <2>2, <2>3 DEF ReadPart, Became, fileVars, Delivering
  <2>4. CASE ~(remaining <= 0 \/ data <= 0)
    <3>1. /\ pos' = pos + data /\ remaining' = remaining - data
          /\ UNCHANGED <<known, linked, length, phase, header, size, start>>
      BY <1>8, <2>4 DEF ReadPart, fileVars
    <3> HIDE DEF data
    <3> QED
      BY <3>1, <2>1, <2>2, <2>4 DEF Delivering
  <2> QED
    BY <2>3, <2>4
<1>9. ASSUME ReadWhole PROVE MediaInv'
  <2> DEFINE data == Smaller(Chunk, length - pos)
  <2>1. data \in Nat /\ data <= length - pos /\ (data = 0 => pos = length)
    BY <1>9 DEF ReadWhole, Smaller, MediaAssumption, Delivering
  <2>2. CASE data = 0
    BY <1>9, <2>1, <2>2 DEF ReadWhole, Became, fileVars, Delivering
  <2>3. CASE data # 0
    <3>1. /\ pos' = pos + data /\ phase = "sending" /\ header.form = "none"
          /\ UNCHANGED <<known, linked, length, phase, header, size, start, remaining>>
      BY <1>9, <2>3 DEF ReadWhole, fileVars
    <3> HIDE DEF data
    <3> QED
      BY <3>1, <2>1, <2>3 DEF Delivering
  <2> QED
    BY <2>2, <2>3
<1>10. ASSUME Abandoned PROVE MediaInv'
  BY <1>10 DEF Abandoned, Became, fileVars, Delivering
<1>11. ASSUME UNCHANGED mediaVars PROVE MediaInv'
  BY <1>11 DEF mediaVars, fileVars, responseVars, Delivering
<1> QED
  BY <1>1, <1>2, <1>3, <1>4, <1>5, <1>6, <1>7, <1>8, <1>9, <1>10, <1>11
     DEF MediaNext, Serve

(* The values of the variables are the ones they should have. *)
THEOREM MediaTypeCorrect == MediaSpec => []MediaTypeOK
<1>1. MediaInit => MediaInv
  BY MediaInvInit, MediaAssumption
<1>2. MediaInv /\ [MediaNext]_mediaVars => MediaInv'
  BY MediaInvStep, MediaAssumption
<1> QED
  BY <1>1, <1>2, PTL DEF MediaSpec, MediaInv

(* For every file, header and chunk size: a 206 delivers the bytes that     *)
(* were asked for and no others, a 200 at least the file as it was measured, *)
(* while ffmpeg writes to the file or rmtree unlinks it.                    *)
THEOREM BodyAlwaysExact == MediaSpec => []BodyExact
<1>1. MediaInit => MediaInv
  BY MediaInvInit, MediaAssumption
<1>2. MediaInv /\ [MediaNext]_mediaVars => MediaInv'
  BY MediaInvStep, MediaAssumption
<1>3. MediaInv => BodyExact
  <2> SUFFICES ASSUME MediaInv PROVE BodyExact
    OBVIOUS
  <2>1. ASSUME phase \in {"sending", "sent"}, header.form # "none"
        PROVE  /\ start..(pos - 1) \subseteq Requested(header, size)
               /\ phase = "sent" => Requested(header, size) \subseteq start..(pos - 1)
    <3>1. /\ Requested(header, size) = start..LastByte(header, size)
          /\ LastByte(header, size) \in Nat
      BY <2>1, RangeIsRequested, MediaAssumption DEF MediaInv, MediaTypeOK, Delivering
    <3>2. /\ pos + remaining = LastByte(header, size) + 1
          /\ phase = "sent" => remaining = 0
      BY <2>1 DEF MediaInv, Delivering
    <3> QED
      BY <3>1, <3>2 DEF MediaInv, MediaTypeOK
  <2>2. ASSUME phase = "sent", header.form = "none"
        PROVE  Requested(header, size) \subseteq start..(pos - 1)
    BY <2>2 DEF MediaInv, MediaTypeOK, Delivering, Requested
  <2> QED
    BY <2>1, <2>2 DEF BodyExact
<1> QED
  BY <1>1, <1>2, <1>3, PTL DEF MediaSpec

(* 416 is the answer to a range that is malformed or selects nothing, and   *)
(* to no other.                                                            *)
THEOREM RefusedAlwaysRightly == MediaSpec => []RefusedRightly
<1>1. MediaInit => MediaInv
  BY MediaInvInit, MediaAssumption
<1>2. MediaInv /\ [MediaNext]_mediaVars => MediaInv'
  BY MediaInvStep, MediaAssumption
<1>3. MediaInv => RefusedRightly
  <2> SUFFICES ASSUME MediaInv PROVE RefusedRightly
    OBVIOUS
  <2>1. ASSUME phase = "refused" PROVE Requested(header, size) = {}
    <3>1. Refused(header, size) /\ header \in Headers /\ size \in Nat
      BY <2>1 DEF MediaInv, MediaTypeOK, Delivering
    <3>2. CASE header.form = "invalid"
      BY <3>2 DEF Requested
    <3>3. CASE header.form = "suffix"
      <4>1. header.last \in Int
        BY <3>1, <3>3, MediaAssumption DEF Headers, MediaAssumption
      <4>2. header.last <= 0 \/ size <= 0
        BY <3>1, <3>3, <4>1 DEF Refused, FirstByte, LastByte
      <4> QED
        BY <3>1, <3>3, <4>1, <4>2 DEF Requested
    <3>4. CASE header.form = "from"
      <4>1. header.first \in Nat
        BY <3>1, <3>4 DEF Headers
      <4>2. header.first >= size
        BY <3>1, <3>4, <4>1 DEF Refused, FirstByte, LastByte
      <4> QED
        BY <3>1, <3>4, <4>1, <4>2 DEF Requested
    <3>5. CASE header.form = "span"
      <4>1. header.first \in Nat /\ header.last \in Int
        BY <3>1, <3>5, MediaAssumption DEF Headers, MediaAssumption
      <4>2. header.first >= size \/ header.last < header.first
        BY <3>1, <3>5, <4>1 DEF Refused, FirstByte, LastByte
      <4> QED
        BY <3>1, <3>5, <4>1, <4>2 DEF Requested
    <3> QED
      BY <3>1, <3>2, <3>3, <3>4, <3>5 DEF Headers, Refused
  <2>2. ASSUME phase \in {"opening", "sending", "sent"}, header.form # "none"
        PROVE  Requested(header, size) # {}
    <3>1. /\ Requested(header, size) = FirstByte(header, size)..LastByte(header, size)
          /\ FirstByte(header, size) \in Nat /\ LastByte(header, size) \in Nat
          /\ FirstByte(header, size) <= LastByte(header, size)
      BY <2>2, RangeIsRequested, MediaAssumption DEF MediaInv, MediaTypeOK, Delivering
    <3> QED
      BY <3>1
  <2> QED
    BY <2>1, <2>2 DEF RefusedRightly
<1> QED
  BY <1>1, <1>2, <1>3, PTL DEF MediaSpec
=============================================================================
