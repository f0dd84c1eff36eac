---------------------------- MODULE MediaResponse ----------------------------
(***************************************************************************)
(* One GET of a clip or of a message's mp4: the handlers of                *)
(* routers/media.py, with parse_range and iter_file_range of               *)
(* storage/filesystem.py.                                                  *)
(*                                                                         *)
(* The file is not the handler's: ffmpeg may still be writing it, rmtree    *)
(* (in a thread, or while the handler awaits) may unlink it.  A file that   *)
(* has been opened can be read after that.                                 *)
(*                                                                         *)
(* Simplifications:                                                        *)
(*  - A byte is its position.  What was delivered is the interval from      *)
(*    start up to pos.                                                     *)
(*  - A header is what parse_range makes of it: "invalid" stands for a      *)
(*    unit that is not bytes, a list of ranges and anything but numbers.    *)
(*  - Paths are not represented (safe_resolve refuses none that the         *)
(*    routes' UUIDs can make).                                             *)
(***************************************************************************)
EXTENDS Integers

CONSTANTS Chunk,        \* _RANGE_CHUNK_SIZE and _FULL_CHUNK
          MaxLength,    \* bound: the length the file may reach
          Numbers       \* bound: the numbers a header may hold

ASSUME MediaAssumption ==
    /\ Chunk \in Nat \ {0}
    /\ MaxLength \in Nat
    /\ Numbers \subseteq Int

Headers == [form : {"none", "invalid"}]
      \cup [form : {"suffix"}, last : Numbers]              \* bytes=-last
      \cup [form : {"from"}, first : Numbers \cap Nat]      \* bytes=first-
      \cup [form : {"span"}, first : Numbers \cap Nat, last : Numbers]

VARIABLES
    known,      \* the persona has a row, or the session is in the store
    linked,     \* the file has a name
    length,     \* the bytes it holds
    phase,      \* where the request is
    header,     \* its Range header
    size,       \* st_size, when the handler asked for it
    start,      \* the first byte to deliver
    pos,        \* the next one
    remaining   \* the bytes still to deliver of a 206

fileVars     == <<known, linked, length>>
responseVars == <<phase, header, size, start, pos, remaining>>
mediaVars    == <<fileVars, responseVars>>

Phases == {"idle", "found", "opening", "sending", "sent", "missing", "refused", "broken"}
-----------------------------------------------------------------------------
(* parse_range *)

(* Mutant: the suffix is not cut off at the length of the file. *)
FirstByteUncut(h, n) == IF h.form = "suffix" THEN n - h.last ELSE h.first

FirstByte(h, n) ==
    IF h.form = "suffix" THEN IF h.last < n THEN n - h.last ELSE 0 ELSE h.first
LastByte(h, n) == IF h.form = "span" /\ h.last < n THEN h.last ELSE n - 1

(* RangeNotSatisfiable *)
Refused(h, n) ==
    \/ h.form = "invalid"
    \/ h.form = "suffix" /\ h.last <= 0
    \/ /\ h.form \in {"suffix", "from", "span"}
       /\ \/ FirstByte(h, n) < 0
          \/ LastByte(h, n) < FirstByte(h, n)
          \/ FirstByte(h, n) >= n
-----------------------------------------------------------------------------
(* The file *)

Grow ==
    /\ linked
    /\ length < MaxLength
    /\ length' = length + 1
    /\ UNCHANGED <<known, linked, responseVars>>

Unlink ==
    /\ linked
    /\ linked' = FALSE
    /\ UNCHANGED <<known, length, responseVars>>

(* The session ends or the persona is deleted. *)
Forgotten ==
    /\ known
    /\ known' = FALSE
    /\ UNCHANGED <<linked, length, responseVars>>
-----------------------------------------------------------------------------
(* The handler *)

Became(p) == phase' = p

(* 404, or the file is there. *)
Lookup(h) ==
    /\ phase = "idle"
    /\ header' = h
    /\ Became(IF known /\ linked THEN "found" ELSE "missing")
    /\ UNCHANGED <<fileVars, size, start, pos, remaining>>

(* st_size, and 416, or the headers of a 200 or a 206. *)
Stat ==
    /\ phase = "found"
    /\ linked
    /\ size' = length
    /\ IF Refused(header, length)
         THEN Became("refused") /\ UNCHANGED <<start, pos, remaining>>
         ELSE /\ Became("opening")
              /\ start' = IF header.form = "none" THEN 0 ELSE FirstByte(header, length)
              /\ pos' = start'
              /\ remaining' = IF header.form = "none" THEN 0
                              ELSE LastByte(header, length) - start' + 1
    /\ UNCHANGED <<fileVars, header>>

(* The file has gone since it was looked up: 500, or a body that never comes. *)
Vanished ==
    /\ phase \in {"found", "opening"}
    /\ ~linked
    /\ Became("broken")
    /\ UNCHANGED <<fileVars, header, size, start, pos, remaining>>

Open ==
    /\ phase = "opening"
    /\ linked
    /\ Became("sending")
    /\ UNCHANGED <<fileVars, header, size, start, pos, remaining>>

Smaller(m, n) == IF m < n THEN m ELSE n

(* Mutant: iter_file_range reads whole chunks. *)
ReadPartWhole ==
    LET data == Smaller(Chunk, length - pos) IN
    /\ phase = "sending"
    /\ header.form # "none"
    /\ IF remaining <= 0 \/ data <= 0
         THEN Became("sent") /\ UNCHANGED <<pos, remaining>>
         ELSE pos' = pos + data /\ remaining' = remaining - data /\ UNCHANGED phase
    /\ UNCHANGED <<fileVars, header, size, start>>

(* A turn of iter_file_range. *)
ReadPart ==
    LET data == Smaller(Smaller(Chunk, remaining), length - pos) IN
    /\ phase = "sending"
    /\ header.form # "none"
    /\ IF remaining <= 0 \/ data <= 0
         THEN Became("sent") /\ UNCHANGED <<pos, remaining>>
         ELSE pos' = pos + data /\ remaining' = remaining - data /\ UNCHANGED phase
    /\ UNCHANGED <<fileVars, header, size, start>>

(* Mutant: the loop over an exhausted file has no break. *)
ReadWholeOn ==
    LET data == Smaller(Chunk, length - pos) IN
    /\ phase = "sending"
    /\ header.form = "none"
    /\ pos' = pos + data
    /\ UNCHANGED <<fileVars, phase, header, size, start, remaining>>

(* A turn of full_iter. *)
ReadWhole ==
    LET data == Smaller(Chunk, length - pos) IN
    /\ phase = "sending"
    /\ header.form = "none"
    /\ IF data = 0
         THEN Became("sent") /\ UNCHANGED pos
         ELSE pos' = pos + data /\ UNCHANGED phase
    /\ UNCHANGED <<fileVars, header, size, start, remaining>>

(* The client goes away. *)
Abandoned ==
    /\ phase \in {"opening", "sending"}
    /\ Became("broken")
    /\ UNCHANGED <<fileVars, header, size, start, pos, remaining>>

MediaInit ==
    /\ known \in BOOLEAN
    /\ linked \in BOOLEAN
    /\ length \in 0..MaxLength
    /\ phase = "idle"
    /\ header = [form |-> "none"]
    /\ size = 0 /\ start = 0 /\ pos = 0 /\ remaining = 0

Serve == Stat \/ Vanished \/ Open \/ ReadPart \/ ReadWhole

MediaNext ==
    \/ Grow \/ Unlink \/ Forgotten
    \/ \E h \in Headers : Lookup(h)
    \/ Serve
    \/ Abandoned

(* The server goes on while the client takes what it is sent. *)
MediaFairness == WF_mediaVars(Serve)

MediaSpec == MediaInit /\ [][MediaNext]_mediaVars
-----------------------------------------------------------------------------
(* Properties *)

MediaTypeOK ==
    /\ known \in BOOLEAN /\ linked \in BOOLEAN
    /\ length \in Nat
    /\ phase \in Phases
    /\ header \in Headers
    /\ size \in Nat /\ start \in Nat /\ pos \in Nat
    /\ remaining \in Nat

(* What a header asks for of a file of n bytes, as HTTP defines it. *)
Requested(h, n) ==
    {i \in 0..(n - 1) :
        CASE h.form = "suffix" -> i >= n - h.last
          [] h.form = "from"   -> i >= h.first
          [] h.form = "span"   -> h.first <= i /\ i <= h.last
          [] OTHER             -> h.form = "none"}

(* filesystem.py:37-70: a range is refused (416) exactly when it is          *)
(* malformed or selects no byte of the file as it was when it was measured. *)
RefusedRightly ==
    /\ phase = "refused" => Requested(header, size) = {}
    /\ phase \in {"opening", "sending", "sent"} /\ header.form # "none" =>
          Requested(header, size) # {}

(* A 206 delivers bytes that were asked for and no others, and when it is   *)
(* sent to its end all of them; a 200 then at least the file as it was       *)
(* measured - also when the file grows or is unlinked while it is read.     *)
BodyExact ==
    /\ phase \in {"sending", "sent"} /\ header.form # "none" =>
          start..(pos - 1) \subseteq Requested(header, size)
    /\ phase = "sent" => Requested(header, size) \subseteq start..(pos - 1)

(* A GET that found its file comes to an end. *)
GetEnds == phase \in {"found", "opening", "sending"} ~>
               phase \in {"sent", "refused", "broken"}
=============================================================================
