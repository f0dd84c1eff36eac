------------------------------ MODULE MCService ------------------------------
(* Small instances of Service for TLC. *)
EXTENDS Service, TLC

Symmetry == Permutations(Voices) \cup Permutations(Starts)

(* The photos and one voice of the persona have been stored.  Of the other    *)
(* requests and the sessions those in "coming" may still come; the rest of    *)
(* the identifiers have been used up by another persona.                      *)
Stored(coming) ==
    /\ row = "DRAFT" /\ step = "none"
    /\ \E v \in Voices :
          /\ voices = <<v>>
          /\ stage = [a \in Actors |-> IF a \in coming \ {v} THEN "idle" ELSE "done"]
    /\ saw = [r \in Starts |-> "none"]
    /\ picked = [r \in Starts |-> NoFile]
    /\ heard = [r \in Starts |-> NoFile]
    /\ at = [r \in Starts |-> 0]
    /\ left = [d \in Deletes |-> {}]
    /\ photos = Photos /\ temp = {}
    /\ refAudio = NoFile /\ refText = NoFile /\ clips = {}
    /\ wholeAudio = NoFile /\ wholeClips = {}
    /\ clipRows = [i \in Clips |-> 0]
    /\ life = [s \in Sessions |-> IF s \in coming THEN "unborn" ELSE "ended"]
    /\ stale = {}
    /\ history = [s \in Sessions |-> <<>>]
    /\ talk = [a \in Msgs \cup Ends |-> IF a \in coming THEN "idle" ELSE "done"]
    /\ target \in [Msgs \cup Ends -> Sessions \cup {Nothing}]
    /\ \A a \in Msgs \cup Ends : (target[a] = Nothing) = (a \in coming)
    /\ seen = [m \in Msgs |-> 0] /\ sent = [m \in Msgs |-> <<>>]
    /\ active = 0
    /\ C!LocksInit
    /\ speakDir = {} /\ wav = {} /\ mp4 = {} /\ safetyLog = {} /\ stray = {}
    /\ asked = {} /\ speakLeft = {}

Anything == Voices \cup Starts \cup Deletes \cup Sessions \cup Msgs \cup Ends

(* One process call beside a conversation, or every process call and a newer  *)
(* voice beside none.                                                       *)
Coming ==
    {Anything \ ((Starts \ {r}) \cup Voices) : r \in Starts}
        \cup {Starts \cup Voices \cup Deletes}

StoredSpec == (\E coming \in Coming : Stored(coming)) /\ [][ServiceNext]_serviceVars

(* All that may come does.  The runs are fair, as in Persona, and so are the  *)
(* semaphores that they wait for.                                           *)
StoredFairSpec ==
    /\ Stored(Anything)
    /\ [][ServiceNext]_serviceVars
    /\ \A r \in Starts : WF_serviceVars(RunContinues(r)) /\ WF_serviceVars(LockGranted(r))
=============================================================================
