----------------------------- MODULE MCAlgorithms -----------------------------
(* The three mechanisms that share nothing with the rest of the service, each *)
(* from every input of a small set.  They share nothing with one another     *)
(* either, so two of them rest while the third runs.                        *)
EXTENDS MediaResponse, HistoryTrim, GemmaStream

MCNumbers == -1..5

MediaRests  == phase = "idle" /\ length = 0 /\ ~known /\ ~linked
TrimRests   == history = <<>>
StreamRests == \A s \in Streams : reader[s] = "idle"

AlgInit == MediaInit /\ TrimInit /\ StreamInit

AlgNext ==
    \/ TrimRests /\ StreamRests /\ MediaNext /\ UNCHANGED <<trimVars, streamVars>>
    \/ MediaRests /\ StreamRests /\ TrimNext /\ UNCHANGED <<mediaVars, streamVars>>
    \/ MediaRests /\ TrimRests /\ StreamNext /\ UNCHANGED <<mediaVars, trimVars>>

AlgSpec ==
    /\ AlgInit /\ [][AlgNext]_<<mediaVars, trimVars, streamVars>>
    /\ MediaFairness /\ StreamFairness
=============================================================================
