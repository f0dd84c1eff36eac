SPECIFICATION StoredSpec
CONSTANTS
    Photos = {p1}
    Voices = {v1, v2}
    Starts = {r1, r2}
    Deletes = {d1}
    Sessions = {s1}
    Msgs = {m1}
    Ends = {e1}
    MaxMessages = 1
    Environment = {"disconnect", "idle"}
    GPU = GPU
    DITTO = DITTO
    Nobody = Nobody
    Nothing = Nothing
    NoFile = NoFile
SYMMETRY Symmetry
INVARIANTS
    ServiceTypeOK
    RunsHoldTheirs
    WorkersExclusive
    Paired
