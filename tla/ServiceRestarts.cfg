SPECIFICATION StoredFairSpec
CONSTANTS
    Photos = {p1}
    Voices = {v1}
    Starts = {r1, r2}
    Deletes = {d1}
    Sessions = {s1}
    Msgs = {}
    Ends = {}
    MaxMessages = 1
    Environment = {"db", "restart"}
    GPU = GPU
    DITTO = DITTO
    Nobody = Nobody
    Nothing = Nothing
    NoFile = NoFile
INVARIANTS
    TypeOK
    SessionsUsable
    ReadyComplete
    
PROPERTIES
    OnlyKillsLeaveHalf
    PollEnds
