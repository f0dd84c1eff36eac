SPECIFICATION Spec
CONSTANTS
    Sessions = {s1}
    Msgs = {m1, m2}
    Ends = {e1}
    Runs = {}
    MaxMessages = 2
    Environment = {}
    GPU = GPU
    DITTO = DITTO
    Nobody = Nobody
    Nothing = Nothing
INVARIANTS
    EndedSessionsHaveNoMedia
