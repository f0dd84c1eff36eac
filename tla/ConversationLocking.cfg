SPECIFICATION Spec
CONSTANTS
    Sessions = {s1}
    Msgs = {m1, m2, m3}
    Ends = {e1}
    Runs = {r1}
    MaxMessages = 2
    Environment = {"disconnect"}
    GPU = GPU
    DITTO = DITTO
    Nobody = Nobody
    Nothing = Nothing
SYMMETRY SymmetryOfMessages
INVARIANTS
    TypeOK
    QueuesOrdered
    NoDeadlock
    SlotsExact
    Serialised
    NoPermitLeaked
    HistoryCurrent
