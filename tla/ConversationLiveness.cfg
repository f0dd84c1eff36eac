SPECIFICATION FairSpec
CONSTANTS
    Sessions = {s1}
    Msgs = {m1, m2}
    Ends = {e1}
    Runs = {r1}
    MaxMessages = 2
    Environment = {"disconnect", "restart"}
    GPU = GPU
    DITTO = DITTO
    Nobody = Nobody
    Nothing = Nothing
PROPERTIES
    MessagesEnd
    EndsAnswered
    RunsServed
