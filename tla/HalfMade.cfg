SPECIFICATION Spec
CONSTANTS
    Photos = {p1}
    Voices = {v1}
    Starts = {r1, r2}
    Deletes = {}
    Environment = {"restart"}
    NoFile = NoFile
INVARIANTS
    ReadyWhole
