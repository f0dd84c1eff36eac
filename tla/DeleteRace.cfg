SPECIFICATION Spec
CONSTANTS
    Photos = {p1}
    Voices = {v1}
    Starts = {r1}
    Deletes = {d1}
    Environment = {}
    NoFile = NoFile
INVARIANTS
    DeletedForGood
