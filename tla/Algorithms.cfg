SPECIFICATION AlgSpec
CONSTANTS
    Chunk = 2
    MaxLength = 4
    Numbers <- MCNumbers
    MaxChars = 4
    MaxMessages = 4
    Texts = {0, 1, 4}
    MaxTurns = 4
    Streams = {s1, s2}
    Workers = 1
    MaxPieces = 1
INVARIANTS
    MediaTypeOK
    RefusedRightly
    BodyExact
    ReplyWhole
PROPERTIES
    GetEnds
    PromptIsLongestThatFits
    Forgets
    StreamsEnd
    ThreadsReturn
\* A request or a stream that is over, or a session at its bound, stops.
CHECK_DEADLOCK FALSE
