SPECIFICATION StreamSpec
CONSTANTS
    Streams = {s1}
    Workers = 1
    MaxPieces = 2
INVARIANT FailureReported
CHECK_DEADLOCK FALSE
