SPECIFICATION Spec
CONSTANTS
    Keys = {1, 2}
    v1 = v1
    Values = {v1}
    Batches <- MCBatches
    Deleted = Deleted
    Torn = Torn
    Empty = Empty
    Failure = Failure
    Levels = 3
    BufferSize = 1
    Buffered = 1
    Budget = 2
    MaxPages = 4
    MaxFaults = 2
INVARIANTS ReadsNewest SessionBounded
