SPECIFICATION Spec
CONSTANTS
    v1 = v1
    v2 = v2
    Keys <- MCKeys
    Values = {v1, v2}
    Batches <- MCBatches
    Removals <- MCRemovals
    EmptyTree = EmptyTree
    Absent = Absent
    Malformed = Malformed
    Budget = 6
    MaxUpdates = 3
    MaxFaults = 1
CHECK_DEADLOCK FALSE
INVARIANTS RootsCanonical LookupsExact BulkAgrees RootsReadable
