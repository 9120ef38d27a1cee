CONSTANTS
    Publishers = {p1, p2}
    FileNames = {n1, n2}
    Values = {v1, v2}
    Missing = Missing
    Junk = Junk
SPECIFICATION Spec
SYMMETRY Symmetry
INVARIANTS
    AckedStays
    TornOnlyByBatch
