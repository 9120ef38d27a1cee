SPECIFICATION Spec
CONSTANTS
    Absent = Absent
    Stray = Stray
    Found <- MCFound
    MaxBuilds = 2
    Authorities = {a1, a2}
    First = a1
    Length <- MCLength
    EdgeBytes = 2
    SampleBytes = 6
    RangeBytes = 2
    MaxFaults = 1
CHECK_DEADLOCK FALSE
INVARIANTS EvidenceKept PublishedWhole ToldStays SampleCovers
