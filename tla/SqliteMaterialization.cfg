SPECIFICATION Spec
CONSTANTS
    Pages = {1, 2, 3}
    Blocks = {11, 12}
    Contents <- MCContents
    Queries <- MCQueries
    Absent = Absent
    None = None
    MaxChanges = 3
CHECK_DEADLOCK FALSE
INVARIANTS FinalProof ChangesAccepted IncrementalIsRebuild ReadsShowGraph ScanKeepsRows
