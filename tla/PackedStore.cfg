SPECIFICATION Spec
CONSTANTS
    Handles = {h1, h2}
    Packers = {h1, h2}
    Nodes = {1, 2}
    Kids <- MCKids
    Jobs = {{1}, {2}}
    Kinds = {"insert", "construct"}
    Reclaims = TRUE
    Temps = {}
    Unknown = Unknown
    TierLimit = 1
    CatalogLimit = 2
    MaxFaults = 1
INVARIANTS AuthorityOpens SettledSurvives ReclaimSparesUse ReadsItsWrites
SYMMETRY MCSymmetry
