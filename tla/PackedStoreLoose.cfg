\* Every kind of mutation, a catalog that one node fills, and one handle whose
\* publisher permits no packed head.
SPECIFICATION Spec
CONSTANTS
    Handles = {h1, h2}
    Packers = {h1}
    Nodes = {1, 2}
    Kids <- MCKids
    Jobs = {{1}, {2}, {1, 2}}
    Kinds = {"insert", "construct", "remove"}
    Reclaims = TRUE
    Temps = {t1}
    Unknown = Unknown
    TierLimit = 1
    CatalogLimit = 1
    MaxFaults = 1
INVARIANT ChildrenBeforeParents
CHECK_DEADLOCK FALSE
