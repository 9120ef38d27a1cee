SPECIFICATION Spec
CONSTANTS
    Conns = {c1, c2}
    Batch <- MCBatch
    Priority <- MCPriority
SYMMETRY MCSymmetry
CHECK_DEADLOCK FALSE
INVARIANTS FrontierWhole DocumentsExact DescendsExact TerminalAgrees StampCovers
PROPERTY AcceptsInOrder
