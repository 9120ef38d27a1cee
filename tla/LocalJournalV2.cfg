CONSTANTS
    Openers = {o1, o2}
    Ids = {a, b, c, d, e}
    Capacity = 3
    NoOpener = NoOpener
    NoId = NoId
    Broken = {Torn}
    Hole = Hole
SPECIFICATION Spec
SYMMETRY Symmetry
CHECK_DEADLOCK FALSE
INVARIANTS
    ReturnedSelectedOnce
    AlwaysRecoverable
    OutcomesHold
PROPERTIES
    FailClosed
    ImplementsPromise
