CONSTANTS
    Openers = {o1, o2}
    Ids = {a, b, c, d}
    Capacity = 3
    NoOpener = NoOpener
    NoId = NoId
    Broken = {Short, Torn}
    Short = Short
    Hole = Hole
SPECIFICATION Spec
SYMMETRY Symmetry
INVARIANTS
    OutcomesHold
PROPERTIES
    NoFrameErased
    ImplementsPromise
