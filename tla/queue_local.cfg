SPECIFICATION Spec
CONSTANTS
    Backend = "local"
    Items = {i1}
    Workers = {w1, w2}
    Producers = {e1}
    NoPath = NoPath
    MaxTags = 3
    MaxPlace = 2
SYMMETRY WorkerSymmetry
INVARIANTS
    OneOutcomeUnlessLapse
PROPERTIES
    ImplementsPromise
