SPECIFICATION Spec
CONSTANTS
    Backend = "local"
    Workers = {w1, w2, w3}
    Paths = {p1}
    NoPath = NoPath
    MaxTags = 3
SYMMETRY WorkerSymmetry
INVARIANTS
    ExclusiveUntilLapse
    HolderKeepsLease
