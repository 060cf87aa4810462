SPECIFICATION FairSpec
CONSTANTS
    Backend = "s3"
    Workers = {w1, w2, w3}
    Paths = {p1}
    NoPath = NoPath
    MaxTags = 3
INVARIANTS
    TypeOK
    ExclusiveUntilLapse
    HolderKeepsLease
    OneSuccessor
PROPERTIES
    OrphansReclaimed
