SPECIFICATION Spec
CONSTANTS
    Backend = "s3"
    Items = {i1}
    Workers = {w1, w2}
    Producers = {e1}
    NoPath = NoPath
    MaxTags = 3
    MaxPlace = 1
INVARIANTS
    LiveLeaseIsExclusive
