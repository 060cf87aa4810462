SPECIFICATION FairSpec
CONSTANTS
    Backend = "local"
    Workers = {w1, w2}
    Paths = {p1}
    NoPath = NoPath
    MaxTags = 3
PROPERTIES
    OrphansReclaimed
