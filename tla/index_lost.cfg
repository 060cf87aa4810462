SPECIFICATION Spec
CONSTANTS
    Backend = "s3"
    Compactors = {c1, c2}
    Readers = {}
    Ids = {k1, k2}
    NoPath = NoPath
    NoFile = NoFile
    Modes = {TRUE}
    MaxVersion = 1
    MaxCommits = 3
    MaxTags = 3
    MaxTemps = 1
INVARIANTS
    NoRecordLost
