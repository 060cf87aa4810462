SPECIFICATION Spec
CONSTANTS
    Backend = "local"
    Compactors = {c1}
    Readers = {r1}
    Ids = {k1, k2}
    NoPath = NoPath
    NoFile = NoFile
    Modes = {TRUE, FALSE}
    MaxVersion = 1
    MaxCommits = 2
    MaxTags = 2
    MaxTemps = 1
SYMMETRY Symmetry
INVARIANTS
    HybridReadComplete
    NoRecordLostAlone
    TakenTempIndexed
    FrontierIsFolded
