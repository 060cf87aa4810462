SPECIFICATION InspectorSpec
CONSTANTS
    Backend = "local"
    Items = {i1}
    Workers = {w1}
    NoPath = NoPath
    MaxTags = 2
    Trees <- SampleTrees
INVARIANTS
    TypeOK
    NothingMissed
    HeldIsActive
    KindsTold
