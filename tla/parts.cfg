SPECIFICATION PartsSpec
CONSTANTS
    Backend = "local"
    Writers = {w1, w2}
    Documents <- FieldLists
    NoText = NoText
    MaxTags = 3
    Ttls = {1, 7, 26, 27, 30}
    Years <- SampleYears
    MaxAge = 62
    Records <- SampleRecords
    Missing = Missing
    Null = Null
    NoRecord = NoRecord
    Functions = {f, g, h}
    Names = {n1, n2}
    Decls <- SampleDecls
    Wirings <- SampleWirings
    Bare = {h}
    Takes <- SampleTakes
    Gives <- SampleGives
    Below <- SampleBelow
    None = None
    MaxChosen = 2
    PhaseNames = {"pending", "completed"}
    Addresses = {1, 2}
    Nothing = Nothing
    MaxMade = 3
    f = f
    g = g
    h = h
    n1 = n1
    n2 = n2
SYMMETRY PartSymmetry
INVARIANTS
    TypeOK
    BaseFieldsKept
    RestsProtected
    DatesOK
    FreshKept
    StaleReported
    FoldTyped
    FoldIsOfTheSet
    LatestKept
    GraphTyped
    AppIsRegistered
    TokensKeptApart
