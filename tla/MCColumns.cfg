CONSTANTS
    Refreshers = {r1, r2}
    Inputs = {a, u}
    Undefined = u
    Supplied = s
    Null = null
    MaxVersion = 4
    MaxCalls = 2
    Processes = 2
    MaxSource = 2
    MaxRows = 2
    MaxView = 3
SPECIFICATION MCSpec
SYMMETRY Symmetry
CHECK_DEADLOCK FALSE
INVARIANTS BothTypesOK FreshMeansCurrent RefreshFills ViewIsOneResult SourceNeverRegresses
PROPERTY CompactionKeepsFreshness
