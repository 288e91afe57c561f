SPECIFICATION MCSpec
CONSTANTS
    t1 = t1
    t2 = t2
    f1 = f1
    f2 = f2
    Task <- TwoTasks
    Fetch <- TwoFetches
    None = None
    Err = Err
    TTL = 2
    RefreshWindow = 1
    MaxTime = 1
    MaxGeneration = 6
    MaxInvalidations = 3
    MaxVersion = 2
    MaxCheckouts = 2
    MaxOps = 3
SYMMETRY Symmetric
CHECK_DEADLOCK FALSE
INVARIANTS BothTypesOK PinConsistent GetNotStale SchemaOfTimeline
PROPERTIES SnapshotProvenance HandleSpec
