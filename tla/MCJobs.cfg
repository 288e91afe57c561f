SPECIFICATION MCSpec
CONSTANTS
    Cancellers = {c1, c2, c3}
    MaxEndpoints = 2
    MaxPolls = 2
    Capacity = 1
    MaxCalls = 2
    Nobody = Nobody
    Readers = {r1, r2}
    Stoppers = {s1, s2}
    MaxBatches = 2
INVARIANTS
    BothTypesOK
    EndIsWhole
    CancelTellsTruth
    StatusTellsOutcome
    RowsKeptForReaders
PROPERTIES
    EndsOnce
    AllReturn
CHECK_DEADLOCK FALSE
