SPECIFICATION MCSpec
CONSTANTS
    Cancellers = {c1, c2, c3}
    MaxEndpoints = 2
    MaxPolls = 2
    Capacity = 1
    MaxCalls = 2
    Nobody = Nobody
    Readers = {r1, r2}
    Stoppers = {s1, s2}
    MaxBatches = 2
INVARIANT CancelledNotFailed
CHECK_DEADLOCK FALSE
