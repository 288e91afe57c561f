SPECIFICATION MCSpec
CONSTANTS
    Lengths = {0, 3}
    Rejected = {1, 3}
    NumPartitions = 2
    MaxBytes = 1
    Retries = 2
    Adds = {a1, a2}
    Partitions = {p1, p2}
    MaxVersion = 4
    s1 = s1
    s2 = s2
    b1 = b1
    b2 = b2
    b3 = b3
    MAX_REISSUES = 1
    MAX_RETRIES = 1
    MaxCrashes = 2
    MaxFaults = 2
CHECK_DEADLOCK FALSE
INVARIANT CommittedOnce
