SPECIFICATION MCSpec
CONSTANTS
    p1 = p1
    p2 = p2
    t1 = t1
    t2 = t2
    t3 = t3
    Process <- TwoProcesses
    Task <- ThreeTasks
    ProcessOf <- Placement
    Config <- Configurations
    Lifetime = {2}
    Buffer = 1
    MaxToken = 3
    MaxClock = 1
    MaxOps = 3
    Deadline = 3
    ReadTimeout = 2
    CodeExpiry = 2
CHECK_DEADLOCK FALSE
INVARIANTS BothTypesOK RotationSerialized SessionStaysGone 
PROPERTY AllEnd
