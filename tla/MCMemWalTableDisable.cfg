CONSTANTS
    t1 = t1  t2 = t2  s1 = s1  s2 = s2
    r1 = r1  r2 = r2  e1 = e1  e2 = e2
    Task <- TwoTasks
    Shard <- TwoShards
    Row <- TwoRows
    ShardOf <- Routes
    Entry <- TwoEntries
    MaxVersion = 3
    MaxMemtables = 2
    MaxOps = 3
SPECIFICATION Spec
CHECK_DEADLOCK FALSE
PROPERTY DisableDrains
