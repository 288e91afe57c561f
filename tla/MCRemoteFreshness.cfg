SPECIFICATION Spec
CONSTANTS
    t1 = t1
    t2 = t2
    n1 = n1
    n2 = n2
    Task <- TwoTasks
    Node <- TwoNodes
    None = None
    Intervals = {"positive"}
    Origins = {"open", "snapshot_at_current_version"}
    MaxVersion = 3
    MaxGeneration = 1
SYMMETRY Symmetric
INVARIANTS
    TypeOK
    ReadsFresh
    ConstraintsMeetable
