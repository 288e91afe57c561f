SPECIFICATION FairSpec
CONSTANTS
    TTL = 2
    RefreshWindow = 1
    f1 = f1
    f2 = f2
    c1 = c1
    c2 = c2
    None = None
    Err = Err
    Fetch <- TwoFetches
    Caller <- TwoCallers
    MaxTime = 2
    MaxVersion = 1
    MaxGeneration = 1
INVARIANTS
    NoStaleWrite
    NoStaleReturn
PROPERTIES
    GetReturns
