CONSTANTS
    c1 = c1
    p1 = p1
    Docs <- MCDocs
    Customers <- MCCustomers
    CbOf <- MCCbOf
    NCb = 2
    None = None
    MaxVer <- MCMaxVer
    MaxLog = 1
    MaxFails = 1
SPECIFICATION FairSpec
INVARIANTS TypeOK NothingSkipped
PROPERTIES NeverBackwards LastIdForward ImplementsReplica CatchesUp
CHECK_DEADLOCK FALSE
