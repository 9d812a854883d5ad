SPECIFICATION Spec
CONSTANTS
    i1 = i1
    i2 = i2
    u1 = u1
    u2 = u2
    w1 = w1
    w2 = w2
    None = None
    Counted <- OneItem
    Items <- TwoItems
    UserSeq <- OneUser
    Workers <- TwoWorkers
    Stock = {1}
    Gaps <- OneGap
    MaxRow = 2
    MaxRev = 2
    MaxCounts = 2
    MaxEvents = 1
INVARIANTS TypeOK Corrected LiveRowsLinked ListSent
CHECK_DEADLOCK FALSE
SYMMETRY Symmetry
