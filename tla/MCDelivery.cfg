CONSTANTS
    n1 = n1
    n2 = n2
    s1 = s1
    s2 = s2
    w1 = w1
    w2 = w2
    Nums = {n1,n2}
    Scs = {s1}
    ScsOf <- MCAllRecords
    Days = {1}
    Workers = {w1,w2}
    Troubled = {}
    None = None
    MaxDel = 1
    MaxRev = 2
    Fickle = {s1}
    Revised = {1}
    MaxCrash = 1
SPECIFICATION Spec
SYMMETRY Symmetry
INVARIANTS TypeOK RowsMatch MissingRestored
PROPERTIES SavedFromLatest
CHECK_DEADLOCK FALSE
