CONSTANTS
    n1 = n1
    n2 = n2
    s1 = s1
    s2 = s2
    w1 = w1
    w2 = w2
    Nums = {n1}
    Scs = {s1,s2}
    ScsOf <- MCAllRecords
    Days = {1,2}
    Workers = {w1}
    Troubled = {n1}
    None = None
    MaxDel = 2
    MaxRev = 1
    Fickle = {s1}
    Revised = {1}
    MaxCrash = 0
SPECIFICATION Spec
INVARIANTS CountedOnce NoRedeliverySameDay
CHECK_DEADLOCK FALSE
