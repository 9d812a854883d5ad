CONSTANTS
    w1 = w1
    w2 = w2
    HQ = TRUE
    a = a
    b = b
    Lists = {none, a}
    Empty = none
    Web = {w1, w2}
    Limit = 2
    None = None
    MaxPid = 2
    MaxQid = 2
    MaxRev <- MCMaxRev
    MaxSends = 2
    MaxFails = 1
SPECIFICATION FairSpec
INVARIANTS TypeOK LiveRowsLinked OrderedAsWritten NoNeedlessOrder DoneIsOrdered
PROPERTIES DoneIsFinal RowsAnswered
CHECK_DEADLOCK FALSE
