SPECIFICATION Spec
CONSTANTS
    x = x
    y = y
    w1 = w1
    w2 = w2
    w3 = w3
    Lists = {x, y}
    Workers = {w1, w2, w3}
    MaxPO = 1
    MaxSaves = 5
    MaxEnds = 1
SYMMETRY Symmetry
INVARIANTS
    TypeOK
    OrderedOnce
    RecordIsOrdered
CHECK_DEADLOCK FALSE
