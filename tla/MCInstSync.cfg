SPECIFICATION Spec
CONSTANTS
    a = a
    b = b
    f = f
    g = g
    Stores = {a, b}
    Fields = {f, g}
    None = None
    MaxEdits = 2
    MaxFails = 1
SYMMETRY Symmetry
INVARIANTS
    TypeOK
    Converged
CHECK_DEADLOCK FALSE
