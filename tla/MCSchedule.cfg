CONSTANTS
    so1 = so1
    rc1 = rc1
    g1 = g1
    h1 = h1
    h2 = h2
    w1 = w1
    w2 = w2
    Docs = {so1}
    Receipts = {}
    Heads = {h1}
    Goods = {g1}
    ItemLists <- MCItemLists
    PickSet <- MCPicks
    Days = {1,2}
    Notes = {"n"}
    Workers = {w1,w2}
    Ops <- AllOps
    None = None
    MaxId = 1
    MaxRev = 3
SPECIFICATION Spec
SYMMETRY Symmetry
INVARIANTS TypeOK RecordsCoherent ChangeShown ReadsValid
PROPERTIES ImplementsBooking
