CONSTANTS
    so1 = so1
    rc1 = rc1
    g1 = g1
    h1 = h1
    h2 = h2
    w1 = w1
    w2 = w2
    Docs = {so1}
    Receipts = {}
    Heads = {h1}
    Goods = {g1}
    ItemLists <- MCOneList
    PickSet <- MCOnePick
    Days = {1,2,3}
    Notes = {"n"}
    Workers = {w1}
    Ops <- MoveOps
    None = None
    MaxId = 2
    MaxRev = 4
SPECIFICATION Spec
INVARIANTS CompleteBeforePartial
