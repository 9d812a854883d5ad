SPECIFICATION FairSpec
CONSTANTS
    None = None
    Lens = {0, 5, 8}
    Tops = {14}
    Heights = {1, 2}
    MaxPage = 1
INVARIANTS TypeOK IdleShowsAll CacheInStep
PROPERTY ComesToRest
