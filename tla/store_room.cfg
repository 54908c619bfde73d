CONSTANTS
    c1 = c1
    c2 = c2
    A = A
    B = B
    NoClient = NoClient
    Clients <- TwoClients
    Names <- TwoNames
    Lens = {1, 2}
    PageSize = 3
    NumPages = 3
    MaxRecs = 2
    MaxSaves = 3
    MaxDeletes = 0
    MaxGets = 0
    MaxSwaps = 0
    MaxLeases = 2
    MaxOtas = 0
    MaxCuts = 1
    SwapInCompaction = TRUE
    StaleLookups = TRUE
SPECIFICATION Spec
PROPERTIES ImplementsDurableStore
CHECK_DEADLOCK FALSE
