CONSTANTS
    c1 = c1
    c2 = c2
    A = A
    B = B
    NoClient = NoClient
    Clients <- OneClient
    Names <- TwoNames
    Lens = {1, 2}
    PageSize = 3
    NumPages = 3
    MaxRecs = 2
    MaxSaves = 4
    MaxDeletes = 0
    MaxGets = 0
    MaxSwaps = 2
    MaxLeases = 1
    MaxOtas = 1
    MaxCuts = 0
    SwapInCompaction = FALSE
    StaleLookups = TRUE
SPECIFICATION Spec
INVARIANTS ExecutedIntact 
PROPERTIES FrozenPagesUntouched
CHECK_DEADLOCK FALSE
