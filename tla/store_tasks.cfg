CONSTANTS
    c1 = c1
    c2 = c2
    A = A
    B = B
    NoClient = NoClient
    Clients <- TwoClients
    Names <- TwoNames
    Lens = {1}
    PageSize = 3
    NumPages = 2
    MaxRecs = 2
    MaxSaves = 5
    MaxDeletes = 1
    MaxGets = 1
    MaxSwaps = 0
    MaxLeases = 0
    MaxOtas = 0
    MaxCuts = 0
    SwapInCompaction = TRUE
    StaleLookups = FALSE
SPECIFICATION Spec
INVARIANTS RamAgrees DeadWordHitsItsFile
CHECK_DEADLOCK FALSE
