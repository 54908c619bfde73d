CONSTANTS
    c1 = c1
    c2 = c2
    A = A
    B = B
    NoClient = NoClient
    Clients <- OneClient
    Names <- TwoNames
    Lens = {1, 3}
    PageSize = 3
    NumPages = 3
    MaxRecs = 2
    MaxSaves = 5
    MaxDeletes = 0
    MaxGets = 0
    MaxSwaps = 0
    MaxLeases = 0
    MaxOtas = 0
    MaxCuts = 1
    SwapInCompaction = TRUE
    StaleLookups = FALSE
SPECIFICATION Spec
INVARIANTS TypeOK VersionsTold LossBounded RebootKeepsPromises CompactionDelivers
CHECK_DEADLOCK FALSE
