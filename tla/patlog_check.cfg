CONSTANTS
    PageSize = 3
    NumPages = 3
    MaxFiles = 3
    MaxGap = 2
    Lens = {1, 3}
    Seqs = {1, 2}
SPECIFICATION Spec
INVARIANTS OperatorsAreTheLoops CompactionIsSound RoomIsReal
CHECK_DEADLOCK FALSE
