CONSTANTS
    good = good
    crash = crash
    Stock = Stock
    None = None
    Hdr = Hdr
    Junk = Junk
    Gone = Gone
    Images <- TwoImages
    Crashes <- OneCrashes
    Faults <- NoFaults
    MaxFaults = 4
    MaxUploads = 2
    MaxAsks = 1
    MaxSaves = 1
SPECIFICATION Spec
INVARIANTS Bootable RecordIsHonest LibraryKept TakeoverGivesUp
PROPERTIES RunningSlotUntouched CrashLoopEnds MigrationFinishes
CHECK_DEADLOCK FALSE
