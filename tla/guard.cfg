CONSTANTS
    t1 = t1
    t2 = t2
    t3 = t3
    t4 = t4
    Tasks <- FourTasks
    WRITER = 3
    WriteTries = 2
    ReadTries = 1
SPECIFICATION FairGuardSpec
INVARIANTS Exclusion BusyCounts
PROPERTIES EveryWaitEnds
