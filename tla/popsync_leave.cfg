SPECIFICATION Spec
CONSTANTS
    Links <- OneLink
    Home <- MCHome
    Leaves = {"keep"}
    FromHeader = {}
    Slots = 1
    NumSyncThreads <- OneThread
    ErrorAccount = FALSE
    Faults = {"reply"}
    MaxArrivals = 0
    MaxSyncs = 3
    MaxFaults = 1
    MaxStarts = 1
INVARIANTS
    OnlyTheNewOnes
CHECK_DEADLOCK FALSE
