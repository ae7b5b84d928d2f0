SPECIFICATION Spec
CONSTANTS
    Links <- MCLinks
    Home <- MCHome
    Leaves = {"keep"}
    FromHeader = {"take"}
    Slots = 2
    NumSyncThreads <- TwoThenOne
    ErrorAccount = TRUE
    Faults = {"reply", "spool", "disk"}
    MaxArrivals = 1
    MaxSyncs = 2
    MaxFaults = 1
    MaxStarts = 2
INVARIANTS
    NothingIsLost
    FetchesAreExplained
    LocksAreHeld
PROPERTIES
    ServiceOutlivesClients
    RoundsEnd
CHECK_DEADLOCK FALSE
