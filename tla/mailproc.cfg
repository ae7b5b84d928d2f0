SPECIFICATION Spec
CONSTANTS
    Files <- MCFiles
    Routes = {"local", "remote", "list", "unknown", "cmdalias", "domain", "user"}
    Copies = 2
    iMaxRetry = 2
    IOFails = TRUE
    MaxRestarts = 1
INVARIANTS
    RepeatsAreExplained
    NothingIsForgotten
    StopIsKept
CHECK_DEADLOCK FALSE
