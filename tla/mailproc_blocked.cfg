SPECIFICATION Spec
CONSTANTS
    Files <- MCFiles
    Routes = {"domain"}
    Copies = 2
    iMaxRetry = 2
    IOFails = FALSE
    MaxRestarts = 1
PROPERTY
    NothingAfterCleanup
CHECK_DEADLOCK FALSE
