SPECIFICATION FairSpec
CONSTANTS
    m1 = m1
    m2 = m2
    w1 = w1
    w2 = w2
    t1 = t1
    t2 = t2
    NoMsg = NoMsg
    Msgs = {m1, m2}
    Workers = {w1, w2}
    Admins = {}
    iMaxRetry = 2
    RemoveSpoolErrors = TRUE
    IOFails = FALSE
    MaxRestarts = 1
INVARIANTS
    QueueCountsAgree
    SingleOwner
    SpoolFilesAreOwned
    DeliveredOncePerRestart
    RetryBound
PROPERTIES
    SpooledIsSettled
