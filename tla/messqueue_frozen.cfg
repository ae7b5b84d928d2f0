SPECIFICATION Spec
CONSTANTS
    m1 = m1
    m2 = m2
    w1 = w1
    w2 = w2
    t1 = t1
    t2 = t2
    NoMsg = NoMsg
    Msgs = {m1}
    Workers = {w1}
    Admins = {t1, t2}
    iMaxRetry = 2
    RemoveSpoolErrors = FALSE
    IOFails = TRUE
    MaxRestarts = 1
SYMMETRY MsgSymmetry
INVARIANTS
    AcceptedIsKept
PROPERTIES
    UndeliveredIsFrozen
    ImplementsReliableSpool
