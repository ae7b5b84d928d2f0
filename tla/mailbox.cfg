SPECIFICATION FairSpec
CONSTANTS
    m1 = m1
    m2 = m2
    m3 = m3
    m4 = m4
    s1 = s1
    s2 = s2
    w1 = w1
    w2 = w2
    NoMsg = NoMsg
    Msgs = {m1, m2, m3, m4}
    Sessions = {s1, s2}
    Workers = {w1, w2}
    llMsgSize <- MCSize
    MaxMBSize = 2
    HangOnBadLogin = TRUE
    POP3Enabled = TRUE
    IOFails = TRUE
INVARIANTS
    LockMatchesSession
    ListedMessagesExist
    QuotaOverrun
PROPERTIES
    OnlyQuitRemoves
    LockIsReleased
