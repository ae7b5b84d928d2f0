SPECIFICATION Spec
CONSTANTS
    r1 = r1
    r2 = r2
    u1 = u1
    u2 = u2
    NoUser = NoUser
    Torn = Torn
    Rcpts = {r1, r2}
    LocalRcpts = {r1}
    Users = {u1, u2}
    UserPerms <- MCPerms
    NoEmit <- MCNoEmit
    ulSetupFlags = {"MAIL_LOCKED", "WANT_TLS"}
    IPRelay = FALSE
    PopAuth = TRUE
    iMaxRcpts = 2
    iErrorsMax = 2
    IOFails = TRUE
    CloseFails = FALSE
    MaxMessages = 2
INVARIANTS
    FileMatchesClient
    AckedIsSpooled
    RelayIsPermitted
    ServerRulesHold
