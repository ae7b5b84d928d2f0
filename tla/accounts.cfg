SPECIFICATION Spec
CONSTANTS
    d1 = d1
    d2 = d2
    u1 = u1
    u2 = u2
    s1 = s1
    s2 = s2
    Domains = {d1, d2}
    Accounts = {u1, u2}
    Sessions = {s1, s2}
    Deliverers = {p1}
    DomainOf <- MCDomainOf
    Requests <- MCRequests
    MaxCommands = 5
    MaxDeliveries = 1
    MaxBorn = 5
    MaxFaults = 1
SYMMETRY SessionSymmetry
INVARIANTS
    AccountsAreWhole
    NothingIsInherited
    NamesAreDistinct
PROPERTIES
    MailIsKept
CHECK_DEADLOCK FALSE
