SPECIFICATION FairSpec
CONSTANTS
    c1 = c1
    c2 = c2
    c3 = c3
    c4 = c4
    serverTab = serverTab
    mailbox = mailbox
    aliases = aliases
    g1 = g1
    g2 = g2
    NoResource = NoResource
    NoCall = NoCall
    Calls = {c1, c2, c3, c4}
    Resources = {serverTab, mailbox, aliases}
    Gates = {g1, g2}
    GateOf <- TwoGates
    Wants <- SessionWants
    Enclosing <- SessionNesting
    MemoryFails = TRUE
INVARIANTS
    SleepersHaveAWaker
PROPERTIES
    ImplementsRWLock
    ServedUnlessOvertaken
CHECK_DEADLOCK FALSE
