SPECIFICATION Spec
CONSTANTS
    Host = {"a", "b", "c", "d", "dom", "cut"}
    Domain = "dom"
    Remnants = {"cut"}
    Configs <- MCConfigs
    MaxMX = 3
    MaxDepth = 1
    MaxReferrals = 2
    MaxAttempts = 2
    MaxCrashes = 1
INVARIANTS
    TriedByPreference
    OutcomeMatchesAnswers
    ForcedIsSecure
PROPERTIES
    AttemptEnds
    ImplementsAtLeastOnce
CHECK_DEADLOCK FALSE
