SPECIFICATION Spec
CONSTANTS
    c1 = c1
    c2 = c2
    Callers <- OneCaller
    MaxEvents = 4
    MaxIds = 2
    RequiresApproval = TRUE
    Patient = TRUE
    Reachable = TRUE
    FeedReliable = FALSE
    Crashes = TRUE
INVARIANTS
    TypeOK
    NothingLeftBehind
    ProvisionedIsRouted
PROPERTIES
    KeepsAgreement
