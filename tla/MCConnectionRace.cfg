SPECIFICATION Spec
CONSTANTS
    c1 = c1
    c2 = c2
    Callers <- TwoCallers
    MaxEvents = 4
    MaxIds = 2
    RequiresApproval = TRUE
    Patient = FALSE
    Reachable = FALSE
    FeedReliable = TRUE
    Crashes = FALSE
PROPERTIES
    OnlyServiceOrgGrants
