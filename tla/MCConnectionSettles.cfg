SPECIFICATION FairSpec
CONSTANTS
    c1 = c1
    c2 = c2
    Callers <- OneCaller
    MaxEvents = 2
    MaxIds = 1
    RequiresApproval = TRUE
    Patient = FALSE
    Reachable = TRUE
    FeedReliable = TRUE
    Crashes = FALSE
INVARIANTS
    RoutedOnlyIfGranted
PROPERTIES
    UndisturbedLeavesNothing
    PendingSettles
