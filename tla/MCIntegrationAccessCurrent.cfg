SPECIFICATION FairSpec
CONSTANTS
    s1 = s1
    s2 = s2
    x = x
    h1 = h1
    Services = {s1, s2}
    Scopes = {x}
    Submitters = {h1}
    MaxEvents = 2
    MaxAsked = 1
    MaxVersion = 2
    Evolving = {s1}
    Legacy = {}
    Patient = TRUE
    Reliable = TRUE
    WithdrawsInactive = TRUE
INVARIANTS
    WithdrawnIsRevoked
PROPERTIES
    ApprovedIsGranted
