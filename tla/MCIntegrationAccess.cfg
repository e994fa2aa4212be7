SPECIFICATION Spec
CONSTANTS
    s1 = s1
    s2 = s2
    x = x
    h1 = h1
    Services = {s1, s2}
    Scopes = {x}
    Submitters = {h1}
    MaxEvents = 1
    MaxAsked = 2
    MaxVersion = 2
    Evolving = {s1}
    Legacy = {s1}
    Patient = FALSE
    Reliable = FALSE
    WithdrawsInactive = FALSE
CONSTRAINT Watched
INVARIANTS
    TypeOK
    ApprovalIsReviewed
    GrantIsReviewed
    AnsweredIsStored
