SPECIFICATION FairSpec
CONSTANTS
    c1 = c1
    c2 = c2
    None = None
    Callers <- TwoCallers
    Buffer = 2
    Default = 5
    Lifetimes = {3, 4}
    MaxLatency = 1
    MaxTransit = 1
    MaxTime = 6
INVARIANTS
    TypeOK
    ServedIsValid
PROPERTIES
    SettledIsNotShared
    CacheIsNotSetBack
    CallsAreAnswered
