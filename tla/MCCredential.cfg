SPECIFICATION Spec
CONSTANTS
    w1 = w1
    w2 = w2
    Workers <- TwoWorkers
    Flows = {"kong-api-key-acl", "client-credentials"}
    Activities = {"collect", "approve", "reject", "cancel", "issue", "renew", "revoke"}
    Overlaps = {"approve", "revoke"}
    MaxRequests = 1
    MaxIds = 2
    MaxKeys = 3
    MaxFaults = 1
CONSTRAINT Watched
SYMMETRY Symmetry
INVARIANTS
    TypeOK
    AccessIsJustified
    IssuanceIsWhole
    IssuedIsInEffect
    EffectIsRevocable
    OnlyCurrentKeyWorks
