SPECIFICATION FairSpec
CONSTANTS
    a = a
    w1 = w1
    w2 = w2
    Names = {a}
    Kongs = {a}
    Site <- MCSite
    Syncs = {w1, w2}
    Periodic = {w1}
    Attempts = 2
    MaxIds = 3
    MaxPublications = 2
    MaxFaults = 1
INVARIANTS
    TypeOK
    SyncedIsMirror
PROPERTIES
    OnlyGoneAreRemoved
    RemadeKeepsRecord
    PublishedIsRecorded
