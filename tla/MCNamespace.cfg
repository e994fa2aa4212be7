SPECIFICATION Spec
CONSTANTS
    u1 = u1
    u2 = u2
    s1 = s1
    s2 = s2
    None = None
    Units = {u1, u2}
    Catalogue = {u1}
    Sessions = {s1, s2}
CONSTRAINT Watched
SYMMETRY Symmetry
INVARIANTS
    TypeOK
    NothingOutlives
    DeletedIsMarked
    AssignedIsPermitted
PROPERTIES
    OnlyProvisionerDeletesSdx
    RolesOutliveCreation
