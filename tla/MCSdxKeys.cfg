SPECIFICATION Spec
CONSTANTS
    k0 = k0
    k1 = k1
    k2 = k2
    m1 = m1
    m2 = m2
    m3 = m3
    h1 = h1
    h2 = h2
    Kids <- MCKids
    Materials <- MCMaterials
    IndexKid <- MCIndexKid
    SuppliedKids <- MCSuppliedAll
    Handlers <- MCHandlers
    NoKid = NoKid
SYMMETRY Symmetry
CHECK_DEADLOCK TRUE
INVARIANTS
    TypeOK
    SignerIsUnambiguous
    KidsAreUnique
PROPERTIES
    OnlyWipeEmpties
