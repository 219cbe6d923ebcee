SPECIFICATION Spec
CONSTANTS
    h1 = h1
    h2 = h2
    site = site
    below = below
    apart = apart
    NoProc = NoProc
    NoName = NoName
    NoRelease = NoRelease
    Procs = {p1, p2}
    Homes <- HomesDef
    NoHome = NoHome
    Places = {site, below, apart}
    Served = {site, apart}
    Within <- WithinDef
    Names <- NamesDef
    Configs <- ConfigsDef
    Releases = {r1}
    MaxMishaps <- MaxMishapsDef
SYMMETRY Symmetry
CHECK_DEADLOCK FALSE
INVARIANTS
    TypeOK
    OwnedByOne
    Disjoint
    UniqueIds
    PendingIsConfigured
    UnknownIsMarked
