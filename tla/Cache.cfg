CONSTANTS
    Projects = {p1}
    Paths = {a, b, c}
    Requests = {r1, r2}
    None = None
    MaxCacheSize = 2
    Ttl = 1
    MaxVersion = 1
    MaxContent = 1
    MaxTime = 2
    PathsMove = TRUE
SYMMETRY Symmetry
SPECIFICATION Spec
INVARIANTS
    TypeOK
    MapsAgree
    CacheBounded
    StampIsOfFlow
    TaggedFlowIsComplete
PROPERTY
    ImplementsFlowLookup
