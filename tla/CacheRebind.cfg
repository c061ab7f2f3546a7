CONSTANTS
    Projects = {p1, p2}
    Paths = {a, b}
    Requests = {r1}
    None = None
    MaxCacheSize = 2
    Ttl = 2
    MaxVersion = 1
    MaxContent = 1
    MaxTime = 1
    PathsMove = TRUE
SYMMETRY Symmetry
SPECIFICATION Spec
INVARIANT
    ServedFlowIsOfBoundProject
