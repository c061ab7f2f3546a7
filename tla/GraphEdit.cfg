CONSTANTS
    Requests = {q1, q2}
    Project = {"a", "b", "z"}
    Paths = {"x"}
    NodeRows <- MCNodeRows
    PortRows <- MCPortRows
    Dtos <- MCDtos
    MaxRequests = 5
    None = None
SPECIFICATION Spec
SYMMETRY Slots
INVARIANTS
    TypeOK
    StartNodesBounded
    LinksFit
    LinksShownOnce
CHECK_DEADLOCK FALSE
