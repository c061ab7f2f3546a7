CONSTANTS
    start = start
    route = route
    work = work
    end = end
    Nodes = {start, route, work, end}
    Kind <- MCKind
    Requests = {r1, r2}
    None = None
    MaxDepth = 4
    LinkChoices <- MCLinkChoices
    ScriptChoices <- MCAwaiting
    Variants = {"controller"}
SYMMETRY Symmetry
SPECIFICATION Spec
INVARIANT
    PreviousOutputIsInput
CHECK_DEADLOCK FALSE
