CONSTANTS
    start = start
    route = route
    work = work
    end = end
    Nodes = {start, route, work, end}
    Kind <- MCKind
    Requests = {r1, r2}
    None = None
    MaxDepth = 6
    LinkChoices <- MCLinkChoices
    ScriptChoices <- MCScriptChoices
    Variants = {"controller", "util"}
SPECIFICATION FairSpec
INVARIANTS
    TypeOK
    AnswerIsOfWholePath
    HopWasChosen
    NothingRunsAfterAnswer
PROPERTIES
    ImplementsFlowWalk
    EveryRunEnds
CHECK_DEADLOCK FALSE
