CONSTANTS
    Calls = {c1, c2, c3}
    None = None
    DatabaseFails = TRUE
SPECIFICATION FairSpec
INVARIANTS
    TypeOK
    ExecutorHasRunningTask
    ResultAtTheEnd
PROPERTY
    EveryCallEnds
