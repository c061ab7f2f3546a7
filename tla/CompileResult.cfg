CONSTANTS
    Calls = {c1, c2}
    None = None
    DatabaseFails = FALSE
SPECIFICATION FairSpec
PROPERTY
    ResultIsShownEventually
