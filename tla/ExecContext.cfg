CONSTANTS
    Contexts = {c1, c2}
    Keys = {k1, k2}
    Delays = {1, 3, 4}
    MaxDelay = 3
    MaxTasks = 3
SPECIFICATION FairSpec
INVARIANTS
    TypeOK
    OneTimerPerValue
    RegistryIsExact
PROPERTIES
    NoEarlyExpiry
    EveryValueExpires
