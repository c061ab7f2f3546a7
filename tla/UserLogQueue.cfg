CONSTANTS
    MaxQueueSize = 3
    BatchSize = 2
    MaxLogs = 6
SPECIFICATION Spec
INVARIANTS
    TypeOK
    NoLogVanishes
    NoLogTwice
    FirstInFirstOut
PROPERTY
    RecordsAdvance
CHECK_DEADLOCK FALSE
