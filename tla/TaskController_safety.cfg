SPECIFICATION Spec
CONSTANTS
    Messages = {s1, w1}
    Walks = {w1}
    Workers = {repair, retry}
    FirstWorkers = {repair}
    NoMessage = NoMessage
    ClientFaults = TRUE
CHECK_DEADLOCK FALSE
INVARIANTS
    TypeOK
    RunningTasksAreRegistered
    GatherMissesNoTask
    CancelLeavesNothing
PROPERTY
    ShutdownClearsEverySet
