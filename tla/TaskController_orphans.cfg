SPECIFICATION Spec
CONSTANTS
    Messages = {w1}
    Walks = {w1}
    Workers = {repair, retry}
    FirstWorkers = {repair}
    NoMessage = NoMessage
    ClientFaults = FALSE
CHECK_DEADLOCK FALSE
INVARIANT
    NoOrphans
