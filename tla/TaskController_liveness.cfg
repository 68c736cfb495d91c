SPECIFICATION FairSpec
CONSTANTS
    Messages = {w1}
    Walks = {w1}
    Workers = {repair, retry}
    FirstWorkers = {repair}
    NoMessage = NoMessage
    ClientFaults = TRUE
CHECK_DEADLOCK FALSE
PROPERTIES
    StopEndsCommand
    ShutdownEnds
