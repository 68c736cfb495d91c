SPECIFICATION FairSpec
CONSTANTS
    e1 = e1
    e2 = e2
    e3 = e3
    Events <- MCEvents
    Requested <- MCRequested
    NoEvent = NoEvent
    Faults = {"raise", "stop"}
CHECK_DEADLOCK FALSE
INVARIANTS
    TypeOK
    UnfinishedIsOutstanding
    NoEventIsDropped
    JoinedIsComplete
PROPERTIES
    OnlyEventsAreCached
    VersionIsKept
    PoolDrains
    GatherSpec
