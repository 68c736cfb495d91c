SPECIFICATION Spec
CONSTANTS
    s = s
    a = a
    b = b
    c = c
    Events = {s, a, b, c}
    Start = s
    Rooms <- MCRooms
    RoundsToFinish = 1
    MaxTries = 2
    BatchSize = 2
    MaxFaults = 1
    MaxStuck = 1
    MaxPresses = 2
CHECK_DEADLOCK FALSE
INVARIANTS
    TypeOK
    NothingLost
    EndMeansDone
    CommandSendsOldestFirst
PROPERTIES
    WalkEnds
    CommandOver
