SPECIFICATION Spec
CONSTANTS
    Servers = {s1, s2}
    Itself = Itself
    Limit = 2
    MaxPages = 2
    MaxBatches = 2
    MaxRetries = 4
CHECK_DEADLOCK FALSE
INVARIANTS
    TypeOK
    NoTaskOutlivesItsCommand
    OnlyTheseLeaveTasks
    TableIsComplete
    MessagesCanBeCleared
    NeverSilent
PROPERTY
    CommandEnds
