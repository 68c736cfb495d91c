SPECIFICATION Spec
CONSTANTS
    a = a
    b = b
    auto = auto
    lost = lost
    e1 = e1
    e2 = e2
    v1 = v1
    v2 = v2
    Servers = {a, b}
    Callers = {v1}
    Events = {e1, e2}
    SignaturesOf <- MCSignaturesOf
    Notary = b
    Worlds <- MCWorlds
    NoKeys = NoKeys
    MaxFaults = 0
CHECK_DEADLOCK FALSE
INVARIANT
    OnlyVerifiedEventsAreSent
