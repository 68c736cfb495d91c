SPECIFICATION Spec
CONSTANTS
    a = a
    b = b
    auto = auto
    lost = lost
    e1 = e1
    e2 = e2
    v1 = v1
    v2 = v2
    Servers = {a, b}
    Callers = {v1, v2}
    Events = {e1, e2}
    SignaturesOf <- MCSignaturesOf
    Notary = b
    Worlds <- MCWorlds
    NoKeys = NoKeys
    MaxFaults = 1
CHECK_DEADLOCK FALSE
INVARIANTS
    TypeOK
    VerdictsAreRight
    NotaryKeepsTheLatest
