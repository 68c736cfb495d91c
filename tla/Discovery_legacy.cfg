SPECIFICATION Spec
CONSTANTS
    h = h
    d = d
    ip = ip
    ip6 = ip6
    c1 = c1
    c2 = c2
    Callers = {c1}
    Literals = {ip, ip6}
    Bracketed = {ip6}
    Torn = Torn
    DefaultPort = 8448
    Worlds <- MCWorlds
    NoEntry = NoEntry
    MaxExpiries = 0
CHECK_DEADLOCK FALSE
INVARIANT
    LegacyFollowsTheSteps
