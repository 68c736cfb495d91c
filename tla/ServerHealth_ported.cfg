SPECIFICATION Spec
CONSTANTS
    a = a
    aPort = aPort
    b = b
    Names <- MCNames
    HostOf <- MCHostOf
    DelegateOf <- MCDelegateOf
    Requests = {q1, q2}
    Results = {r1, r2, r3, r4}
    NoResult = NoResult
    Ban = 1
    Expire = 1
    MaxTime = 2
SYMMETRY Interchangeable
INVARIANT
    RequestsUseTheirOwnResult
