\* An upload enters curl behind the sweep of its stream.
CONSTANTS
    s1 = s1
    s2 = s2
    r1 = r1
    r2 = r2
    r3 = r3
    NoRequest = NoRequest
    Streams = {s1}
    Requests = {r1, r3}
    StreamOf <- OneStreamOf
    ApiOf <- TwoRequestApis
SPECIFICATION Spec
INVARIANT
    RemainingNotBlocked
CHECK_DEADLOCK FALSE
