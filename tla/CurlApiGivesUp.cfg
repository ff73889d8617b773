\* A request on each of two streams while the client shuts down.
CONSTANTS
    s1 = s1
    s2 = s2
    r1 = r1
    r2 = r2
    r3 = r3
    NoRequest = NoRequest
    Streams = {s1, s2}
    Requests = {r1, r2}
    StreamOf <- TwoStreamOf
    ApiOf <- ControlPlaneApis
SPECIFICATION Spec
PROPERTY
    EveryActiveStreamMarked
CHECK_DEADLOCK FALSE
