\* Two control-plane requests of one stream compete for its entry.
CONSTANTS
    s1 = s1
    s2 = s2
    r1 = r1
    r2 = r2
    r3 = r3
    NoRequest = NoRequest
    Streams = {s1}
    Requests = {r1, r2}
    StreamOf <- OneStreamOf
    ApiOf <- ControlPlaneApis
SPECIFICATION Spec
INVARIANT
    CreatedThreadsOwnRequest
CHECK_DEADLOCK FALSE
