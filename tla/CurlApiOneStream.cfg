\* One stream, three requests: every interleaving of starters, handlers,
\* its stream shutdowns and the client shutdown.
CONSTANTS
    s1 = s1
    s2 = s2
    r1 = r1
    r2 = r2
    r3 = r3
    NoRequest = NoRequest
    Streams = {s1}
    Requests = {r1, r2, r3}
    StreamOf <- OneStreamOf
    ApiOf <- ThreeRequestApis
SPECIFICATION Spec
INVARIANTS
    HandlersOwnRequests
    SweptAreTerminating
    QuietBeforeUnmark
CHECK_DEADLOCK FALSE
