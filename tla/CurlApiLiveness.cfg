\* One stream, a control-plane request and an upload, under fairness.
CONSTANTS
    s1 = s1
    s2 = s2
    r1 = r1
    r2 = r2
    r3 = r3
    NoRequest = NoRequest
    Streams = {s1}
    Requests = {r1, r3}
    StreamOf <- OneStreamOf
    ApiOf <- TwoRequestApis
SPECIFICATION FairSpec
PROPERTIES
    ImplementsQuiesce
    TerminatedNeverReports
    ControlPlaneCallsSettle
    SweptUploadsExit
    ShutdownStreamReturns
CHECK_DEADLOCK FALSE
