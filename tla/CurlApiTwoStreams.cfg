\* A tagging request of one stream and an upload of another.
CONSTANTS
    s1 = s1
    s2 = s2
    r1 = r1
    r2 = r2
    r3 = r3
    NoRequest = NoRequest
    Streams = {s1, s2}
    Requests = {r1, r3}
    StreamOf <- TwoStreamOf
    ApiOf <- TagAndUploadApis
SPECIFICATION Spec
PROPERTY
    OthersLeftAlone
CHECK_DEADLOCK FALSE
