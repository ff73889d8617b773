------------------------ MODULE MC_CurlApiCallbacks ------------------------
(* Instances of CurlApiCallbacks for TLC: which stream and which API each  *)
(* request identity stands for.                                            *)
EXTENDS CurlApiCallbacks

CONSTANTS s1, s2, r1, r2, r3

OneStreamOf == [r \in Requests |-> s1]

(* The first request is on one stream, every other on a second one.        *)
TwoStreamOf == [r \in Requests |-> IF r = r1 THEN s1 ELSE s2]

(* Two control-plane requests, which compete for the stream's entry in the *)
(* request table, and an upload.                                           *)
ThreeRequestApis ==
    [r \in Requests |-> CASE r = r1 -> "createStream"
                          [] r = r2 -> "describeStream"
                          [] OTHER  -> "putStream"]

(* The request whose result is cached, and an upload.                      *)
TwoRequestApis ==
    [r \in Requests |-> IF r = r1 THEN "getStreamingEndpoint" ELSE "putStream"]

(* A control-plane request of one stream and an upload of another.         *)
TagAndUploadApis ==
    [r \in Requests |-> IF r = r1 THEN "tagResource" ELSE "putStream"]

(* Two control-plane requests, of one stream or of two.                    *)
ControlPlaneApis ==
    [r \in Requests |-> IF r = r1 THEN "createStream" ELSE "describeStream"]
=============================================================================
