---------------------------- MODULE ApiCallCache ----------------------------
(***************************************************************************)
(* The caching API callbacks of one stream (the ...CachingCurl functions   *)
(* of CurlApiCallbacks.c): whether a control-plane call of PIC goes to the *)
(* backend or is answered from the endpoint cache, what the handlers of    *)
(* the real calls store in it, and what a stream restart leaves there.     *)
(*                                                                         *)
(* PIC's stream state machine and the backend are external.  PIC creates   *)
(* the device, asks to describe the stream, to create it if it is not      *)
(* there, to tag it, for an endpoint, and then puts media to that          *)
(* endpoint; it may go back to an earlier step when the session ends, and  *)
(* may restart the stream while a call is in flight.  The backend answers  *)
(* with a status and a body that reaches the library piece by piece        *)
(* (Response.c), or the connection fails.                                  *)
(*                                                                         *)
(* Times are ages: how long ago the request was created whose time the     *)
(* code records.  "lastUpdate + period <= now" is "age >= period".         *)
(***************************************************************************)
EXTENDS Integers

CONSTANTS CacheTypes,         \* the API_CALL_CACHE_TYPEs to consider
          cacheUpdatePeriod,  \* the lifetime of a cached endpoint
          BodyPieces          \* pieces in which a body arrives

ASSUME CacheAssumption ==
  /\ CacheTypes \subseteq {"NONE", "ENDPOINT_ONLY", "ALL"}
  /\ cacheUpdatePeriod \in Nat
  /\ BodyPieces \in Nat \ {0}

VARIABLES
  cacheType,  \* of the callbacks
  certPath,   \* what the CA certificate path of the callbacks names
  cached,     \* the stream's entry: its endpoint ("none": no entry; "empty":
              \* no text; "garbage": bytes nobody wrote) and its age
  pic,        \* what PIC asks for next, or is at
  request,    \* the request in flight: its API ("none": no request), its
              \* age, whether it is terminating, the pieces of the body
              \* received, callResult and what the whole body says
  stream,     \* the status of the stream at the backend, or "none"
  fetched,    \* age of the newest request the backend answered with an
              \* endpoint
  given       \* the endpoint PIC was given last, and by whom

cacheVars == <<cacheType, certPath, cached, pic, request, stream, fetched, given>>

Apis == {"describe", "create", "tag", "endpoint"}
Statuses == {"ACTIVE", "CREATING", "UPDATING", "DELETING"}
NoRequest == [api |-> "none", age |-> 0, terminating |-> "no",
              received |-> 0, result |-> "NOT_SET", body |-> "none"]

CacheInit ==
  /\ cacheType \in CacheTypes
  /\ certPath \in {"none", "directory", "pem", "otherFile", "missing"}
  /\ cached = [endpoint |-> "none", age |-> cacheUpdatePeriod]
  /\ pic = "device"
  /\ request = NoRequest
  \* "The stream should be pre-existing" with ENDPOINT_ONLY
  /\ stream \in IF cacheType = "ENDPOINT_ONLY" THEN {"ACTIVE", "UPDATING"}
                ELSE {"none", "ACTIVE", "UPDATING", "DELETING"}
  /\ fetched = cacheUpdatePeriod
  /\ given = [endpoint |-> "none", by |-> "nobody"]

\* the backend finishes what it is doing to the stream (external)
StreamSettles ==
  /\ \/ stream \in {"CREATING", "UPDATING"} /\ stream' = "ACTIVE"
     \/ stream = "DELETING" /\ stream' = "none"
  /\ UNCHANGED <<cacheType, certPath, cached, pic, request, fetched, given>>

-----------------------------------------------------------------------------
Idle(api) == pic = api /\ request = NoRequest

\* there is no such API at the backend: the answer is immediate
createDeviceCurl ==
  /\ Idle("device")
  /\ pic' = "describe"
  /\ UNCHANGED <<cacheType, certPath, cached, request, stream, fetched, given>>

\* an entry with text in it that has not expired
Fresh ==
  /\ cached.endpoint \notin {"none", "empty"}
  /\ cached.age < cacheUpdatePeriod

\* Mutant: a missing entry is not told from a valid one
EmulateAlways == cacheType \in {"ENDPOINT_ONLY", "ALL"}

checkApiCallEmulation ==
  \/ cacheType = "ENDPOINT_ONLY"
  \/ cacheType = "ALL" /\ Fresh

\* The curl session of a request: a certificate path that is neither a
\* directory nor a .pem file fails every real call before it starts
initializeCurlSession == certPath \in {"none", "directory", "pem"}

\* the real call: a request is created, with the time of its creation
RealCall(api) ==
  IF initializeCurlSession
  THEN request' = [NoRequest EXCEPT !.api = api]
  ELSE UNCHANGED request

\* what PIC does next with an active stream: it may have tags to set
AfterOK(api) == IF api = "tag" THEN {"endpoint"} ELSE {"tag", "endpoint"}

CachingCall(api) ==
  /\ Idle(api)
  /\ \/ /\ checkApiCallEmulation
        /\ pic' \in AfterOK(api)
        /\ UNCHANGED request
     \/ /\ ~checkApiCallEmulation
        /\ RealCall(api)
        /\ UNCHANGED pic
  /\ UNCHANGED <<cacheType, certPath, cached, stream, fetched, given>>

describeStreamCachingCurl == CachingCall("describe")
createStreamCachingCurl == CachingCall("create")
tagResourceCachingCurl == CachingCall("tag")

\* the cached endpoint is handed to PIC under the lock of the cache
getStreamingEndpointCachingCurl ==
  /\ Idle("endpoint")
  /\ \/ /\ cacheType # "NONE" /\ Fresh
        /\ given' = [endpoint |-> cached.endpoint, by |-> "cache"]
        /\ pic' = "put"
        /\ UNCHANGED request
     \/ /\ ~(cacheType # "NONE" /\ Fresh)
        /\ RealCall("endpoint")
        /\ UNCHANGED <<pic, given>>
  /\ UNCHANGED <<cacheType, certPath, cached, stream, fetched>>

-----------------------------------------------------------------------------
(* The exchange with the backend, inside curl_easy_perform.                *)

InCurl == request # NoRequest /\ request.result = "NOT_SET"

CurlStatuses == {"CURLE_UNSUPPORTED_PROTOCOL", "CURLE_OPERATION_TIMEDOUT",
                 "CURLE_SSL_CACERT", "CURLE_WRITE_ERROR"}

getServiceCallResultFromCurlStatus(curlStatus) ==
  IF curlStatus = "CURLE_UNSUPPORTED_PROTOCOL" THEN "INVALID_ARG"
  ELSE IF curlStatus = "CURLE_OPERATION_TIMEDOUT" THEN "NETWORK_CONNECTION_TIMEOUT"
  ELSE IF curlStatus = "CURLE_SSL_CACERT" THEN "NOT_AUTHORIZED"
  ELSE "UNKNOWN"

\* the statuses that are results as they are; 429 is one that is not
getServiceCallResultFromHttpStatus(status) ==
  IF status \in {"OK", "RESOURCE_NOT_FOUND", "INTERNAL_ERROR"} THEN status
  ELSE "UNKNOWN"

\* what curl returns with an error
CurlFails(curlStatus) ==
  request' = [request EXCEPT !.result = getServiceCallResultFromCurlStatus(curlStatus)]

\* a piece of the body is appended; the transfer is broken off when the
\* request is terminating or there is no memory for the piece
postResponseWriteCallback ==
  /\ InCurl
  /\ request.received < BodyPieces
  /\ \/ request.terminating = "no" /\ request' = [request EXCEPT !.received = @ + 1]
     \/ CurlFails("CURLE_WRITE_ERROR")
  /\ UNCHANGED <<cacheType, certPath, cached, pic, stream, fetched, given>>

\* what the backend may say to a request that it carries out (external):
\* a proxy may answer in its place, with a body of its own
Says(api) ==
  {"none", "malformed",
   IF api = "describe" THEN stream ELSE IF api = "endpoint" THEN api ELSE "done"}

HttpStatuses(api) ==
  {"INTERNAL_ERROR", "429"} \cup
    IF stream = "none" /\ api # "create" THEN {"RESOURCE_NOT_FOUND"} ELSE {"OK"}

\* the whole body, or none, has arrived and curl returns its HTTP status
CurlReturns ==
  /\ InCurl
  /\ request.received \in {0, BodyPieces}
  /\ \E status \in HttpStatuses(request.api) :
       \E body \in Says(request.api) :
         /\ (body = "none") <=> (request.received = 0)
         /\ request' = [request EXCEPT !.body = body,
                       !.result = getServiceCallResultFromHttpStatus(status)]
         /\ stream' = IF request.api = "create" /\ status = "OK" /\ stream = "none"
                       THEN "CREATING" ELSE stream
  /\ UNCHANGED <<cacheType, certPath, cached, pic, fetched, given>>

\* curl gives up; the backend may have carried out the request all the same
ConnectionFails ==
  /\ InCurl
  /\ \E curlStatus \in CurlStatuses : CurlFails(curlStatus)
  /\ stream' \in IF request.api = "create" /\ stream = "none" THEN {stream, "CREATING"}
                 ELSE {stream}
  /\ UNCHANGED <<cacheType, certPath, cached, pic, fetched, given>>

-----------------------------------------------------------------------------
(* The handlers of the real calls, as far as PIC and the cache see them.   *)

\* the handler of an answered request: it reports and frees the request
Answered(api) ==
  /\ request.api = api /\ request.terminating = "no"
  /\ request.result # "NOT_SET"
  /\ request' = NoRequest

Parsed == request.body \notin {"none", "malformed"}

\* signing, the header list or the hook fails: the result is not set, and
\* PIC asks again
CallFails ==
  /\ InCurl /\ request.received = 0 /\ request.terminating = "no"
  /\ request' = NoRequest
  /\ UNCHANGED <<cacheType, certPath, cached, pic, stream, fetched, given>>

\* Mutant: what is not known is taken for an active stream
getStreamStatusFromStringActive(text) == "ACTIVE"

\* a text that is not a status is "DELETING"
getStreamStatusFromString(text) == IF text \in Statuses THEN text ELSE "DELETING"

\* a body without a description is reported as an invalid argument; PIC
\* asks again unless the stream is active or is not there
describeStreamCurlHandler ==
  /\ Answered("describe")
  /\ \/ /\ request.result = "OK" /\ Parsed
        /\ getStreamStatusFromString(request.body) = "ACTIVE"
        /\ pic' \in AfterOK("describe")
     \/ request.result = "RESOURCE_NOT_FOUND" /\ pic' = "create"
     \/ /\ ~(request.result = "OK" /\ Parsed
               /\ getStreamStatusFromString(request.body) = "ACTIVE")
        /\ request.result # "RESOURCE_NOT_FOUND"
        /\ UNCHANGED pic
  /\ UNCHANGED <<cacheType, certPath, cached, stream, fetched, given>>

\* the result is the status of the call, whatever the body says: these two
\* do not depend on their answer's body
ReportsResult(api) ==
  /\ Answered(api)
  /\ IF request.result = "OK" THEN pic' \in AfterOK(api) ELSE UNCHANGED pic
  /\ UNCHANGED <<cacheType, certPath, cached, stream, fetched, given>>

createStreamCurlHandler == ReportsResult("create")
tagResourceCurlHandler == ReportsResult("tag")

\* Mutant: the entry is dated when it is stored
StoredNow(endpoint) == cached' = [endpoint |-> endpoint, age |-> 0]

\* the entry is dated when the request was created
Store(endpoint) == cached' = [endpoint |-> endpoint, age |-> request.age]

\* An endpoint found in the body is stored.  The result reported is the
\* status of the call: with "OK" and no endpoint in the body, PIC is given
\* the buffer as it is
getStreamingEndpointCurlHandler ==
  /\ Answered("endpoint")
  /\ IF request.body = "endpoint"
     THEN Store("backend") /\ fetched' = request.age
     ELSE UNCHANGED <<cached, fetched>>
  /\ IF request.result = "OK"
     THEN /\ given' = [endpoint |-> IF request.body = "endpoint" THEN "backend"
                                                             ELSE "garbage",
                       by |-> "handler"]
          /\ pic' = "put"
     ELSE UNCHANGED <<given, pic>>
  /\ UNCHANGED <<cacheType, certPath, stream>>

(***************************************************************************)
(* A handler whose request is terminating reports nothing.  The endpoint   *)
(* handler that sees it in time leaves with a success status, unless       *)
(* signing or the like failed before, and then stores its endpoint buffer, *)
(* which nobody wrote; it may also see it only after it has stored.        *)
(***************************************************************************)
TerminatedHandler ==
  /\ request.terminating = "yes"
  /\ request' = NoRequest
  /\ \/ UNCHANGED <<cached, fetched>>
     \/ /\ request.api = "endpoint"
        /\ \E buffer \in {"garbage", "empty"} : Store(buffer)
        /\ UNCHANGED fetched
     \/ /\ request.api = "endpoint" /\ request.body = "endpoint"
        /\ Store("backend")
        /\ fetched' = request.age
  /\ pic' \in {pic, "describe"}
  /\ UNCHANGED <<cacheType, certPath, stream, given>>

\* shutdownStreamCurl with resetStream: the request is terminated, the
\* cached endpoint stays
shutdownStreamCurl ==
  /\ request # NoRequest
  /\ request' = [request EXCEPT !.terminating = "yes"]
  /\ UNCHANGED <<cacheType, certPath, cached, pic, stream, fetched, given>>

\* PutMedia is never cached; when the session ends PIC takes up the stream
\* again from an earlier step (external)
SessionEnds ==
  /\ Idle("put")
  /\ pic' \in {"describe", "endpoint"}
  /\ UNCHANGED <<cacheType, certPath, cached, request, stream, fetched, given>>

Older(t) == IF t < cacheUpdatePeriod THEN t + 1 ELSE t

Tick ==
  /\ cached' = [cached EXCEPT !.age = Older(@)]
  /\ request' = IF request = NoRequest THEN request ELSE [request EXCEPT !.age = Older(@)]
  /\ fetched' = Older(fetched)
  /\ UNCHANGED <<cacheType, certPath, pic, stream, given>>

CacheNext ==
  \/ StreamSettles
  \/ createDeviceCurl
  \/ describeStreamCachingCurl
  \/ createStreamCachingCurl
  \/ tagResourceCachingCurl
  \/ getStreamingEndpointCachingCurl
  \/ postResponseWriteCallback
  \/ CurlReturns
  \/ ConnectionFails
  \/ describeStreamCurlHandler
  \/ createStreamCurlHandler
  \/ tagResourceCurlHandler
  \/ getStreamingEndpointCurlHandler
  \/ CallFails
  \/ TerminatedHandler
  \/ shutdownStreamCurl
  \/ SessionEnds
  \/ Tick

CacheSpec == CacheInit /\ [][CacheNext]_cacheVars

-----------------------------------------------------------------------------
\* Types.
Requests ==
  [api : Apis \cup {"none"}, age : 0..cacheUpdatePeriod, terminating : {"no", "yes"},
   received : 0..BodyPieces,
   result : {"NOT_SET", "OK", "RESOURCE_NOT_FOUND", "INTERNAL_ERROR", "UNKNOWN",
             "INVALID_ARG", "NETWORK_CONNECTION_TIMEOUT", "NOT_AUTHORIZED"},
   body : Statuses \cup {"none", "malformed", "endpoint", "done"}]

TypeOK ==
  /\ cacheType \in CacheTypes
  /\ cached \in [endpoint : {"none", "empty", "garbage", "backend"},
                 age : 0..cacheUpdatePeriod]
  /\ fetched \in 0..cacheUpdatePeriod
  /\ pic \in Apis \cup {"device", "put"}
  /\ request \in Requests
  /\ stream \in Statuses \cup {"none"}

(***************************************************************************)
(* An endpoint served from the cache that came from the backend is no      *)
(* older than the caching period, counted from the creation of the request *)
(* that fetched it, however long the answer took (endpointLastUpdateTime   *)
(* and the expiry test of getStreamingEndpointCachingCurl).                *)
(***************************************************************************)
ServedWithinPeriod ==
  [][/\ Idle("endpoint") /\ pic' = "put" /\ cached.endpoint = "backend"
     => fetched < cacheUpdatePeriod]_cacheVars

(***************************************************************************)
(* Neither emulated answers nor odd ones make PIC take a stream for active *)
(* that does not exist or is being deleted: "This mode will work for       *)
(* non-pre-created streams as the first call will not be cached for        *)
(* DescribeStream", also after restarts, lost answers and malformed bodies *)
(* in the middle of any call.                                              *)
(***************************************************************************)
ActiveStreamExists ==
  pic \in {"tag", "endpoint", "put"} => stream \notin {"none", "DELETING"}

(***************************************************************************)
(* "The result of the GetStreamingEndpoint is cached and the cached value  *)
(* is returned next time PIC makes a request": an endpoint PIC is given    *)
(* from the cache came from the backend.  The code violates it: a          *)
(* GetStreamingEndpoint terminated by a stream restart stores an           *)
(* uninitialized buffer, and the restarted stream is given it.             *)
(***************************************************************************)
EndpointFromBackend == given # [endpoint |-> "garbage", by |-> "cache"]

\* The stream is at the backend and will stay there.
Exists == stream \notin {"none", "DELETING"}

\* Inductive: who may take the stream for active, at every point of a call, and
\* that the age of a cached endpoint is the age of the request that fetched it.
StreamInv ==
  /\ TypeOK
  /\ cacheType = "ENDPOINT_ONLY" => Exists
  /\ pic \in {"tag", "endpoint", "put"} => Exists
  /\ cached.endpoint # "none" => Exists
  /\ request.api \in {"tag", "endpoint"} => Exists
  /\ request.api = "create" /\ request.result = "OK" => Exists
  /\ request.api = "describe" /\ request.body = "ACTIVE" => Exists
  /\ request.api = "describe" /\ request.result = "RESOURCE_NOT_FOUND" => stream # "DELETING"
  /\ pic = "create" \/ request.api = "create" => stream # "DELETING"
  /\ cached.endpoint = "backend" => cached.age = fetched

=============================================================================
