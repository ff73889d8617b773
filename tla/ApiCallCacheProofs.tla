-------------------------- MODULE ApiCallCacheProofs --------------------------
(***************************************************************************)
(* Proofs about ApiCallCache, for every caching period, every set of modes *)
(* and bodies that arrive in any number of pieces.                         *)
(*                                                                         *)
(* That PIC goes on only with a stream that exists is not inductive: an    *)
(* answer may be under way, or an endpoint in the cache, that will let PIC *)
(* go on later.  StreamInv says what each of them implies for the stream.  *)
(***************************************************************************)
EXTENDS ApiCallCache, TLAPS

(* There is no request before the first call.                              *)
LEMMA NoRequestIsTyped == NoRequest \in Requests
  BY CacheAssumption DEF NoRequest, Requests

(* What a change of the fields of a request leaves alone.                  *)
LEMMA RequestFields ==
  ASSUME NEW r \in Requests
  PROVE  /\ \A x \in 0..cacheUpdatePeriod :
              [r EXCEPT !.age = x] \in Requests
              /\ [r EXCEPT !.age = x].api = r.api /\ [r EXCEPT !.age = x].body = r.body
              /\ [r EXCEPT !.age = x].result = r.result
         /\ [r EXCEPT !.terminating = "yes"] \in Requests
         /\ [r EXCEPT !.terminating = "yes"].api = r.api
         /\ [r EXCEPT !.terminating = "yes"].body = r.body
         /\ [r EXCEPT !.terminating = "yes"].result = r.result
  BY DEF Requests

(* A new request of an API is as good as none but for the API.             *)
LEMMA NewRequests ==
  ASSUME NEW api \in Apis
  PROVE  LET r == [NoRequest EXCEPT !.api = api]
         IN  r \in Requests /\ r.api = api /\ r.result = "NOT_SET" /\ r.body = "none"
  BY CacheAssumption DEF NoRequest, Requests

(* The parts of the invariant that speak of the request.                   *)
RequestInv ==
  /\ request \in Requests
  /\ request.api \in {"tag", "endpoint"} => Exists
  /\ request.api = "create" /\ request.result = "OK" => Exists
  /\ request.api = "describe" /\ request.body = "ACTIVE" => Exists
  /\ request.api = "describe" /\ request.result = "RESOURCE_NOT_FOUND" => stream # "DELETING"
  /\ request.api = "create" => stream # "DELETING"

(* The parts that speak of PIC and of the cache.                           *)
PicInv ==
  /\ pic \in Apis \cup {"device", "put"}
  /\ pic \in {"tag", "endpoint", "put"} => Exists
  /\ pic = "create" => stream # "DELETING"

EntryInv ==
  /\ cached \in [endpoint : {"none", "empty", "garbage", "backend"},
                 age : 0..cacheUpdatePeriod]
  /\ fetched \in 0..cacheUpdatePeriod
  /\ cached.endpoint # "none" => Exists
  /\ cached.endpoint = "backend" => cached.age = fetched

ModeInv ==
  /\ cacheType \in CacheTypes
  /\ stream \in Statuses \cup {"none"}
  /\ cacheType = "ENDPOINT_ONLY" => Exists

LEMMA StreamInvParts ==
  /\ StreamInv <=> RequestInv /\ PicInv /\ EntryInv /\ ModeInv
  /\ StreamInv' <=> RequestInv' /\ PicInv' /\ EntryInv' /\ ModeInv'
  BY DEF StreamInv, TypeOK, RequestInv, PicInv, EntryInv, ModeInv

(* No request satisfies its part whatever the stream does.                 *)
LEMMA NoRequestInv ==
  /\ request = NoRequest => RequestInv
  /\ request' = NoRequest => RequestInv'
  <1>1. NoRequest.api = "none"
    BY DEF NoRequest
  <1> QED BY <1>1, NoRequestIsTyped DEF RequestInv

(***************************************************************************)
(* PIC's calls: a request is made for what PIC asks, or the answer is      *)
(* emulated, with a stream that exists.                                    *)
(***************************************************************************)
LEMMA CallsKeepStreamInv ==
  ASSUME StreamInv,
         \/ createDeviceCurl \/ SessionEnds \/ getStreamingEndpointCachingCurl
         \/ \E api \in {"describe", "create", "tag"} : CachingCall(api)
  PROVE  StreamInv'
  <1>1. RequestInv /\ PicInv /\ EntryInv /\ ModeInv
    BY StreamInvParts
  <1>2. UNCHANGED <<cacheType, cached, stream, fetched>>
    BY DEF createDeviceCurl, SessionEnds, getStreamingEndpointCachingCurl, CachingCall
  <1>3. ModeInv' /\ EntryInv'
    BY <1>1, <1>2 DEF ModeInv, EntryInv, Exists
  <1>4. CASE createDeviceCurl \/ SessionEnds
    <2>1. request' = NoRequest /\ PicInv'
      BY <1>1, <1>2, <1>4 DEF createDeviceCurl, SessionEnds, Idle, PicInv, Exists, Apis
    <2> QED BY <1>3, <2>1, NoRequestInv, StreamInvParts
  <1>5. ASSUME NEW api \in Apis, pic = api, RealCall(api), request = NoRequest, UNCHANGED pic
        PROVE  StreamInv'
    <2>1. PicInv'
      BY <1>1, <1>2, <1>5 DEF PicInv, Exists
    <2>2. CASE request' = NoRequest
      BY <1>3, <2>1, <2>2, NoRequestInv, StreamInvParts
    <2>3. CASE request' = [NoRequest EXCEPT !.api = api]
      <3>1. /\ request' \in Requests /\ request'.api = pic
            /\ request'.result = "NOT_SET" /\ request'.body = "none"
        BY <1>5, <2>3, NewRequests
      <3>2. RequestInv'
        BY <1>1, <1>2, <3>1 DEF RequestInv, PicInv, Exists
      <3> QED BY <1>3, <2>1, <3>2, StreamInvParts
    <2> QED BY <1>5, <2>2, <2>3 DEF RealCall
  <1>6. ASSUME NEW api \in {"describe", "create", "tag"}, CachingCall(api)
        PROVE  StreamInv'
    <2>1. pic = api /\ request = NoRequest /\ api \in Apis
      BY <1>6 DEF CachingCall, Idle, Apis
    <2>2. CASE checkApiCallEmulation /\ pic' \in AfterOK(api) /\ UNCHANGED request
      <3>1. Exists
        BY <1>1, <2>2 DEF checkApiCallEmulation, Fresh, EntryInv, ModeInv
      <3>2. PicInv'
        BY <1>2, <2>2, <3>1 DEF PicInv, AfterOK, Exists, Apis
      <3> QED BY <1>3, <2>1, <2>2, <3>2, NoRequestInv, StreamInvParts
    <2>3. CASE RealCall(api) /\ UNCHANGED pic
      BY <1>5, <2>1, <2>3
    <2> QED BY <1>6, <2>2, <2>3 DEF CachingCall
  <1>7. CASE getStreamingEndpointCachingCurl
    <2>1. pic = "endpoint" /\ request = NoRequest /\ "endpoint" \in Apis
      BY <1>7 DEF getStreamingEndpointCachingCurl, Idle, Apis
    <2>2. CASE pic' = "put" /\ UNCHANGED request
      <3>1. PicInv'
        BY <1>1, <1>2, <2>1, <2>2 DEF PicInv, Exists
      <3> QED BY <1>3, <2>1, <2>2, <3>1, NoRequestInv, StreamInvParts
    <2>3. CASE RealCall("endpoint") /\ UNCHANGED pic
      BY <1>5, <2>1, <2>3
    <2> QED BY <1>7, <2>2, <2>3 DEF getStreamingEndpointCachingCurl
  <1> QED BY <1>4, <1>6, <1>7

(***************************************************************************)
(* The exchange with the backend: what the answer says is true of the      *)
(* stream when the backend gives it.                                       *)
(***************************************************************************)
LEMMA ExchangeKeepsStreamInv ==
  ASSUME StreamInv,
         \/ postResponseWriteCallback \/ CurlReturns \/ ConnectionFails
         \/ shutdownStreamCurl \/ StreamSettles \/ Tick
  PROVE  StreamInv'
  <1>1. RequestInv /\ PicInv /\ EntryInv /\ ModeInv
    BY StreamInvParts
  <1>2. cacheType' = cacheType /\ pic' = pic
    BY ZenonT(30) DEF postResponseWriteCallback, CurlReturns, ConnectionFails, shutdownStreamCurl,
           StreamSettles, Tick
  <1>3. request \in Requests
    BY <1>1 DEF RequestInv
  <1>4. /\ Exists => Exists'
        /\ stream # "DELETING" => stream' # "DELETING"
        /\ stream' \in Statuses \cup {"none"}
    BY <1>1, ZenonT(30) DEF ModeInv, Statuses, Exists, postResponseWriteCallback, CurlReturns,
                ConnectionFails, shutdownStreamCurl, StreamSettles, Tick
  <1>5. ModeInv' /\ PicInv'
    BY <1>1, <1>2, <1>4 DEF ModeInv, PicInv
  (* A step that changes other fields of the request only. *)
  <1>6. ASSUME request' \in Requests, request'.api = request.api, request'.result = request.result,
               request'.body = request.body
        PROVE  RequestInv'
    BY <1>1, <1>4, <1>6 DEF RequestInv
  <1>7. CASE Tick
    <2>1. \A t \in 0..cacheUpdatePeriod : Older(t) \in 0..cacheUpdatePeriod
      BY CacheAssumption DEF Older
    <2>2. cached.age \in 0..cacheUpdatePeriod /\ fetched \in 0..cacheUpdatePeriod
          /\ request.age \in 0..cacheUpdatePeriod
      BY <1>1, <1>3 DEF EntryInv, Requests
    <2>3. cached' = [cached EXCEPT !.age = Older(cached.age)] /\ fetched' = Older(fetched)
      BY <1>7 DEF Tick
    <2>4. /\ cached' \in [endpoint : {"none", "empty", "garbage", "backend"},
                           age : 0..cacheUpdatePeriod]
          /\ cached'.endpoint = cached.endpoint /\ cached'.age = Older(cached.age)
      BY <1>1, <2>1, <2>2, <2>3 DEF EntryInv
    <2>5. EntryInv'
      BY <1>1, <1>4, <2>1, <2>2, <2>3, <2>4 DEF EntryInv
    <2>6. RequestInv'
      BY <1>3, <1>6, <1>7, <2>1, <2>2, RequestFields DEF Tick
    <2> QED BY <1>5, <2>5, <2>6, StreamInvParts
  <1>8. CASE ~Tick
    <2>1. cached' = cached /\ fetched' = fetched
      BY <1>8, ZenonT(30) DEF postResponseWriteCallback, CurlReturns, ConnectionFails,
                  shutdownStreamCurl, StreamSettles
    <2>2. EntryInv'
      BY <1>1, <1>4, <2>1 DEF EntryInv
    <2>3. CASE shutdownStreamCurl \/ StreamSettles
      BY <1>3, <1>5, <1>6, <2>2, <2>3, RequestFields, StreamInvParts
      DEF shutdownStreamCurl, StreamSettles
    <2>4. ASSUME NEW curlStatus, CurlFails(curlStatus)
          PROVE  RequestInv'
      <3>1. /\ request' \in Requests /\ request'.api = request.api /\ request'.body = request.body
            /\ request'.result \notin {"OK", "RESOURCE_NOT_FOUND"}
        BY <1>3, <2>4 DEF CurlFails, getServiceCallResultFromCurlStatus, Requests
      <3> QED BY <1>1, <1>4, <3>1 DEF RequestInv
    <2>5. CASE postResponseWriteCallback
      <3>1. CASE request' = [request EXCEPT !.received = @ + 1]
        <4>1. request.received \in 0..BodyPieces /\ request.received + 1 \in 0..BodyPieces
          BY <1>3, <2>5, CacheAssumption DEF postResponseWriteCallback, Requests
        <4>2. /\ request' \in Requests /\ request'.api = request.api /\ request'.body = request.body
              /\ request'.result = request.result
          BY <1>3, <3>1, <4>1 DEF Requests
        <4> QED BY <1>5, <1>6, <2>2, <4>2, StreamInvParts
      <3> QED BY <1>5, <2>2, <2>4, <2>5, <3>1, StreamInvParts DEF postResponseWriteCallback
    <2>6. CASE ConnectionFails
      BY <1>5, <2>2, <2>4, <2>6, StreamInvParts DEF ConnectionFails
    <2>7. CASE CurlReturns
      <3>1. PICK status \in HttpStatuses(request.api), body \in Says(request.api) :
              /\ request' = [request EXCEPT !.body = body,
                            !.result = getServiceCallResultFromHttpStatus(status)]
              /\ stream' = IF request.api = "create" /\ status = "OK" /\ stream = "none"
                            THEN "CREATING" ELSE stream
        BY <2>7, ZenonT(30) DEF CurlReturns
      <3>2. body \in Statuses \cup {"none", "malformed", "endpoint", "done"}
        BY <1>1 DEF Says, ModeInv
      <3>3. getServiceCallResultFromHttpStatus(status)
              \in {"OK", "RESOURCE_NOT_FOUND", "INTERNAL_ERROR", "UNKNOWN"}
        BY DEF getServiceCallResultFromHttpStatus
      <3>4. /\ request' \in Requests /\ request'.api = request.api /\ request'.body = body
            /\ request'.result = getServiceCallResultFromHttpStatus(status)
        BY <1>3, <3>1, <3>2, <3>3 DEF Requests
      <3>5. /\ request.api = "describe" /\ body = "ACTIVE" => stream = "ACTIVE"
            /\ request'.result = "RESOURCE_NOT_FOUND" => stream = "none"
            /\ request'.result = "OK" => status = "OK"
        BY <3>4 DEF Says, HttpStatuses, getServiceCallResultFromHttpStatus
      <3>6. request.api = "create" /\ status = "OK" => Exists'
        BY <1>1, <3>1 DEF RequestInv, Exists
      <3>7. RequestInv'
        BY <1>1, <1>4, <3>4, <3>5, <3>6 DEF RequestInv, Exists
      <3> QED BY <1>5, <2>2, <3>7, StreamInvParts
    <2> QED BY <1>8, <2>3, <2>5, <2>6, <2>7
  <1> QED BY <1>7, <1>8

(***************************************************************************)
(* The handlers free the request; what they let PIC or the cache believe   *)
(* is what the invariant says of the answer.                               *)
(***************************************************************************)
LEMMA HandlersKeepStreamInv ==
  ASSUME StreamInv,
         \/ describeStreamCurlHandler \/ ReportsResult("create") \/ ReportsResult("tag")
         \/ getStreamingEndpointCurlHandler \/ CallFails \/ TerminatedHandler
  PROVE  StreamInv'
  <1>1. RequestInv /\ PicInv /\ EntryInv /\ ModeInv
    BY StreamInvParts
  <1>2. cacheType' = cacheType /\ stream' = stream /\ request' = NoRequest
    BY DEF describeStreamCurlHandler, ReportsResult, getStreamingEndpointCurlHandler,
           CallFails, TerminatedHandler, Answered
  <1>3. ModeInv' /\ RequestInv' /\ (Exists <=> Exists')
    BY <1>1, <1>2, NoRequestInv DEF ModeInv, Exists
  <1>4. PicInv'
    <2>1. CASE pic' = pic \/ pic' = "describe"
      BY <1>1, <1>2, <1>3, <2>1 DEF PicInv, Apis
    <2>2. CASE Exists /\ pic' \in {"tag", "endpoint", "put"}
      BY <1>3, <2>2 DEF PicInv, Apis
    <2>3. CASE describeStreamCurlHandler
      <3>1. CASE request.body = "ACTIVE" /\ pic' \in AfterOK("describe")
        BY <1>1, <2>2, <2>3, <3>1 DEF RequestInv, AfterOK, describeStreamCurlHandler, Answered
      <3>2. CASE request.result = "RESOURCE_NOT_FOUND" /\ pic' = "create"
        BY <1>1, <1>2, <2>3, <3>2
        DEF RequestInv, PicInv, Apis, describeStreamCurlHandler, Answered
      <3> QED BY <2>1, <2>3, <3>1, <3>2
              DEF describeStreamCurlHandler, getStreamStatusFromString
    <2>4. ASSUME NEW api \in {"create", "tag"}, ReportsResult(api)
          PROVE  PicInv'
      BY <1>1, <2>1, <2>2, <2>4 DEF RequestInv, ReportsResult, Answered, AfterOK
    <2>5. CASE getStreamingEndpointCurlHandler
      BY <1>1, <2>1, <2>2, <2>5 DEF RequestInv, getStreamingEndpointCurlHandler, Answered
    <2>6. CASE CallFails \/ TerminatedHandler
      BY <2>1, <2>6 DEF CallFails, TerminatedHandler
    <2> QED BY <2>3, <2>4, <2>5, <2>6
  <1>5. EntryInv'
    <2>1. CASE UNCHANGED <<cached, fetched>>
      BY <1>1, <1>3, <2>1 DEF EntryInv
    <2>2. request.age \in 0..cacheUpdatePeriod
      BY <1>1 DEF RequestInv, Requests
    <2>3. CASE request.api = "endpoint" /\ Store("backend") /\ fetched' = request.age
      BY <1>1, <1>3, <2>2, <2>3 DEF EntryInv, RequestInv, Store
    <2>4. ASSUME NEW buffer \in {"garbage", "empty"}, request.api = "endpoint",
                 Store(buffer), UNCHANGED fetched
          PROVE  EntryInv'
      BY <1>1, <1>3, <2>2, <2>4 DEF EntryInv, RequestInv, Store
    <2>5. CASE getStreamingEndpointCurlHandler
      BY <2>1, <2>3, <2>5 DEF getStreamingEndpointCurlHandler, Answered
    <2>6. CASE TerminatedHandler
      BY <2>1, <2>3, <2>4, <2>6 DEF TerminatedHandler
    <2>7. CASE describeStreamCurlHandler \/ ReportsResult("create") \/ ReportsResult("tag")
               \/ CallFails
      BY <2>1, <2>7 DEF describeStreamCurlHandler, ReportsResult, CallFails
    <2> QED BY <2>5, <2>6, <2>7
  <1> QED BY <1>3, <1>4, <1>5, StreamInvParts

LEMMA InitStreamInv == CacheInit => StreamInv
  <1> SUFFICES ASSUME CacheInit PROVE StreamInv
    OBVIOUS
  <1>1. RequestInv
    BY NoRequestInv DEF CacheInit
  <1>2. PicInv /\ EntryInv /\ ModeInv
    BY CacheAssumption DEF CacheInit, PicInv, EntryInv, ModeInv, Exists, Apis, Statuses
  <1> QED BY <1>1, <1>2, StreamInvParts

LEMMA NextKeepsStreamInv == StreamInv /\ [CacheNext]_cacheVars => StreamInv'
  <1> SUFFICES ASSUME StreamInv, [CacheNext]_cacheVars PROVE StreamInv'
    OBVIOUS
  <1>1. CASE UNCHANGED cacheVars
    BY <1>1 DEF cacheVars, StreamInv, TypeOK, Exists
  <1>2. CASE \/ createDeviceCurl \/ SessionEnds \/ getStreamingEndpointCachingCurl
             \/ describeStreamCachingCurl \/ createStreamCachingCurl
             \/ tagResourceCachingCurl
    BY <1>2, CallsKeepStreamInv
    DEF describeStreamCachingCurl, createStreamCachingCurl, tagResourceCachingCurl
  <1>3. CASE \/ postResponseWriteCallback \/ CurlReturns \/ ConnectionFails
             \/ shutdownStreamCurl \/ StreamSettles \/ Tick
    BY <1>3, ExchangeKeepsStreamInv
  <1>4. CASE \/ describeStreamCurlHandler \/ createStreamCurlHandler
             \/ tagResourceCurlHandler \/ getStreamingEndpointCurlHandler
             \/ CallFails \/ TerminatedHandler
    BY <1>4, HandlersKeepStreamInv DEF createStreamCurlHandler, tagResourceCurlHandler
  <1> QED BY <1>1, <1>2, <1>3, <1>4 DEF CacheNext

(***************************************************************************)
(* StreamInv holds in every reachable state: what an answer under way, a   *)
(* cached endpoint or a step of PIC implies for the stream is true.        *)
(***************************************************************************)
THEOREM StreamInvariance == CacheSpec => []StreamInv
  BY InitStreamInv, NextKeepsStreamInv, PTL DEF CacheSpec

(***************************************************************************)
(* PIC goes on to tag a stream, to ask for its endpoint or to put media    *)
(* only when the stream is at the backend and is not being deleted, with   *)
(* every mode of the caching callbacks.                                    *)
(***************************************************************************)
THEOREM ActiveStreamsExist == CacheSpec => []ActiveStreamExists
  <1>1. StreamInv => ActiveStreamExists
    BY DEF StreamInv, ActiveStreamExists, Exists
  <1> QED BY <1>1, StreamInvariance, PTL

(***************************************************************************)
(* The cache serves an endpoint of the backend only while the request that *)
(* fetched it is younger than the caching period, however long its answer  *)
(* took and however many restarts came between.                            *)
(***************************************************************************)
THEOREM ServedEndpointsAreFresh == CacheSpec => ServedWithinPeriod
  <1>1. ASSUME StreamInv, [CacheNext]_cacheVars, Idle("endpoint"), pic' = "put",
               cached.endpoint = "backend"
        PROVE  fetched < cacheUpdatePeriod
    <2>1. pic = "endpoint" /\ request = NoRequest /\ cached.age = fetched
      BY <1>1 DEF Idle, StreamInv
    <2>2. NoRequest.api = "none" /\ NoRequest.terminating = "no"
      BY DEF NoRequest
    <2>3. getStreamingEndpointCachingCurl
      BY <1>1, <2>1, <2>2
      DEF CacheNext, cacheVars, StreamSettles, createDeviceCurl, describeStreamCachingCurl,
          createStreamCachingCurl, tagResourceCachingCurl, CachingCall, Idle,
          postResponseWriteCallback, CurlReturns, ConnectionFails, InCurl,
          describeStreamCurlHandler, createStreamCurlHandler, tagResourceCurlHandler,
          ReportsResult, Answered, getStreamingEndpointCurlHandler, CallFails,
          TerminatedHandler, shutdownStreamCurl, SessionEnds, Tick
    <2> QED BY <1>1, <2>1, <2>3 DEF getStreamingEndpointCachingCurl, Fresh
  <1> QED BY <1>1, StreamInvariance, PTL DEF CacheSpec, ServedWithinPeriod

=============================================================================
