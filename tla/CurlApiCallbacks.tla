-------------------------- MODULE CurlApiCallbacks --------------------------
(***************************************************************************)
(* The service-call engine of the C producer library: the life of every    *)
(* CurlRequest from the API callback that creates it to the detached       *)
(* handler thread that frees it, and the two procedures that tear requests *)
(* down while those threads run, shutdownStreamCurl and                    *)
(* curlApiCallbacksShutdown.                                               *)
(*                                                                         *)
(* Actors: the callers of the API callbacks (starters), one handler thread *)
(* per request, one shutdownStreamCurl per stream, one client shutdown.    *)
(* activeRequestsLock and activeUploadsLock are variables because a        *)
(* starter holds one of them across several steps; every other critical    *)
(* section is a single step that needs the lock free.  shutdownLock is     *)
(* held across steps only by the client shutdown while it marks streams.   *)
(***************************************************************************)
EXTENDS Naturals, FiniteSets

CONSTANTS
    Streams,        \* STREAM_HANDLEs
    Requests,       \* identities of the CurlRequest objects ever created
    NoRequest,      \* NULL
    StreamOf,       \* pCurlRequest->streamHandle
    ApiOf           \* which API callback creates the request

Apis == {"createStream", "describeStream", "getStreamingEndpoint",
         "tagResource", "putStream"}

ASSUME RequestsAssumption ==
    /\ NoRequest \notin Requests
    /\ StreamOf \in [Requests -> Streams]
    /\ ApiOf \in [Requests -> Apis]

VARIABLES
    pActiveRequests,       \* hash table: stream -> control-plane request
    pActiveUploads,        \* list of PutMedia requests, order immaterial
    pStreamsShuttingDown,  \* hash table used as a set of streams
    pCachedEndpoints,      \* hash table: stream -> what its tracker holds
    activeRequestsLock,    \* the starter that holds it, or NoRequest
    activeUploadsLock,     \* likewise
    thread,                \* where the starter or handler of a request is
    terminating,           \* requests whose requestInfo.terminating is set
    blockedInCurl,         \* requests whose blockedInCurl is set
    terminated,            \* requests whose curl session ends: timed out,
                           \* or its body is at its end
    requestTerminating,    \* requests whose handler sampled terminating TRUE
    freed,                 \* requests given to freeCurlRequest
    reported,              \* requests whose handler reported to PIC
    stage,                 \* progress of shutdownStreamCurl per stream
    resetting,             \* streams being shut down with resetStream = TRUE
    client,                \* progress of curlApiCallbacksShutdown
    toVisit                \* streams its marking iteration has not reached

requestVars == <<thread, terminating, blockedInCurl, terminated,
                 requestTerminating, freed, reported>>
tableVars == <<pActiveRequests, pActiveUploads>>
lockVars == <<activeRequestsLock, activeUploadsLock>>
streamVars == <<pStreamsShuttingDown, stage, resetting>>
clientVars == <<client, toVisit>>
vars == <<requestVars, tableVars, lockVars, streamVars, clientVars,
          pCachedEndpoints>>

IsUpload(r) == ApiOf[r] = "putStream"
UploadsOf(s) == {u \in pActiveUploads : StreamOf[u] = s}
ActiveRequests == {pActiveRequests[s] : s \in Streams} \ {NoRequest}

(* The states in which a handler thread, or its starter, still             *)
(* dereferences the request it owns.                                       *)
Handling == {"waiting", "entering", "inCurl", "storeParsed",
             "storeUninitialized", "sampling", "removing"}
(* The starter holds its table's lock: it has looked its stream up, and in *)
(* "created" the handler thread exists and waits on startLock.             *)
Starting == {"checked", "created"}
ThreadStates == {"none", "rejected", "cancelled", "notifying", "exited"}
                    \union Starting \union Handling

LockFree(r) == IF IsUpload(r) THEN activeUploadsLock = NoRequest
                              ELSE activeRequestsLock = NoRequest
ShutdownLockFree == client # "marking"

-----------------------------------------------------------------------------
Init ==
    /\ pActiveRequests = [s \in Streams |-> NoRequest]
    /\ pActiveUploads = {}
    /\ pStreamsShuttingDown = {}
    /\ pCachedEndpoints = [s \in Streams |-> "none"]
    /\ activeRequestsLock = NoRequest
    /\ activeUploadsLock = NoRequest
    /\ thread = [r \in Requests |-> "none"]
    /\ terminating = {}
    /\ blockedInCurl = {}
    /\ terminated = {}
    /\ requestTerminating = {}
    /\ freed = {}
    /\ reported = {}
    /\ stage = [s \in Streams |-> "idle"]
    /\ resetting = {}
    /\ client = "idle"
    /\ toVisit = {}

Goto(r, to) == thread' = [thread EXCEPT ![r] = to]

-----------------------------------------------------------------------------
(***************************************************************************)
(* Starting a request.  The starter takes the table's lock, looks the      *)
(* stream up in pStreamsShuttingDown under shutdownLock, creates the       *)
(* thread (which waits on startLock) and inserts the request, holding the  *)
(* table's lock throughout.  Until the insertion nobody else can find the  *)
(* request, so creation, detachment and the store of the thread id are one *)
(* step.                                                                   *)
(***************************************************************************)
(* Mutant: the table's lock is dropped between the look-up of the stream   *)
(* and the insertion.                                                      *)
AcquireNothing(r) == UNCHANGED lockVars

Acquire(r) ==
    IF IsUpload(r)
    THEN activeUploadsLock' = r /\ UNCHANGED activeRequestsLock
    ELSE activeRequestsLock' = r /\ UNCHANGED activeUploadsLock

Release(r) ==
    IF IsUpload(r)
    THEN activeUploadsLock' = NoRequest /\ UNCHANGED activeRequestsLock
    ELSE activeRequestsLock' = NoRequest /\ UNCHANGED activeUploadsLock

(* The request object is freed by the starter itself before it has created *)
(* a thread: its stream is being shut down, or a step of the start failed. *)
Reject(r) ==
    /\ Goto(r, "rejected")
    /\ freed' = freed \union {r}
    /\ UNCHANGED <<terminating, blockedInCurl, terminated,
                   requestTerminating, reported, tableVars>>

(* Mutant: the starter does not consult pStreamsShuttingDown.              *)
CheckShutdownUnguarded(r) ==
    /\ thread[r] = "none"
    /\ LockFree(r)
    /\ Goto(r, "checked")
    /\ Acquire(r)
    /\ UNCHANGED <<terminating, blockedInCurl, terminated, requestTerminating,
                   freed, reported, tableVars>>
    /\ UNCHANGED <<streamVars, clientVars, pCachedEndpoints>>

CheckShutdown(r) ==
    /\ thread[r] = "none"
    /\ LockFree(r)
    /\ ShutdownLockFree
    /\ IF StreamOf[r] \in pStreamsShuttingDown
       THEN Reject(r) /\ UNCHANGED lockVars
       ELSE /\ Goto(r, "checked")
            /\ Acquire(r)
            /\ UNCHANGED <<terminating, blockedInCurl, terminated,
                           requestTerminating, freed, reported, tableVars>>
    /\ UNCHANGED <<streamVars, clientVars, pCachedEndpoints>>

(* Mutant: the table is updated with an upsert, so a second control-plane  *)
(* request of a stream displaces the first.                                *)
InsertUpsert(r) ==
    /\ thread[r] = "created"
    /\ IF IsUpload(r)
       THEN /\ pActiveUploads' = pActiveUploads \union {r}
            /\ UNCHANGED pActiveRequests
       ELSE /\ pActiveRequests' = [pActiveRequests EXCEPT ![StreamOf[r]] = r]
            /\ UNCHANGED pActiveUploads
    /\ Goto(r, "waiting")
    /\ Release(r)
    /\ UNCHANGED <<terminating, blockedInCurl, terminated,
                   requestTerminating, freed, reported>>
    /\ UNCHANGED <<streamVars, clientVars, pCachedEndpoints>>

CreateThread(r) ==
    /\ thread[r] = "checked"
    /\ Goto(r, "created")
    /\ UNCHANGED <<terminating, blockedInCurl, terminated,
                   requestTerminating, freed, reported, tableVars>>
    /\ UNCHANGED <<lockVars, streamVars, clientVars, pCachedEndpoints>>

(* THREAD_CREATE, or a step before it, fails: there is no thread to cancel.*)
StartFails(r) ==
    /\ thread[r] = "checked"
    /\ Reject(r)
    /\ Release(r)
    /\ UNCHANGED <<streamVars, clientVars, pCachedEndpoints>>

(* hashTablePut refuses a key that is present, so a second control-plane   *)
(* request of a stream cannot be inserted.  putStreamCurl also tells PIC   *)
(* that the upload has started (putStreamResultEvent), under the same lock.*)
Insert(r) ==
    /\ thread[r] = "created"
    /\ IF IsUpload(r)
       THEN /\ pActiveUploads' = pActiveUploads \union {r}
            /\ UNCHANGED pActiveRequests
       ELSE /\ pActiveRequests[StreamOf[r]] = NoRequest
            /\ pActiveRequests' = [pActiveRequests EXCEPT ![StreamOf[r]] = r]
            /\ UNCHANGED pActiveUploads
    /\ Goto(r, "waiting")
    /\ Release(r)
    /\ UNCHANGED <<terminating, blockedInCurl, terminated,
                   requestTerminating, freed, reported>>
    /\ UNCHANGED <<streamVars, clientVars, pCachedEndpoints>>

(* The insertion failed (the key is present, or there is no memory for the *)
(* entry) or the detachment before it did.  THREAD_CANCEL only asks the    *)
(* thread to end; the starter goes on at once and frees the request with   *)
(* its startLock, which the thread is about to lock or is waiting for.     *)
PutFails(r) ==
    /\ thread[r] = "created"
    /\ Goto(r, "cancelled")
    /\ freed' = freed \union {r}
    /\ Release(r)
    /\ UNCHANGED <<terminating, blockedInCurl, terminated,
                   requestTerminating, reported, tableVars>>
    /\ UNCHANGED <<streamVars, clientVars, pCachedEndpoints>>

(* The cancelled thread meets a cancellation point and is gone.  Until     *)
(* then it may read the freed request; what it finds there is undefined    *)
(* and not followed further.                                               *)
CancelTakesEffect(r) ==
    /\ thread[r] = "cancelled"
    /\ Goto(r, "rejected")
    /\ UNCHANGED <<terminating, blockedInCurl, terminated,
                   requestTerminating, freed, reported, tableVars>>
    /\ UNCHANGED <<lockVars, streamVars, clientVars, pCachedEndpoints>>

StartRequest(r) ==
    \/ CheckShutdown(r)
    \/ CreateThread(r)
    \/ StartFails(r)
    \/ Insert(r)
    \/ PutFails(r)
    \/ CancelTakesEffect(r)

createStreamCurl(r) == ApiOf[r] = "createStream" /\ StartRequest(r)
describeStreamCurl(r) == ApiOf[r] = "describeStream" /\ StartRequest(r)
getStreamingEndpointCurl(r) ==
    ApiOf[r] = "getStreamingEndpoint" /\ StartRequest(r)
tagResourceCurl(r) == ApiOf[r] = "tagResource" /\ StartRequest(r)
putStreamCurl(r) == ApiOf[r] = "putStream" /\ StartRequest(r)

-----------------------------------------------------------------------------
(***************************************************************************)
(* The handler threads.  Handler threads run without any lock except for   *)
(* the steps that store an endpoint and that remove the request.           *)
(***************************************************************************)

(* Where a handler goes once curlCallApi is behind it.  A successful       *)
(* GetStreamingEndpoint stores the endpoint it parsed; leaving early       *)
(* because the request is terminating is also a success, with nothing      *)
(* parsed; every failure skips the store.  The other handlers keep         *)
(* nothing, so for them the three ends are one.                            *)
CleanUpFrom(r, result) ==
    IF ApiOf[r] = "getStreamingEndpoint" /\ result # "failed"
    THEN IF result = "parsed" THEN "storeParsed" ELSE "storeUninitialized"
    ELSE "sampling"

(* curlCompleteSync up to its test of terminating; signing, the header     *)
(* list or the perform hook may fail first.                                *)
TestTerminating(r) ==
    /\ thread[r] = "waiting"
    /\ \/ Goto(r, CleanUpFrom(r, "failed"))
       \/ r \in terminating /\ Goto(r, CleanUpFrom(r, "leftEarly"))
       \/ r \notin terminating /\ Goto(r, "entering")
    /\ UNCHANGED <<terminating, blockedInCurl, terminated,
                   requestTerminating, freed, reported>>

(* The flag is raised, and curl_easy_perform called, in a later step than  *)
(* the test.                                                               *)
PerformCurl(r) ==
    /\ thread[r] = "entering"
    /\ blockedInCurl' = blockedInCurl \union {r}
    /\ Goto(r, "inCurl")
    /\ UNCHANGED <<terminating, terminated, requestTerminating, freed,
                   reported>>

(* postReadCallback hands curl the end of an upload's body, or an abort,   *)
(* and says that the session ends by itself.                               *)
EndBody(r) ==
    /\ thread[r] = "inCurl"
    /\ IsUpload(r)
    /\ r \notin terminated
    /\ terminated' = terminated \union {r}
    /\ UNCHANGED <<thread, terminating, blockedInCurl, requestTerminating,
                   freed, reported>>

(* curl_easy_perform returns, with a response or an error, and the handler *)
(* tests terminating again before it looks at the response.                *)
CurlReturns(r) ==
    /\ thread[r] = "inCurl"
    /\ blockedInCurl' = blockedInCurl \ {r}
    /\ IF r \in terminating
       THEN Goto(r, CleanUpFrom(r, "leftEarly"))
       ELSE \E result \in {"parsed", "failed"} :
                Goto(r, CleanUpFrom(r, result))
    /\ UNCHANGED <<terminating, terminated, requestTerminating, freed,
                   reported>>

StoreEndpoint(r) ==
    /\ \/ /\ thread[r] = "storeParsed"
          /\ pCachedEndpoints' =
                [pCachedEndpoints EXCEPT ![StreamOf[r]] = "endpoint"]
       \/ /\ thread[r] = "storeUninitialized"
          /\ pCachedEndpoints' =
                [pCachedEndpoints EXCEPT ![StreamOf[r]] = "uninitialized"]
    /\ Goto(r, "sampling")
    /\ UNCHANGED <<terminating, blockedInCurl, terminated,
                   requestTerminating, freed, reported>>
    /\ UNCHANGED <<tableVars, lockVars, streamVars, clientVars>>

(* Mutant: the handler takes every request for one that was not terminated.*)
SampleNothing(r) ==
    /\ thread[r] = "sampling"
    /\ Goto(r, "removing")
    /\ UNCHANGED <<terminating, blockedInCurl, terminated, requestTerminating,
                   freed, reported>>

SampleTerminating(r) ==
    /\ thread[r] = "sampling"
    /\ requestTerminating' = requestTerminating \union ({r} \intersect terminating)
    /\ Goto(r, "removing")
    /\ UNCHANGED <<terminating, blockedInCurl, terminated, freed, reported>>

(* curlApiCallbacksShutdownActiveRequests with fromCurlThread = TRUE: the  *)
(* request found under the stream's key is removed and freed; its flags go *)
(* with it.                                                                *)
RemoveActiveRequest(r) ==
    LET found == pActiveRequests[StreamOf[r]] IN
    /\ pActiveRequests' = [pActiveRequests EXCEPT ![StreamOf[r]] = NoRequest]
    /\ freed' = freed \union ({found} \ {NoRequest})
    /\ UNCHANGED pActiveUploads

(* Mutant: the upload is freed but its list node is not deleted.           *)
FreeUploadKeepNode(r) ==
    /\ freed' = freed \union ({r} \intersect pActiveUploads)
    /\ UNCHANGED tableVars

(* curlApiCallbacksShutdownActiveUploads with fromCurlThread = TRUE: the   *)
(* upload with this stream and upload handle.                              *)
RemoveActiveUpload(r) ==
    /\ pActiveUploads' = pActiveUploads \ {r}
    /\ freed' = freed \union ({r} \intersect pActiveUploads)
    /\ UNCHANGED pActiveRequests

RemoveAndFree(r) ==
    /\ thread[r] = "removing"
    /\ LockFree(r)
    /\ IF IsUpload(r) THEN RemoveActiveUpload(r) ELSE RemoveActiveRequest(r)
    /\ terminating' = terminating \ freed'
    /\ terminated' = terminated \ freed'
    /\ Goto(r, "notifying")
    /\ UNCHANGED <<blockedInCurl, requestTerminating, reported>>
    /\ UNCHANGED <<lockVars, streamVars, clientVars, pCachedEndpoints>>

(* Mutant: a handler whose request was not terminated exits silently.      *)
NotifyNobody(r) ==
    /\ thread[r] = "notifying"
    /\ Goto(r, "exited")
    /\ UNCHANGED <<terminating, blockedInCurl, terminated, requestTerminating,
                   freed, reported>>

(* The result event of the API, or kinesisVideoStreamTerminated for an     *)
(* upload, unless the sample said the request was being terminated.        *)
NotifyResult(r) ==
    /\ thread[r] = "notifying"
    /\ reported' = reported \union ({r} \ requestTerminating)
    /\ Goto(r, "exited")
    /\ UNCHANGED <<terminating, blockedInCurl, terminated,
                   requestTerminating, freed>>

HandlerStep(r) ==
    \/ /\ \/ TestTerminating(r)
          \/ PerformCurl(r)
          \/ EndBody(r)
          \/ CurlReturns(r)
          \/ SampleTerminating(r)
          \/ NotifyResult(r)
       /\ UNCHANGED <<tableVars, lockVars, streamVars, clientVars,
                      pCachedEndpoints>>
    \/ RemoveAndFree(r)

createStreamCurlHandler(r) == ApiOf[r] = "createStream" /\ HandlerStep(r)
describeStreamCurlHandler(r) == ApiOf[r] = "describeStream" /\ HandlerStep(r)
getStreamingEndpointCurlHandler(r) ==
    ApiOf[r] = "getStreamingEndpoint" /\ (HandlerStep(r) \/ StoreEndpoint(r))
tagResourceCurlHandler(r) == ApiOf[r] = "tagResource" /\ HandlerStep(r)
putStreamCurlHandler(r) == ApiOf[r] = "putStream" /\ HandlerStep(r)

-----------------------------------------------------------------------------
(***************************************************************************)
(* Tearing requests down from another thread.  Under the table's lock      *)
(* every given request gets its terminating flag and, if it is blocked in  *)
(* curl at that moment and its session does not end already, has its curl  *)
(* session timed out.                                                      *)
(***************************************************************************)
(* Mutant: blocked sessions are flagged but never timed out.               *)
FlagRequestsOnly(rs) ==
    /\ terminating' = terminating \union rs
    /\ UNCHANGED <<thread, blockedInCurl, terminated, requestTerminating, freed,
                   reported>>

TerminateRequests(rs) ==
    /\ terminating' = terminating \union rs
    /\ LET timedOut == (rs \intersect blockedInCurl) \ terminated
       IN  terminated' = terminated \union timedOut
    /\ UNCHANGED <<thread, blockedInCurl, requestTerminating, freed, reported>>

curlApiCallbacksShutdownActiveRequests(ss) ==
    /\ activeRequestsLock = NoRequest
    /\ TerminateRequests({pActiveRequests[s] : s \in ss} \ {NoRequest})

curlApiCallbacksShutdownActiveUploads(ss) ==
    /\ activeUploadsLock = NoRequest
    /\ TerminateRequests({u \in pActiveUploads : StreamOf[u] \in ss})

-----------------------------------------------------------------------------
(***************************************************************************)
(* shutdownStreamCurl.                                                     *)
(***************************************************************************)
StageGoto(s, from, to) ==
    /\ stage[s] = from
    /\ stage' = [stage EXCEPT ![s] = to]

MarkStream(s, resetStream) ==
    /\ ShutdownLockFree
    /\ s \notin pStreamsShuttingDown
    /\ StageGoto(s, "idle", "sweepRequests")
    /\ pStreamsShuttingDown' = pStreamsShuttingDown \union {s}
    /\ resetting' = IF resetStream THEN resetting \union {s} ELSE resetting
    /\ UNCHANGED <<requestVars, pCachedEndpoints>>

(* Mutant: the sweep of one stream is given no stream handle, which means  *)
(* every stream.                                                           *)
SweepEveryStream(s) ==
    /\ StageGoto(s, "sweepRequests", "sweepUploads")
    /\ curlApiCallbacksShutdownActiveRequests(Streams)
    /\ UNCHANGED <<pStreamsShuttingDown, resetting, pCachedEndpoints>>

SweepRequests(s) ==
    /\ StageGoto(s, "sweepRequests", "sweepUploads")
    /\ curlApiCallbacksShutdownActiveRequests({s})
    /\ UNCHANGED <<pStreamsShuttingDown, resetting, pCachedEndpoints>>

SweepUploads(s) ==
    /\ StageGoto(s, "sweepUploads", "dropEndpoint")
    /\ curlApiCallbacksShutdownActiveUploads({s})
    /\ UNCHANGED <<pStreamsShuttingDown, resetting, pCachedEndpoints>>

curlApiCallbacksShutdownCachedEndpoints(s) ==
    pCachedEndpoints' = [pCachedEndpoints EXCEPT ![s] = "none"]

(* Mutant: the shutdown does not wait for the stream's threads.            *)
DropEndpointNoWait(s) ==
    /\ StageGoto(s, "dropEndpoint", "unmark")
    /\ IF s \in resetting
       THEN UNCHANGED pCachedEndpoints
       ELSE curlApiCallbacksShutdownCachedEndpoints(s)
    /\ UNCHANGED <<pStreamsShuttingDown, resetting, requestVars>>

DropEndpoint(s) ==
    /\ StageGoto(s, "dropEndpoint", "awaitRequests")
    /\ IF s \in resetting
       THEN UNCHANGED pCachedEndpoints
       ELSE curlApiCallbacksShutdownCachedEndpoints(s)
    /\ UNCHANGED <<pStreamsShuttingDown, resetting, requestVars>>

AwaitRequests(s) ==
    /\ activeRequestsLock = NoRequest
    /\ pActiveRequests[s] = NoRequest
    /\ StageGoto(s, "awaitRequests", "awaitUploads")
    /\ UNCHANGED <<pStreamsShuttingDown, resetting, requestVars,
                   pCachedEndpoints>>

AwaitUploads(s) ==
    /\ activeUploadsLock = NoRequest
    /\ UploadsOf(s) = {}
    /\ StageGoto(s, "awaitUploads", "unmark")
    /\ UNCHANGED <<pStreamsShuttingDown, resetting, requestVars,
                   pCachedEndpoints>>

UnmarkStream(s) ==
    /\ ShutdownLockFree
    /\ StageGoto(s, "unmark", "idle")
    /\ pStreamsShuttingDown' = pStreamsShuttingDown \ {s}
    /\ resetting' = resetting \ {s}
    /\ UNCHANGED <<requestVars, pCachedEndpoints>>

shutdownStreamCurl(s) ==
    /\ \/ \E resetStream \in BOOLEAN : MarkStream(s, resetStream)
       \/ SweepRequests(s)
       \/ SweepUploads(s)
       \/ DropEndpoint(s)
       \/ AwaitRequests(s)
       \/ AwaitUploads(s)
       \/ UnmarkStream(s)
    /\ UNCHANGED <<tableVars, lockVars, clientVars>>

-----------------------------------------------------------------------------
(***************************************************************************)
(* curlApiCallbacksShutdown.  Marking iterates pActiveRequests under       *)
(* shutdownLock alone, so a starter past its check may insert meanwhile:   *)
(* the iteration is one step per stream.  hashTablePut fails on a stream   *)
(* that is already marked, and the whole shutdown returns with the error.  *)
(***************************************************************************)
ClientGoto(from, to) ==
    /\ client = from
    /\ client' = to

BeginShutdown ==
    /\ ClientGoto("idle", "locking")
    /\ toVisit' = Streams
    /\ UNCHANGED <<requestVars, pStreamsShuttingDown, pCachedEndpoints>>

LockShutdown ==
    /\ ClientGoto("locking", "marking")
    /\ UNCHANGED <<requestVars, pStreamsShuttingDown, pCachedEndpoints, toVisit>>

curlApiCallbacksMarkStreamShuttingdownCallback(s) ==
    /\ client = "marking"
    /\ s \in toVisit
    /\ toVisit' = toVisit \ {s}
    /\ \/ /\ pActiveRequests[s] = NoRequest
          /\ UNCHANGED <<client, pStreamsShuttingDown>>
       \/ /\ pActiveRequests[s] # NoRequest
          /\ s \notin pStreamsShuttingDown
          /\ pStreamsShuttingDown' = pStreamsShuttingDown \union {s}
          /\ UNCHANGED client
       \/ /\ pActiveRequests[s] # NoRequest
          /\ s \in pStreamsShuttingDown
          /\ client' = "failed"
          /\ UNCHANGED pStreamsShuttingDown
    /\ UNCHANGED <<requestVars, pCachedEndpoints>>

MarkedAll ==
    /\ toVisit = {}
    /\ ClientGoto("marking", "sweepRequests")
    /\ UNCHANGED <<requestVars, pStreamsShuttingDown, pCachedEndpoints, toVisit>>

SweepAllRequests ==
    /\ ClientGoto("sweepRequests", "sweepUploads")
    /\ curlApiCallbacksShutdownActiveRequests(Streams)
    /\ UNCHANGED <<pStreamsShuttingDown, pCachedEndpoints, toVisit>>

SweepAllUploads ==
    /\ ClientGoto("sweepUploads", "awaitRequests")
    /\ curlApiCallbacksShutdownActiveUploads(Streams)
    /\ UNCHANGED <<pStreamsShuttingDown, pCachedEndpoints, toVisit>>

AwaitAllRequests ==
    /\ ClientGoto("awaitRequests", "awaitUploads")
    /\ activeRequestsLock = NoRequest
    /\ ActiveRequests = {}
    /\ UNCHANGED <<requestVars, pStreamsShuttingDown, pCachedEndpoints, toVisit>>

AwaitAllUploads ==
    /\ ClientGoto("awaitUploads", "clearEndpoints")
    /\ activeUploadsLock = NoRequest
    /\ pActiveUploads = {}
    /\ UNCHANGED <<requestVars, pStreamsShuttingDown, pCachedEndpoints, toVisit>>

ClearEndpoints ==
    /\ ClientGoto("clearEndpoints", "done")
    /\ pCachedEndpoints' = [s \in Streams |-> "none"]
    /\ UNCHANGED <<requestVars, pStreamsShuttingDown, toVisit>>

curlApiCallbacksShutdown ==
    /\ \/ BeginShutdown
       \/ LockShutdown
       \/ \E s \in Streams : curlApiCallbacksMarkStreamShuttingdownCallback(s)
       \/ MarkedAll
       \/ SweepAllRequests
       \/ SweepAllUploads
       \/ AwaitAllRequests
       \/ AwaitAllUploads
       \/ ClearEndpoints
    /\ UNCHANGED <<tableVars, lockVars, stage, resetting>>

-----------------------------------------------------------------------------
Next ==
    \/ \E r \in Requests :
          \/ createStreamCurl(r)
          \/ describeStreamCurl(r)
          \/ getStreamingEndpointCurl(r)
          \/ tagResourceCurl(r)
          \/ putStreamCurl(r)
          \/ createStreamCurlHandler(r)
          \/ describeStreamCurlHandler(r)
          \/ getStreamingEndpointCurlHandler(r)
          \/ tagResourceCurlHandler(r)
          \/ putStreamCurlHandler(r)
    \/ \E s \in Streams : shutdownStreamCurl(s)
    \/ curlApiCallbacksShutdown

Spec == Init /\ [][Next]_vars

-----------------------------------------------------------------------------
(***************************************************************************)
(* Fairness.  Threads are scheduled and locks are held for finitely many   *)
(* steps, so every step but two is eventually taken: PIC need not make a   *)
(* call, and curl_easy_perform need not return by itself.  It does return  *)
(* when a timeout is set: control-plane calls carry a completion timeout,  *)
(* a terminated session is given one of a millisecond, and a session that  *)
(* has sent its body and hears nothing is ended by curl's low-speed limit. *)
(* An upload that nobody terminated may sit paused in curl for ever.       *)
(***************************************************************************)
HandlerProgress(r) ==
    /\ \/ thread[r] # "inCurl"
       \/ ~IsUpload(r)
       \/ r \in terminated
    /\ \/ HandlerStep(r)
       \/ StoreEndpoint(r)

Fairness ==
    /\ \A r \in Requests :
          /\ WF_vars(\/ CreateThread(r) \/ StartFails(r)
                     \/ Insert(r) \/ PutFails(r))
          /\ WF_vars(HandlerProgress(r))
    /\ \A s \in Streams : WF_vars(stage[s] # "idle" /\ shutdownStreamCurl(s))
    /\ WF_vars(client # "idle" /\ curlApiCallbacksShutdown)

FairSpec == Spec /\ Fairness

-----------------------------------------------------------------------------
StageNames == {"idle", "sweepRequests", "sweepUploads", "dropEndpoint",
               "awaitRequests", "awaitUploads", "unmark"}
ClientStages == {"idle", "locking", "marking", "sweepRequests",
                 "sweepUploads", "awaitRequests", "awaitUploads",
                 "clearEndpoints", "done", "failed"}

(* The type invariant of the tables, flags, locks and program counters of  *)
(* CurlApiCallbacks.                                                       *)
TypeOK ==
    /\ pActiveRequests \in [Streams -> Requests \union {NoRequest}]
    /\ pActiveUploads \subseteq Requests
    /\ pStreamsShuttingDown \subseteq Streams
    /\ pCachedEndpoints \in [Streams -> {"none", "endpoint", "uninitialized"}]
    /\ activeRequestsLock \in Requests \union {NoRequest}
    /\ activeUploadsLock \in Requests \union {NoRequest}
    /\ thread \in [Requests -> ThreadStates]
    /\ terminating \subseteq Requests
    /\ blockedInCurl \subseteq Requests
    /\ terminated \subseteq Requests
    /\ requestTerminating \subseteq Requests
    /\ freed \subseteq Requests
    /\ reported \subseteq Requests
    /\ stage \in [Streams -> StageNames]
    /\ resetting \subseteq Streams
    /\ client \in ClientStages
    /\ toVisit \subseteq Streams

Registered(r) == IF IsUpload(r) THEN r \in pActiveUploads
                                ELSE pActiveRequests[StreamOf[r]] = r

(* Ownership by the detached threads: whatever shutdowns and other         *)
(* requests do, a request that is being inserted or handled has not been   *)
(* freed; what a handler works on is registered, so that the teardown      *)
(* finds it; and what is registered is still being handled, so that the    *)
(* teardown never touches a freed request.  It says nothing of a thread    *)
(* whose request could not be inserted: see CreatedThreadsOwnRequest.      *)
HandlersOwnRequests ==
    \A r \in Requests :
        /\ thread[r] \in Handling \union {"created"} => r \notin freed
        /\ thread[r] \in Handling <=> Registered(r)

(* "Lock the startup mutex so the created thread will wait until we are    *)
(* done with bookkeeping" (CurlApiCallbacks.c:982): the request that a     *)
(* created thread was given is there for as long as the thread may read    *)
(* it.                                                                     *)
CreatedThreadsOwnRequest ==
    \A r \in Requests :
        thread[r] \in Handling \union {"created", "cancelled"} => r \notin freed

(* Once shutdownStreamCurl has swept a table, every request of the stream  *)
(* in that table carries the terminating flag: a starter that looked the   *)
(* stream up before it was marked cannot slip a request in behind the      *)
(* sweep, because it holds the table's lock from the look-up to the        *)
(* insertion.                                                              *)
SweptAreTerminating ==
    \A s \in Streams :
        /\ stage[s] \notin {"idle", "sweepRequests"} =>
              {pActiveRequests[s]} \ {NoRequest} \subseteq terminating
        /\ stage[s] \notin {"idle", "sweepRequests", "sweepUploads"} =>
              UploadsOf(s) \subseteq terminating

(* shutdownStreamCurl spins on the two tables one after the other; when it *)
(* removes the stream's mark, both are empty of the stream at once.        *)
QuietBeforeUnmark ==
    \A s \in Streams :
        stage[s] = "unmark" =>
            pActiveRequests[s] = NoRequest /\ UploadsOf(s) = {}

(* The table's lock is held across steps exactly by the starter that has   *)
(* looked its stream up and not yet inserted its request.                  *)
LockOwners ==
    /\ \A r \in Requests :
          thread[r] \in Starting <=> IF IsUpload(r) THEN activeUploadsLock = r
                                                    ELSE activeRequestsLock = r
    /\ activeRequestsLock \in Requests => ~IsUpload(activeRequestsLock)
    /\ activeUploadsLock \in Requests => IsUpload(activeUploadsLock)

(* The request table holds control-plane requests under their own stream,  *)
(* the upload list holds uploads.                                          *)
TablesSorted ==
    /\ \A s \in Streams :
          pActiveRequests[s] \in Requests =>
              /\ ~IsUpload(pActiveRequests[s])
              /\ StreamOf[pActiveRequests[s]] = s
    /\ \A u \in pActiveUploads : IsUpload(u)

NotYetSwept(r) ==
    IF IsUpload(r)
    THEN stage[StreamOf[r]] \in {"idle", "sweepRequests", "sweepUploads"}
    ELSE stage[StreamOf[r]] \in {"idle", "sweepRequests"}

(* No starter that passed its look-up is left behind a sweep.              *)
NoStarterBehindSweep ==
    \A r \in Requests : thread[r] \in Starting => NotYetSwept(r)

(* A stream stays marked while its shutdown runs, the first spin's result  *)
(* is still true during the second, and only a handler or a rejecting      *)
(* starter frees a request.                                                *)
ShutdownBookkeeping ==
    /\ \A s \in Streams : stage[s] # "idle" => s \in pStreamsShuttingDown
    /\ \A s \in Streams :
          stage[s] \in {"awaitUploads", "unmark"} =>
              pActiveRequests[s] = NoRequest
    /\ \A r \in Requests :
          thread[r] \in Starting \union {"none"} => r \notin freed

(* The inductive invariant behind the safety properties.                   *)
IndInv ==
    /\ TypeOK
    /\ HandlersOwnRequests
    /\ SweptAreTerminating
    /\ QuietBeforeUnmark
    /\ LockOwners
    /\ TablesSorted
    /\ NoStarterBehindSweep
    /\ ShutdownBookkeeping

(* A request told to terminate before its handler has left curlCallApi     *)
(* never delivers a result to PIC.                                         *)
TerminatedNeverReports ==
    \A r \in Requests :
        [](r \in terminating /\ thread[r] \in {"waiting", "entering", "inCurl"}
            => [](r \notin reported))

(* Every control-plane request that was accepted ends: its thread exits,   *)
(* and PIC got the result unless a shutdown terminated the request.        *)
ControlPlaneCallsSettle ==
    \A r \in Requests :
        thread[r] = "waiting" /\ ~IsUpload(r)
            ~> /\ thread[r] = "exited"
               /\ r \in reported \union requestTerminating

(* An upload that is blocked in curl when its stream's shutdown gets to    *)
(* the sweep of the uploads leaves curl and its thread exits.              *)
SweptUploadsExit ==
    \A u \in Requests :
        (/\ IsUpload(u)
         /\ u \in blockedInCurl
         /\ stage[StreamOf[u]] = "sweepUploads")
            ~> thread[u] = "exited"

(* shutdownStreamCurl returns, except when an upload of the stream entered *)
(* curl after the sweep found it outside: nobody times that session out.   *)
ShutdownStreamReturns ==
    \A s \in Streams :
        stage[s] # "idle"
            ~> \/ stage[s] = "idle"
               \/ [](\E u \in UploadsOf(s) : u \in blockedInCurl \ terminated)

(* A request is told to terminate only by the shutdown of its own stream   *)
(* or by the sweeps of the client shutdown, although all shutdowns share   *)
(* the two tables.                                                         *)
OthersLeftAlone ==
    [][\A r \in terminating' \ terminating :
          \/ stage[StreamOf[r]] \in {"sweepRequests", "sweepUploads"}
          \/ client \in {"sweepRequests", "sweepUploads"}]_vars

(* "at this point all remaining threads should not be blocked and reach    *)
(* termination shortly" (CurlApiCallbacks.c:725): when shutdownStreamCurl  *)
(* waits, every upload of the stream that is blocked in curl has had its   *)
(* session terminated.                                                     *)
RemainingNotBlocked ==
    \A s \in Streams :
        stage[s] \in {"awaitRequests", "awaitUploads"} =>
            UploadsOf(s) \intersect blockedInCurl \subseteq terminated

(* "After curlApiCallbacksShutdown, all threads originated from            *)
(* curApiCallbacks are expected to be terminated" (CurlApiCallbacks.c:273):*)
(* at its last step no handler thread is left that has yet to deliver its  *)
(* result.                                                                 *)
ThreadsEndBeforeShutdown ==
    [][client # "done" /\ client' = "done" =>
          \A r \in Requests : thread[r] # "notifying"]_vars

(* "Iterate every item in the map and terminate the stream"                *)
(* (CurlApiCallbacks.c:295): when curlApiCallbacksShutdown gives up, no    *)
(* stream with an active request is left unmarked.                         *)
EveryActiveStreamMarked ==
    [][client # "failed" /\ client' = "failed" =>
          \A s \in Streams :
              pActiveRequests[s] # NoRequest => s \in pStreamsShuttingDown]_vars

-----------------------------------------------------------------------------
(***************************************************************************)
(* The abstraction: a request is active while it is in one of the tables,  *)
(* a stream quiesces from the end of its second sweep to the removal of    *)
(* its mark.                                                               *)
(***************************************************************************)
AbsActive == {r \in Requests : Registered(r)}
AbsQuiescing == {s \in Streams : stage[s] \notin {"idle", "sweepRequests",
                                                  "sweepUploads"}}

Quiesce == INSTANCE StreamQuiesce WITH active <- AbsActive,
                                       quiescing <- AbsQuiescing

(* shutdownStreamCurl keeps the promise of StreamQuiesce: between the end  *)
(* of its sweeps and its return no request of the stream is registered by  *)
(* anybody, and it returns only when none is left in either table.         *)
ImplementsQuiesce == Quiesce!Spec
=============================================================================
