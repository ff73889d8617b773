----------------------- MODULE CurlApiCallbacksProofs -----------------------
(***************************************************************************)
(* Proofs about CurlApiCallbacks, for every set of streams and requests.   *)
(*                                                                         *)
(* IndInv is inductive.  HandlersOwnRequests alone is not: a starter that frees *)
(* its request needs to know that nobody registered it, the step that      *)
(* removes a request by its stream's key needs TablesSorted to know that   *)
(* it found its own, and SweptAreTerminating survives an insertion only    *)
(* because LockOwners and NoStarterBehindSweep keep every starter that     *)
(* passed its look-up in front of the sweep.  That a terminated request    *)
(* stays silent is a step property of its own invariant (Doomed).          *)
(***************************************************************************)
EXTENDS CurlApiCallbacks, TLAPS

(* The initial tables are empty and no thread runs.                        *)
LEMMA InitIndInv == Init => IndInv
  BY RequestsAssumption
  DEF Init, IndInv, TypeOK, HandlersOwnRequests, SweptAreTerminating,
      QuietBeforeUnmark, LockOwners, TablesSorted, NoStarterBehindSweep,
      ShutdownBookkeeping, NotYetSwept, Registered, UploadsOf, Handling,
      ThreadStates, Starting, StageNames, ClientStages, IsUpload

(* Inserting a request registers it and changes nobody else's registration.*)
LEMMA InsertRegisters ==
    ASSUME IndInv, NEW r \in Requests, Insert(r)
    PROVE  /\ Registered(r)'
           /\ \A q \in Requests \ {r} : Registered(q)' <=> Registered(q)
  <1> USE RequestsAssumption DEF IndInv, TypeOK, Insert, IsUpload
  <1>1. Registered(r)'
    BY DEF Registered
  <1>2. ASSUME NEW q \in Requests \ {r}
        PROVE  Registered(q)' <=> Registered(q)
    <2>1. CASE IsUpload(q)
      BY <2>1 DEF Registered
    <2>2. CASE ~IsUpload(q)
      BY <2>2 DEF Registered
    <2> QED BY <2>1, <2>2
  <1> QED BY <1>1, <1>2

(* What a handler removes is its own request, although it looks it up by   *)
(* the stream's key.                                                       *)
LEMMA RemovesItself ==
    ASSUME IndInv, NEW r \in Requests, RemoveAndFree(r)
    PROVE  /\ Registered(r)
           /\ thread' = [thread EXCEPT ![r] = "notifying"]
           /\ freed' = freed \union {r}
           /\ IF IsUpload(r)
              THEN /\ pActiveUploads' = pActiveUploads \ {r}
                   /\ pActiveRequests' = pActiveRequests
              ELSE /\ pActiveRequests' = [pActiveRequests EXCEPT
                                             ![StreamOf[r]] = NoRequest]
                   /\ pActiveUploads' = pActiveUploads
  BY RequestsAssumption
  DEF IndInv, TypeOK, RemoveAndFree, Goto, IsUpload, HandlersOwnRequests,
      Handling, Registered, RemoveActiveUpload, RemoveActiveRequest

(* Removing a request unregisters it and nobody else.                      *)
LEMMA RemoveUnregisters ==
    ASSUME IndInv, NEW r \in Requests, RemoveAndFree(r)
    PROVE  /\ ~Registered(r)'
           /\ \A q \in Requests \ {r} : Registered(q)' <=> Registered(q)
  <1> USE RequestsAssumption, RemovesItself DEF IndInv, TypeOK, IsUpload
  <1>1. ~Registered(r)'
    BY DEF Registered
  <1>2. ASSUME NEW q \in Requests \ {r}
        PROVE  Registered(q)' <=> Registered(q)
    <2>1. CASE IsUpload(q)
      BY <2>1 DEF Registered
    <2>2. CASE ~IsUpload(q)
      BY <2>2 DEF Registered
    <2> QED BY <2>1, <2>2
  <1> QED BY <1>1, <1>2

(* The insertion of a request into its table: the request was registered   *)
(* nowhere, its table is not swept yet, and no other entry is displaced.   *)
LEMMA InsertKeepsIndInv ==
    ASSUME IndInv, NEW r \in Requests, Insert(r)
    PROVE  IndInv'
  <1> USE RequestsAssumption
      DEF IndInv, TypeOK, Insert, Release, Goto, IsUpload, streamVars,
          clientVars
  <1>1. TypeOK'
    BY DEF ThreadStates, Starting, Handling
  <1>2. HandlersOwnRequests'
    <2>1. thread' = [thread EXCEPT ![r] = "waiting"]
      OBVIOUS
    <2>2. freed' = freed /\ r \notin freed
      BY DEF ShutdownBookkeeping, Starting
    <2>3. /\ Registered(r)'
          /\ \A q \in Requests \ {r} : Registered(q)' <=> Registered(q)
      BY InsertRegisters
    <2> HIDE DEF Insert
    <2> QED BY <2>1, <2>2, <2>3 DEF HandlersOwnRequests, Handling
  <1>3. SweptAreTerminating'
    BY DEF SweptAreTerminating, UploadsOf, NoStarterBehindSweep, NotYetSwept,
           Starting
  <1>4. QuietBeforeUnmark'
    BY DEF QuietBeforeUnmark, UploadsOf, NoStarterBehindSweep, NotYetSwept,
           Starting
  <1>5. LockOwners'
    BY DEF LockOwners, Starting
  <1>6. TablesSorted'
    BY DEF TablesSorted
  <1>7. NoStarterBehindSweep'
    BY DEF NoStarterBehindSweep, NotYetSwept, Starting
  <1>8. ShutdownBookkeeping'
    BY DEF ShutdownBookkeeping, NoStarterBehindSweep, NotYetSwept, Starting
  <1> QED BY <1>1, <1>2, <1>3, <1>4, <1>5, <1>6, <1>7, <1>8

(* The removal of a request by its handler: what it finds under its key is *)
(* its own request, and nobody else's registration changes.                *)
LEMMA RemoveAndFreeKeepsIndInv ==
    ASSUME IndInv, NEW r \in Requests, RemoveAndFree(r)
    PROVE  IndInv'
  <1> USE RequestsAssumption
      DEF IndInv, TypeOK, RemoveAndFree, Goto, IsUpload, lockVars,
          streamVars, clientVars
  <1>1. /\ Registered(r)
        /\ thread' = [thread EXCEPT ![r] = "notifying"]
        /\ freed' = freed \union {r}
        /\ IF IsUpload(r)
           THEN /\ pActiveUploads' = pActiveUploads \ {r}
                /\ pActiveRequests' = pActiveRequests
           ELSE /\ pActiveRequests' = [pActiveRequests EXCEPT
                                          ![StreamOf[r]] = NoRequest]
                /\ pActiveUploads' = pActiveUploads
    BY RemovesItself
  <1>2. TypeOK'
    BY <1>1 DEF ThreadStates, Starting, Handling
  <1>3. HandlersOwnRequests'
    <2> HIDE DEF RemoveAndFree
    <2>1. /\ ~Registered(r)'
          /\ \A q \in Requests \ {r} : Registered(q)' <=> Registered(q)
      BY RemoveUnregisters
    <2> QED BY <1>1, <2>1 DEF HandlersOwnRequests, Handling
  <1>4. SweptAreTerminating'
    <2> SUFFICES ASSUME NEW s \in Streams
                 PROVE  /\ stage'[s] \notin {"idle", "sweepRequests"} =>
                            {pActiveRequests'[s]} \ {NoRequest} \subseteq terminating'
                        /\ stage'[s] \notin {"idle", "sweepRequests", "sweepUploads"} =>
                            UploadsOf(s)' \subseteq terminating'
      BY DEF SweptAreTerminating
    <2>1. \A q \in freed : ~Registered(q)
      BY DEF HandlersOwnRequests
    <2>2. pActiveRequests'[s] \in Requests => pActiveRequests'[s] \notin freed'
      BY <1>1, <2>1 DEF Registered, TablesSorted
    <2>3. \A u \in pActiveUploads' : u \notin freed'
      BY <1>1, <2>1 DEF Registered, TablesSorted
    <2>4. pActiveRequests'[s] \in {pActiveRequests[s], NoRequest}
      BY <1>1
    <2>5. UploadsOf(s)' \subseteq UploadsOf(s)
      BY <1>1 DEF UploadsOf
    <2> QED BY <2>2, <2>3, <2>4, <2>5 DEF SweptAreTerminating, UploadsOf
  <1>5. QuietBeforeUnmark'
    BY <1>1 DEF QuietBeforeUnmark, UploadsOf
  <1>6. LockOwners'
    BY <1>1 DEF LockOwners, Starting
  <1>7. TablesSorted'
    BY <1>1 DEF TablesSorted
  <1>8. NoStarterBehindSweep'
    BY <1>1 DEF NoStarterBehindSweep, NotYetSwept, Starting
  <1>9. ShutdownBookkeeping'
    BY <1>1 DEF ShutdownBookkeeping, Starting
  <1> QED BY <1>2, <1>3, <1>4, <1>5, <1>6, <1>7, <1>8, <1>9

(* A starter preserves the invariant: it takes its table's lock, or frees  *)
(* a request that is in no table, or inserts it.                           *)
LEMMA StartRequestKeepsIndInv ==
    ASSUME IndInv, NEW r \in Requests, StartRequest(r)
    PROVE  IndInv'
  <1> USE RequestsAssumption
      DEF IndInv, TypeOK, HandlersOwnRequests, SweptAreTerminating,
          QuietBeforeUnmark, LockOwners, TablesSorted, NoStarterBehindSweep,
          ShutdownBookkeeping, NotYetSwept, Registered, UploadsOf, Handling,
          ThreadStates, Starting, StageNames, ClientStages, IsUpload, requestVars,
          tableVars, lockVars, streamVars, clientVars
  <1>1. CASE CheckShutdown(r)
    BY <1>1 DEF CheckShutdown, Reject, Acquire, Goto, LockFree,
                 ShutdownLockFree
  <1>2. CASE Insert(r)
    BY <1>2, InsertKeepsIndInv
  <1>3. CASE StartFails(r)
    BY <1>3 DEF StartFails, Reject, Release, Goto
  <1>4. CASE CreateThread(r)
    BY <1>4 DEF CreateThread, Goto
  <1>5. CASE PutFails(r)
    BY <1>5 DEF PutFails, Release, Goto
  <1>6. CASE CancelTakesEffect(r)
    BY <1>6 DEF CancelTakesEffect, Goto
  <1> HIDE DEF IndInv
  <1> QED BY <1>1, <1>2, <1>3, <1>4, <1>5, <1>6 DEF StartRequest

(* A handler thread preserves the invariant; only its removal step touches *)
(* the tables.                                                             *)
LEMMA HandlerKeepsIndInv ==
    ASSUME IndInv, NEW r \in Requests,
           HandlerStep(r) \/ StoreEndpoint(r)
    PROVE  IndInv'
  <1> USE RequestsAssumption
      DEF IndInv, TypeOK, HandlersOwnRequests, SweptAreTerminating,
          QuietBeforeUnmark, LockOwners, TablesSorted, NoStarterBehindSweep,
          ShutdownBookkeeping, NotYetSwept, Registered, UploadsOf, Handling,
          ThreadStates, Starting, StageNames, ClientStages, IsUpload, requestVars,
          tableVars, lockVars, streamVars, clientVars
  <1>1. CASE TestTerminating(r) /\ UNCHANGED <<tableVars, lockVars, streamVars,
                    clientVars, pCachedEndpoints>>
    BY <1>1 DEF TestTerminating, CleanUpFrom, Goto
  <1>2. CASE PerformCurl(r) /\ UNCHANGED <<tableVars, lockVars, streamVars,
                    clientVars, pCachedEndpoints>>
    BY <1>2 DEF PerformCurl, Goto
  <1>3. CASE CurlReturns(r) /\ UNCHANGED <<tableVars, lockVars, streamVars,
                    clientVars, pCachedEndpoints>>
    BY <1>3 DEF CurlReturns, CleanUpFrom, Goto
  <1>4. CASE SampleTerminating(r) /\ UNCHANGED <<tableVars, lockVars, streamVars,
                    clientVars, pCachedEndpoints>>
    BY <1>4 DEF SampleTerminating, Goto
  <1>5. CASE NotifyResult(r) /\ UNCHANGED <<tableVars, lockVars, streamVars,
                    clientVars, pCachedEndpoints>>
    BY <1>5 DEF NotifyResult, Goto
  <1>6. CASE RemoveAndFree(r)
    BY <1>6, RemoveAndFreeKeepsIndInv
  <1>7. CASE StoreEndpoint(r)
    BY <1>7 DEF StoreEndpoint, Goto
  <1>8. CASE EndBody(r) /\ UNCHANGED <<tableVars, lockVars, streamVars,
                    clientVars, pCachedEndpoints>>
    BY <1>8 DEF EndBody
  <1> HIDE DEF IndInv
  <1> QED BY <1>1, <1>2, <1>3, <1>4, <1>5, <1>6, <1>7, <1>8 DEF HandlerStep

(* A stream shutdown preserves the invariant: the sweeps flag what the     *)
(* tables hold, and the waits end only on empty tables.                    *)
LEMMA ShutdownStreamKeepsIndInv ==
    ASSUME IndInv, NEW s \in Streams, shutdownStreamCurl(s)
    PROVE  IndInv'
  <1> USE RequestsAssumption
      DEF IndInv, TypeOK, HandlersOwnRequests, SweptAreTerminating,
          QuietBeforeUnmark, LockOwners, TablesSorted, NoStarterBehindSweep,
          ShutdownBookkeeping, NotYetSwept, Registered, UploadsOf, Handling,
          ThreadStates, Starting, StageNames, ClientStages, IsUpload, requestVars,
          tableVars, lockVars, streamVars, clientVars
  <1>0. UNCHANGED <<tableVars, lockVars, clientVars>>
    BY DEF shutdownStreamCurl
  <1>1. CASE \E resetStream \in BOOLEAN : MarkStream(s, resetStream)
    BY <1>0, <1>1 DEF MarkStream, StageGoto
  <1>2. CASE SweepRequests(s)
    BY <1>0, <1>2 DEF SweepRequests, StageGoto, TerminateRequests,
                 curlApiCallbacksShutdownActiveRequests
  <1>3. CASE SweepUploads(s)
    BY <1>0, <1>3 DEF SweepUploads, StageGoto, TerminateRequests,
                 curlApiCallbacksShutdownActiveUploads
  <1>4. CASE DropEndpoint(s)
    BY <1>0, <1>4 DEF DropEndpoint, StageGoto,
                 curlApiCallbacksShutdownCachedEndpoints
  <1>5. CASE AwaitRequests(s)
    BY <1>0, <1>5 DEF AwaitRequests, StageGoto
  <1>6. CASE AwaitUploads(s)
    BY <1>0, <1>6 DEF AwaitUploads, StageGoto
  <1>7. CASE UnmarkStream(s)
    BY <1>0, <1>7 DEF UnmarkStream, StageGoto
  <1> HIDE DEF IndInv
  <1> QED BY <1>1, <1>2, <1>3, <1>4, <1>5, <1>6, <1>7 DEF shutdownStreamCurl

(* The client shutdown preserves the invariant: it flags requests and      *)
(* marks streams, but leaves the tables and the locks alone.               *)
LEMMA ClientShutdownKeepsIndInv ==
    ASSUME IndInv, curlApiCallbacksShutdown
    PROVE  IndInv'
  <1> USE RequestsAssumption
      DEF IndInv, TypeOK, HandlersOwnRequests, SweptAreTerminating,
          QuietBeforeUnmark, LockOwners, TablesSorted, NoStarterBehindSweep,
          ShutdownBookkeeping, NotYetSwept, Registered, UploadsOf, Handling,
          ThreadStates, Starting, StageNames, ClientStages, IsUpload, requestVars,
          tableVars, lockVars, streamVars, clientVars
  <1>0. UNCHANGED <<tableVars, lockVars, stage, resetting>>
    BY DEF curlApiCallbacksShutdown
  <1>1. CASE BeginShutdown
    BY <1>0, <1>1 DEF BeginShutdown, ClientGoto
  <1>2. CASE LockShutdown
    BY <1>0, <1>2 DEF LockShutdown, ClientGoto
  <1>3. CASE \E s \in Streams :
                curlApiCallbacksMarkStreamShuttingdownCallback(s)
    BY <1>0, <1>3 DEF curlApiCallbacksMarkStreamShuttingdownCallback
  <1>4. CASE MarkedAll
    BY <1>0, <1>4 DEF MarkedAll, ClientGoto
  <1>5. CASE SweepAllRequests
    BY <1>0, <1>5 DEF SweepAllRequests, ClientGoto, TerminateRequests,
                 curlApiCallbacksShutdownActiveRequests
  <1>6. CASE SweepAllUploads
    BY <1>0, <1>6 DEF SweepAllUploads, ClientGoto, TerminateRequests,
                 curlApiCallbacksShutdownActiveUploads
  <1>7. CASE AwaitAllRequests
    BY <1>0, <1>7 DEF AwaitAllRequests, ClientGoto
  <1>8. CASE AwaitAllUploads
    BY <1>0, <1>8 DEF AwaitAllUploads, ClientGoto
  <1>9. CASE ClearEndpoints
    BY <1>0, <1>9 DEF ClearEndpoints, ClientGoto
  <1> HIDE DEF IndInv
  <1> QED BY <1>1, <1>2, <1>3, <1>4, <1>5, <1>6, <1>7, <1>8, <1>9 DEF
             curlApiCallbacksShutdown

(* Every step of the system, and every stuttering step, preserves the      *)
(* invariant.                                                              *)
LEMMA NextKeepsIndInv == IndInv /\ [Next]_vars => IndInv'
  <1> SUFFICES ASSUME IndInv, [Next]_vars
               PROVE  IndInv'
    OBVIOUS
  <1>1. CASE \E r \in Requests :
                StartRequest(r) \/ HandlerStep(r) \/ StoreEndpoint(r)
    BY <1>1, StartRequestKeepsIndInv, HandlerKeepsIndInv
  <1>2. CASE \E s \in Streams : shutdownStreamCurl(s)
    BY <1>2, ShutdownStreamKeepsIndInv
  <1>3. CASE curlApiCallbacksShutdown
    BY <1>3, ClientShutdownKeepsIndInv
  <1>4. CASE UNCHANGED vars
    BY <1>4 DEF vars, requestVars, tableVars, lockVars, streamVars,
                clientVars, IndInv, TypeOK, HandlersOwnRequests,
                SweptAreTerminating, QuietBeforeUnmark, LockOwners,
                TablesSorted, NoStarterBehindSweep, ShutdownBookkeeping,
                NotYetSwept, Registered, UploadsOf
  <1> QED
    BY <1>1, <1>2, <1>3, <1>4
    DEF Next, createStreamCurl, describeStreamCurl, getStreamingEndpointCurl,
        tagResourceCurl, putStreamCurl, createStreamCurlHandler,
        describeStreamCurlHandler, getStreamingEndpointCurlHandler,
        tagResourceCurlHandler, putStreamCurlHandler

(* IndInv holds in every reachable state of the request engine.            *)
THEOREM Invariance == Spec => []IndInv
  BY InitIndInv, NextKeepsIndInv, PTL DEF Spec

(* Tables, flags, locks and program counters of CurlApiCallbacks.c always  *)
(* have their types.                                                       *)
THEOREM TypeCorrect == Spec => []TypeOK
  <1>1. IndInv => TypeOK
    BY DEF IndInv
  <1> QED BY <1>1, Invariance, PTL

(* Ownership by the handler threads: neither a teardown, nor a starter     *)
(* whose insertion fails, nor another handler frees or unregisters a       *)
(* request that is being inserted or handled, and the tables never hold a  *)
(* freed request.  The thread of a request whose insertion failed is not   *)
(* covered: it keeps a pointer to a request its starter has freed.         *)
THEOREM HandlersOwn == Spec => []HandlersOwnRequests
  <1>1. IndInv => HandlersOwnRequests
    BY DEF IndInv
  <1> QED BY <1>1, Invariance, PTL

(* No request is inserted behind the sweep of a stream shutdown: whatever  *)
(* a swept table still holds for the stream has been told to terminate.    *)
THEOREM SweepsAreComplete == Spec => []SweptAreTerminating
  <1>1. IndInv => SweptAreTerminating
    BY DEF IndInv
  <1> QED BY <1>1, Invariance, PTL

(* shutdownStreamCurl removes the stream's mark only when both tables are  *)
(* empty of the stream, although it looks at them one after the other.     *)
THEOREM ShutdownLeavesStreamQuiet == Spec => []QuietBeforeUnmark
  <1>1. IndInv => QuietBeforeUnmark
    BY DEF IndInv
  <1> QED BY <1>1, Invariance, PTL

-----------------------------------------------------------------------------
(***************************************************************************)
(* The refinement: an insertion is Register, a removal is Retire, the      *)
(* second sweep is BeginQuiesce, the removal of the mark is EndQuiesce,    *)
(* and every other step stutters.                                          *)
(***************************************************************************)

(* A step that leaves the tables and the stages alone is a stuttering step *)
(* of StreamQuiesce.                                                       *)
LEMMA QuiesceStutters ==
    ASSUME UNCHANGED <<tableVars, stage>>
    PROVE  UNCHANGED <<AbsActive, AbsQuiescing>>
  BY DEF tableVars, AbsActive, AbsQuiescing, Registered

(* Every step of the request engine is a step of StreamQuiesce.            *)
LEMMA QuiesceStep ==
    ASSUME IndInv, [Next]_vars
    PROVE  [Quiesce!Next]_(Quiesce!quiesceVars)
  <1> USE DEF Quiesce!quiesceVars
  <1>1. ASSUME NEW r \in Requests, Insert(r)
        PROVE  Quiesce!Register(r)
    <2>1. StreamOf[r] \notin AbsQuiescing
      BY <1>1 DEF Insert, IndInv, NoStarterBehindSweep, NotYetSwept,
                  Starting, AbsQuiescing
    <2>2. AbsActive' = AbsActive \union {r}
      BY <1>1, InsertRegisters DEF AbsActive
    <2>3. AbsQuiescing' = AbsQuiescing
      BY <1>1 DEF Insert, streamVars, AbsQuiescing
    <2> QED BY <2>1, <2>2, <2>3 DEF Quiesce!Register
  <1>2. ASSUME NEW r \in Requests, RemoveAndFree(r)
        PROVE  Quiesce!Retire(r)
    <2>1. AbsActive' = AbsActive \ {r}
      BY <1>2, RemoveUnregisters DEF AbsActive
    <2>2. AbsQuiescing' = AbsQuiescing
      BY <1>2 DEF RemoveAndFree, streamVars, AbsQuiescing
    <2> QED BY <2>1, <2>2 DEF Quiesce!Retire
  <1>3. ASSUME NEW r \in Requests,
               StartRequest(r) \/ HandlerStep(r) \/ StoreEndpoint(r),
               ~Insert(r), ~RemoveAndFree(r)
        PROVE  UNCHANGED <<AbsActive, AbsQuiescing>>
    BY <1>3, QuiesceStutters
    DEF StartRequest, CheckShutdown, CreateThread, StartFails, PutFails,
        CancelTakesEffect, Reject, HandlerStep, StoreEndpoint, tableVars,
        streamVars
  <1>4. ASSUME NEW s \in Streams, shutdownStreamCurl(s)
        PROVE  Quiesce!BeginQuiesce(s) \/ Quiesce!EndQuiesce(s)
                 \/ UNCHANGED <<AbsActive, AbsQuiescing>>
    <2>1. AbsActive' = AbsActive
      BY <1>4 DEF shutdownStreamCurl, tableVars, AbsActive, Registered
    <2>2. CASE SweepUploads(s)
      BY <2>1, <2>2
      DEF SweepUploads, StageGoto, IndInv, TypeOK, AbsQuiescing,
          StageNames, Quiesce!BeginQuiesce
    <2>3. CASE UnmarkStream(s)
      <3>1. /\ s \in AbsQuiescing
            /\ AbsQuiescing' = AbsQuiescing \ {s}
        BY <2>3 DEF UnmarkStream, StageGoto, IndInv, TypeOK, AbsQuiescing,
                    StageNames
      <3>2. Quiesce!ActiveOf(s) = {}
        BY <2>3, RequestsAssumption
        DEF UnmarkStream, StageGoto, IndInv, QuietBeforeUnmark, UploadsOf,
            AbsActive, Registered, Quiesce!ActiveOf
      <3> QED BY <2>1, <3>1, <3>2 DEF Quiesce!EndQuiesce
    <2>4. CASE ~SweepUploads(s) /\ ~UnmarkStream(s)
      <3>1. AbsQuiescing' = AbsQuiescing
        BY <1>4, <2>4
        DEF shutdownStreamCurl, MarkStream, SweepRequests, DropEndpoint,
            AwaitRequests, AwaitUploads, StageGoto, IndInv, TypeOK,
            StageNames, AbsQuiescing
      <3> QED BY <2>1, <3>1
    <2> QED BY <2>2, <2>3, <2>4
  <1>5. ASSUME curlApiCallbacksShutdown
        PROVE  UNCHANGED <<AbsActive, AbsQuiescing>>
    BY <1>5, QuiesceStutters DEF curlApiCallbacksShutdown
  <1>6. ASSUME UNCHANGED vars
        PROVE  UNCHANGED <<AbsActive, AbsQuiescing>>
    BY <1>6, QuiesceStutters DEF vars, tableVars, streamVars
  <1> QED
    BY <1>1, <1>2, <1>3, <1>4, <1>5, <1>6
    DEF Quiesce!Next, Next, createStreamCurl, describeStreamCurl,
        getStreamingEndpointCurl, tagResourceCurl, putStreamCurl,
        createStreamCurlHandler, describeStreamCurlHandler,
        getStreamingEndpointCurlHandler, tagResourceCurlHandler,
        putStreamCurlHandler

(* shutdownStreamCurl implements StreamQuiesce: from the end of its sweeps *)
(* to its return nobody adds a request of the stream, and it returns only  *)
(* when the stream has none left, whatever starters, handlers and the      *)
(* client shutdown do meanwhile.                                           *)
THEOREM RefinesQuiesce == Spec => ImplementsQuiesce
  <1>1. Init => Quiesce!Init
    BY RequestsAssumption
    DEF Init, Quiesce!Init, AbsActive, AbsQuiescing, Registered
  <1>2. IndInv /\ [Next]_vars => [Quiesce!Next]_(Quiesce!quiesceVars)
    BY QuiesceStep
  <1> QED
    BY <1>1, <1>2, Invariance, PTL DEF Spec, ImplementsQuiesce, Quiesce!Spec

-----------------------------------------------------------------------------
(***************************************************************************)
(* Terminated requests.  Once a request is flagged in front of its         *)
(* handler's sample, the flag stays until the sample is taken (only the    *)
(* handler itself frees the request), and the sample stays afterwards.     *)
(***************************************************************************)
ReportsComeLast == \A r \in Requests : r \in reported => thread[r] = "exited"

Doomed(r) ==
    /\ r \notin reported
    /\ thread[r] \in Handling \ {"removing"} => r \in terminating
    /\ thread[r] \in {"removing", "notifying"} => r \in requestTerminating
    /\ thread[r] \notin Starting \union {"none"}

(* Only the step of a request itself moves its thread, and only the last   *)
(* step of its handler reports; that last step is not taken twice.         *)
LEMMA NextKeepsReportsLast ==
    ASSUME IndInv, ReportsComeLast, [Next]_vars
    PROVE  ReportsComeLast'
  <1> USE DEF ReportsComeLast
  <1> DEFINE T == thread
  <1>0. T \in [Requests -> ThreadStates]
    BY DEF IndInv, TypeOK
  <1>1. ASSUME NEW r \in Requests,
               StartRequest(r) \/ HandlerStep(r) \/ StoreEndpoint(r)
        PROVE  ReportsComeLast'
    <2>1. /\ T[r] # "exited"
          /\ thread' = thread \/ \E to \in ThreadStates : Goto(r, to)
          /\ \/ reported' = reported
             \/ Goto(r, "exited") /\ reported' = reported \union ({r} \ requestTerminating)
      BY <1>1
      DEF StartRequest, CheckShutdown, CreateThread, Insert, StartFails,
          PutFails, CancelTakesEffect, Reject, HandlerStep, TestTerminating,
          PerformCurl, EndBody, CurlReturns, SampleTerminating, NotifyResult,
          RemoveAndFree, StoreEndpoint, CleanUpFrom, Goto, ThreadStates,
          Starting, Handling
    <2> QED BY <1>0, <2>1 DEF Goto
  <1>2. CASE \E s \in Streams : shutdownStreamCurl(s)
    BY <1>2
    DEF shutdownStreamCurl, MarkStream, SweepRequests, SweepUploads,
        DropEndpoint, AwaitRequests, AwaitUploads, UnmarkStream,
        TerminateRequests, curlApiCallbacksShutdownActiveRequests,
        curlApiCallbacksShutdownActiveUploads, requestVars
  <1>3. CASE curlApiCallbacksShutdown
    BY <1>3
    DEF curlApiCallbacksShutdown, BeginShutdown, LockShutdown, MarkedAll,
        curlApiCallbacksMarkStreamShuttingdownCallback, SweepAllRequests,
        SweepAllUploads, AwaitAllRequests, AwaitAllUploads, ClearEndpoints,
        TerminateRequests, curlApiCallbacksShutdownActiveRequests,
        curlApiCallbacksShutdownActiveUploads, requestVars
  <1>4. CASE UNCHANGED vars
    BY <1>4 DEF vars, requestVars
  <1> QED
    BY <1>1, <1>2, <1>3, <1>4
    DEF Next, createStreamCurl, describeStreamCurl, getStreamingEndpointCurl,
        tagResourceCurl, putStreamCurl, createStreamCurlHandler,
        describeStreamCurlHandler, getStreamingEndpointCurlHandler,
        tagResourceCurlHandler, putStreamCurlHandler

(* A doomed request stays doomed: teardowns only add flags, and the        *)
(* handlers of other requests free only their own.                         *)
LEMMA NextKeepsDoomed ==
    ASSUME NEW r \in Requests, IndInv, Doomed(r), [Next]_vars
    PROVE  Doomed(r)'
  <1>0. /\ thread \in [Requests -> ThreadStates]
        /\ thread[r] \in Handling => r \notin freed
    BY DEF IndInv, TypeOK, HandlersOwnRequests
  <1>1. ASSUME StartRequest(r) \/ HandlerStep(r) \/ StoreEndpoint(r)
        PROVE  Doomed(r)'
    <2>1. CASE StartRequest(r)
      <3>1. CancelTakesEffect(r)
        BY <2>1 DEF Doomed, StartRequest, CheckShutdown, CreateThread, Insert,
                    StartFails, PutFails, Starting
      <3> QED BY <1>0, <3>1 DEF Doomed, CancelTakesEffect, Goto, Handling,
                                Starting
    <2>2. CASE TestTerminating(r) \/ PerformCurl(r) \/ CurlReturns(r) \/ StoreEndpoint(r)
      BY <1>0, <2>2
      DEF Doomed, TestTerminating, PerformCurl, CurlReturns, StoreEndpoint,
          CleanUpFrom, Goto, Handling, Starting
    <2>3. CASE SampleTerminating(r)
      BY <1>0, <2>3 DEF Doomed, SampleTerminating, Goto, Handling, Starting
    <2>4. CASE RemoveAndFree(r)
      BY <1>0, <2>4 DEF Doomed, RemoveAndFree, Goto, Handling, Starting
    <2>5. CASE NotifyResult(r)
      BY <1>0, <2>5 DEF Doomed, NotifyResult, Goto, Handling, Starting
    <2>6. CASE EndBody(r)
      BY <2>6 DEF Doomed, EndBody
    <2> QED BY <1>1, <2>1, <2>2, <2>3, <2>4, <2>5, <2>6 DEF HandlerStep
  <1>2. ASSUME NEW q \in Requests \ {r},
               StartRequest(q) \/ HandlerStep(q) \/ StoreEndpoint(q)
        PROVE  Doomed(r)'
    <2>1. CASE RemoveAndFree(q)
      <3>1. freed' = freed \union {q} /\ thread' = [thread EXCEPT ![q] = "notifying"]
        BY <2>1, RemovesItself
      <3>2. /\ terminating' = terminating \ freed'
            /\ UNCHANGED <<requestTerminating, reported>>
        BY <2>1 DEF RemoveAndFree
      <3> QED BY <1>0, <3>1, <3>2 DEF Doomed, Handling
    <2>2. CASE ~RemoveAndFree(q)
      <3>1. /\ terminating' = terminating /\ thread'[r] = thread[r]
            /\ requestTerminating \subseteq requestTerminating'
            /\ reported' \subseteq reported \union {q}
        BY <1>0, <1>2, <2>2
        DEF StartRequest, CheckShutdown, CreateThread, Insert, StartFails,
            PutFails, CancelTakesEffect, Reject, HandlerStep, TestTerminating,
            PerformCurl, EndBody, CurlReturns, SampleTerminating, NotifyResult,
            StoreEndpoint, Goto
      <3> QED BY <3>1 DEF Doomed
    <2> QED BY <2>1, <2>2
  <1>3. ASSUME /\ UNCHANGED <<thread, requestTerminating, reported>>
               /\ terminating \subseteq terminating'
        PROVE  Doomed(r)'
    BY <1>3 DEF Doomed
  <1>4. CASE \E s \in Streams : shutdownStreamCurl(s)
    <2>1. /\ UNCHANGED <<thread, requestTerminating, reported>>
          /\ terminating \subseteq terminating'
      BY <1>4
      DEF shutdownStreamCurl, MarkStream, SweepRequests, SweepUploads,
          DropEndpoint, AwaitRequests, AwaitUploads, UnmarkStream,
          TerminateRequests, curlApiCallbacksShutdownActiveRequests,
          curlApiCallbacksShutdownActiveUploads, requestVars
    <2> QED BY <1>3, <2>1
  <1>5. CASE curlApiCallbacksShutdown
    <2>1. /\ UNCHANGED <<thread, requestTerminating, reported>>
          /\ terminating \subseteq terminating'
      BY <1>5
      DEF curlApiCallbacksShutdown, BeginShutdown, LockShutdown, MarkedAll,
          curlApiCallbacksMarkStreamShuttingdownCallback, SweepAllRequests,
          SweepAllUploads, AwaitAllRequests, AwaitAllUploads, ClearEndpoints,
          TerminateRequests, curlApiCallbacksShutdownActiveRequests,
          curlApiCallbacksShutdownActiveUploads, requestVars
    <2> QED BY <1>3, <2>1
  <1>6. CASE UNCHANGED vars
    BY <1>3, <1>6 DEF vars, requestVars
  <1> QED
    BY <1>1, <1>2, <1>4, <1>5, <1>6
    DEF Next, createStreamCurl, describeStreamCurl, getStreamingEndpointCurl,
        tagResourceCurl, putStreamCurl, createStreamCurlHandler,
        describeStreamCurlHandler, getStreamingEndpointCurlHandler,
        tagResourceCurlHandler, putStreamCurlHandler

(* A request told to terminate before its handler has left curlCallApi     *)
(* never delivers a result to PIC: curlCallApi leaves early, the handler   *)
(* samples the flag before it frees the request, and nobody takes the flag *)
(* back in between.                                                        *)
THEOREM TerminatedStaySilent == Spec => TerminatedNeverReports
  <1>1. Spec => []ReportsComeLast
    <2>1. Init => ReportsComeLast
      BY DEF Init, ReportsComeLast
    <2>2. IndInv /\ ReportsComeLast /\ [Next]_vars => ReportsComeLast'
      BY NextKeepsReportsLast
    <2> QED BY <2>1, <2>2, Invariance, PTL DEF Spec
  <1>2. ASSUME NEW r \in Requests
        PROVE  Spec => [](r \in terminating /\ thread[r] \in {"waiting", "entering", "inCurl"}
                            => [](r \notin reported))
    <2>1. ReportsComeLast /\ r \in terminating /\ thread[r] \in {"waiting", "entering", "inCurl"}
            => Doomed(r)
      BY DEF ReportsComeLast, Doomed, Handling, Starting
    <2>2. IndInv /\ Doomed(r) /\ [Next]_vars => Doomed(r)'
      BY NextKeepsDoomed
    <2>3. Doomed(r) => r \notin reported
      BY DEF Doomed
    <2> QED BY <1>1, <2>1, <2>2, <2>3, Invariance, PTL DEF Spec
  <1> QED BY <1>2 DEF TerminatedNeverReports
=============================================================================
