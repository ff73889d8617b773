----------------------- MODULE StreamConnectionProofs -----------------------
(***************************************************************************)
(* Proofs about what keeps one stream connected: its upload session, the   *)
(* retry that resets the stream after an error, and the two machines that  *)
(* reset its connection.  They do not share state; what is proved of one   *)
(* does not rest on another.                                               *)
(*                                                                         *)
(* UploadSession, for any number of frames and attempts: that a sleeping  *)
(* notifier or terminator keeps the session from being freed is not        *)
(* inductive by itself; SessionInv adds who holds activeUploadsLock.       *)
(*                                                                         *)
(* ContinuousRetry, for any number of streams, records and threads, with   *)
(* nothing assumed of the callers: the table and the closing callbacks own *)
(* the live records, a reset thread of a live record is tracked, and a     *)
(* close that is past its join has no reset thread left.  A caller with a  *)
(* dangling pointer is within the model, and harms none of this.           *)
(*                                                                         *)
(* ConnectionHealth, for every grace and verification period.              *)
(***************************************************************************)
EXTENDS UploadSession, ContinuousRetry, ConnectionHealth, TLAPS

-----------------------------------------------------------------------------
(* The upload session.                                                     *)

(* Every step of the session preserves SessionInv.                            *)
LEMMA NextKeepsSessionInv == SessionInv /\ [SessionNext]_sessionVars => SessionInv'
  <1> SUFFICES ASSUME SessionInv, [SessionNext]_sessionVars
               PROVE  SessionInv'
    OBVIOUS
  <1> USE UploadAssumption
      DEF SessionInv, SessionTypeOK, SleepersKeepSession, UploadsLockFree, Found, Is,
          Flags, picVars, readerVars
  <1>1. CASE PutFrame \/ StopStream \/ AbortUploadHandle
    <2>1. CASE PutFrame
      BY <2>1 DEF PutFrame
    <2>2. CASE StopStream
      BY <2>2 DEF StopStream
    <2>3. CASE AbortUploadHandle
      BY <2>3 DEF AbortUploadHandle
    <2> QED BY <1>1, <2>1, <2>2, <2>3
  <1>2. CASE dataAvailableCurl
    BY <1>2, ZenonT(30) DEF dataAvailableCurl, MustUnpause
  <1>3. CASE Unpause
    BY <1>3 DEF Unpause
  <1>4. CASE postWriteCallback
    BY <1>4 DEF postWriteCallback
  <1>5. CASE fragmentAckReceivedCurl
    BY <1>5 DEF fragmentAckReceivedCurl, MustUnpause
  <1>6. CASE UnpauseOnAck
    BY <1>6 DEF UnpauseOnAck
  <1>7. CASE postReadCallback
    <2>1. CASE EnterRead
      <3>1. CASE Is("paused")
        BY <2>1, <3>1 DEF EnterRead
      <3>2. CASE ~Is("paused") /\ (Is("endOfStream") \/ Is("terminating"))
        BY <2>1, <3>2 DEF EnterRead, EndBody
      <3>3. CASE ~Is("paused") /\ ~Is("endOfStream") /\ ~Is("terminating")
        <4>1. /\ flags' = flags
              /\ reader = "idle"
              /\ reader' = "fetching"
              /\ iter' = 0
              /\ UNCHANGED <<picVars, session, producer, shutdown,
                             activeUploadsLock>>
          BY <2>1, <3>3 DEF EnterRead
        <4> QED BY <4>1
      <3> QED BY <3>1, <3>2, <3>3
    <2>2. CASE getKinesisVideoStreamData
      <3>1. CASE GotData
        BY <2>2, <3>1 DEF getKinesisVideoStreamData, GotData
      <3>2. CASE NoMoreDataAvailable
        BY <2>2, <3>2 DEF getKinesisVideoStreamData, NoMoreDataAvailable
      <3>3. CASE AwaitingPersistedAck
        BY <2>2, <3>3 DEF getKinesisVideoStreamData, AwaitingPersistedAck
      <3>4. CASE EndOfStream
        BY <2>2, <3>4 DEF getKinesisVideoStreamData, EndOfStream, EndBody
      <3>5. CASE UploadHandleAborted
        BY <2>2, <3>5 DEF getKinesisVideoStreamData, UploadHandleAborted,
                          EndBody
      <3>6. CASE GetDataFails
        BY <2>2, <3>6 DEF getKinesisVideoStreamData, GetDataFails, EndBody
      <3> QED
        BY <2>2, <3>1, <3>2, <3>3, <3>4, <3>5, <3>6
        DEF getKinesisVideoStreamData
    <2>3. CASE SetPaused
      BY <2>3 DEF SetPaused
    <2>4. CASE CurlPauses
      BY <2>4 DEF CurlPauses
    <2> QED BY <1>7, <2>1, <2>2, <2>3, <2>4 DEF postReadCallback
  <1>8. CASE Perform \/ CurlReturns \/ RemoveUpload
    BY <1>8, ZenonT(30) DEF Perform, CurlReturns, RemoveUpload, SessionStep, InCurl
  <1>9. CASE BeginTerminate \/ terminateCurlSession
    <2>1. CASE BeginTerminate
      BY <2>1 DEF BeginTerminate
    <2>2. CASE TestTerminated
      BY <2>2 DEF TestTerminated
    <2>3. CASE TimeOut
      BY <2>3 DEF TimeOut
    <2>4. CASE SetTerminated
      BY <2>4 DEF SetTerminated
    <2> QED BY <1>9, <2>1, <2>2, <2>3, <2>4 DEF terminateCurlSession
  <1>10. CASE UNCHANGED sessionVars
    BY <1>10 DEF sessionVars
  <1> QED
    BY <1>1, <1>2, <1>3, <1>4, <1>5, <1>6, <1>7, <1>8, <1>9, <1>10 DEF SessionNext

(* SessionInv holds in every reachable state of a PutMedia session.           *)
THEOREM SessionInvariance == SessionSpec => []SessionInv
  <1>1. SessionInit => SessionInv
    BY DEF SessionInit, SessionInv, SessionTypeOK, SleepersKeepSession, Is,
           Flags
  <1> QED BY <1>1, NextKeepsSessionInv, PTL DEF SessionSpec

(* The flags and program counters of a PutMedia session keep their types.  *)
THEOREM UploadTypeCorrect == SessionSpec => []SessionTypeOK
  <1>1. SessionInv => SessionTypeOK
    BY DEF SessionInv
  <1> QED BY <1>1, SessionInvariance, PTL

(* While a notifier or the shutdown sleeps inside notifyDataAvailable or   *)
(* terminateCurlSession the handler thread has not freed the session.      *)
THEOREM SleepersKeepTheSession == SessionSpec => []SleepersKeepSession
  <1>1. SessionInv => SleepersKeepSession
    BY DEF SessionInv
  <1> QED BY <1>1, SessionInvariance, PTL

-----------------------------------------------------------------------------
(* Continuous retry.                                                       *)

(***************************************************************************)
(* The strengthened invariant holds in every reachable state.              *)
(***************************************************************************)
THEOREM RetryInvariance == Spec => []RetryInv
<1> USE RetryAssumption
<1>1. Init => RetryInv
  BY DEF Init, RetryInv, TypeOK, LockDiscipline, Ownership, Joined, Untouched,
     Ended, ResetTracked, NoLeakedMapping, Closing, CallerStates,
     RestartStates, AllIdle, IsLive
<1>2. RetryInv /\ [Next]_vars => RetryInv'
  <2> SUFFICES ASSUME RetryInv, [Next]_vars
               PROVE  RetryInv'
    OBVIOUS
  <2> USE DEF RetryInv, TypeOK, LockDiscipline, Ownership, Joined, Untouched,
     Ended, ResetTracked, NoLeakedMapping, Closing, CallerStates,
     RestartStates, AllIdle, IsLive, Goto, Return, LockFree
  <2>1. ASSUME NEW c \in Callers, NEW s \in Streams,
               NEW use \in {"report", "ready", "health"},
               life = "live", pc[c] = "idle", getStreamMapping(c, s),
               Goto(c, use)
        PROVE  RetryInv'
    <3>1. CASE pStreamMapping[s] # NoMapping
      BY <2>1, <3>1 DEF getStreamMapping
    <3>2. CASE pStreamMapping[s] = NoMapping
      <4>1. PICK m \in Mappings :
              /\ heap[m] = "unused"
              /\ heap' = [heap EXCEPT ![m] = "live"]
              /\ pStreamMapping' = [pStreamMapping EXCEPT ![s] = m]
              /\ ptr' = [ptr EXCEPT ![c] = m]
        BY <2>1, <3>2 DEF getStreamMapping
      <4>2. UNCHANGED <<resetTid, streamReady, restart, syncLock, life>>
        BY <2>1 DEF getStreamMapping
      <4>3. \A t \in Streams : pStreamMapping[t] # m
        BY <4>1
      <4>4. (TypeOK /\ LockDiscipline /\ Ownership)'
        BY <2>1, <3>2, <4>1, <4>2, <4>3 DEF getStreamMapping
      <4>5. NoLeakedMapping'
        BY <2>1, <3>2, <4>1, <4>2, <4>3 DEF getStreamMapping
      <4>6. (Joined /\ Untouched /\ Ended /\ ResetTracked)'
        BY <2>1, <3>2, <4>1, <4>2, <4>3 DEF getStreamMapping
      <4> QED BY <4>4, <4>5, <4>6
    <3> QED BY <3>1, <3>2
  <2>2. ASSUME NEW c \in Callers, NEW s \in Streams, TakeMapping(c, s),
               life # "freed",
               UNCHANGED <<heap, resetTid, streamReady, restart, life>>
        PROVE  RetryInv'
    <3>1. /\ \A d \in Callers : pc[d] \notin Closing \cup {"create"}
          /\ pStreamMapping[s] \in Mappings
          /\ IsLive(pStreamMapping[s])
      BY <2>2 DEF TakeMapping
    <3>2. (TypeOK /\ LockDiscipline /\ Ownership)'
      BY <2>2, <3>1 DEF TakeMapping
    <3>3. NoLeakedMapping'
      BY <2>2, <3>1 DEF TakeMapping
    <3>4. (Joined /\ Untouched /\ Ended /\ ResetTracked)'
      BY <2>2, <3>1 DEF TakeMapping
    <3> QED BY <3>2, <3>3, <3>4
  <2>3. ASSUME NEW c \in Callers, continuousRetryStreamErrorReportHandler(c)
        PROVE  RetryInv'
    <3>1. ASSUME NEW s \in Streams, NEW status \in Statuses,
                 ReportError(c, s, status)
          PROVE  RetryInv'
      BY <2>1, <3>1 DEF ReportError
    <3>2. CASE ResetOngoing(c)
      BY <3>2 DEF ResetOngoing, ReadsValidTid
    <3>3. CASE CreateThread(c)
      <4>1. (TypeOK /\ LockDiscipline /\ Ownership)'
        BY <3>3 DEF CreateThread, ReadsInvalidTid
      <4>2. (Joined /\ Untouched /\ Ended /\ NoLeakedMapping)'
        BY <3>3 DEF CreateThread, ReadsInvalidTid
      <4>3. ResetTracked'
        BY <3>3 DEF CreateThread, ReadsInvalidTid
      <4> QED BY <4>1, <4>2, <4>3
    <3>4. CASE CreateFails(c)
      BY <3>4 DEF CreateFails, ReadsInvalidTid
    <3>5. CASE StoreTid(c)
      BY <3>5 DEF StoreTid
    <3> QED
      BY <2>3, <3>1, <3>2, <3>3, <3>4, <3>5
      DEF continuousRetryStreamErrorReportHandler
  <2>4. ASSUME NEW c \in Callers, continuousRetryStreamReadyHandler(c)
        PROVE  RetryInv'
    <3>1. ASSUME NEW s \in Streams, Lookup(c, s, "ready")
          PROVE  RetryInv'
      BY <2>1, <3>1 DEF Lookup
    <3>2. CASE pc[c] = "ready"
      BY <2>4, <3>2 DEF continuousRetryStreamReadyHandler, Lookup
    <3> QED BY <2>4, <3>1, <3>2 DEF continuousRetryStreamReadyHandler
  <2>5. ASSUME NEW c \in Callers, HealthHandler(c)
        PROVE  RetryInv'
    <3>1. ASSUME NEW s \in Streams, Lookup(c, s, "health")
          PROVE  RetryInv'
      BY <2>1, <3>1 DEF Lookup
    <3>2. CASE pc[c] = "health"
      BY <2>5, <3>2 DEF HealthHandler, Lookup
    <3> QED BY <2>5, <3>1, <3>2 DEF HealthHandler
  <2>6. ASSUME NEW c \in Callers, NEW s \in Streams, CloseStream(c, s)
        PROVE  RetryInv'
    BY <2>2, <2>6 DEF CloseStream
  <2>7. ASSUME NEW c \in Callers, freeStreamMapping(c)
        PROVE  RetryInv'
    <3>1. CASE JoinReset(c)
      BY <3>1 DEF JoinReset
    <3>2. CASE FreeMapping(c)
      <4>1. /\ syncLock = c
            /\ restart[ptr[c]] = "none"
            /\ ptr[c] \in Mappings
            /\ \A s \in Streams : pStreamMapping[s] # ptr[c]
            /\ \A d \in Callers : d # c => pc[d] \notin Closing \cup {"create"}
        BY <3>2 DEF FreeMapping
      <4>2. (TypeOK /\ LockDiscipline /\ Ownership)'
        BY <3>2, <4>1 DEF FreeMapping
      <4>3. NoLeakedMapping'
        BY <3>2, <4>1 DEF FreeMapping
      <4>4. (Joined /\ Untouched /\ Ended /\ ResetTracked)'
        BY <3>2, <4>1 DEF FreeMapping
      <4> QED BY <4>2, <4>3, <4>4
    <3>3. CASE ReadTidAgain(c)
      BY <3>3 DEF ReadTidAgain
    <3> QED BY <2>7, <3>1, <3>2, <3>3 DEF freeStreamMapping
  <2>8. ASSUME NEW c \in Callers, freeContinuousRetryStreamCallbacks(c)
        PROVE  RetryInv'
    <3>1. CASE BeginFree
      BY <3>1 DEF BeginFree
    <3>2. ASSUME NEW s \in Streams, removeMappingEntryCallback(c, s)
          PROVE  RetryInv'
      BY <2>2, <3>2 DEF removeMappingEntryCallback
    <3>3. CASE FreeObject
      BY <3>3 DEF FreeObject
    <3> QED BY <2>8, <3>1, <3>2, <3>3 DEF freeContinuousRetryStreamCallbacks
  <2>9. ASSUME NEW m \in Mappings, continuousRetryStreamRestartHandler(m)
        PROVE  RetryInv'
    <3>1. CASE RestartResets(m)
      BY <3>1 DEF RestartResets
    <3>2. CASE RestartReports(m)
      BY <3>2 DEF RestartReports
    <3>3. CASE RestartClears(m)
      BY <3>3 DEF RestartClears
    <3> QED BY <2>9, <3>1, <3>2, <3>3 DEF continuousRetryStreamRestartHandler
  <2>10. CASE UNCHANGED vars
    BY <2>10 DEF vars
  <2> QED
    BY <2>3, <2>4, <2>5, <2>6, <2>7, <2>8, <2>9, <2>10 DEF Next, CallerStep
<1> QED
  BY <1>1, <1>2, PTL DEF Spec

(***************************************************************************)
(* The reset thread of a live record can always be waited for: its id is   *)
(* in resetTid, or its creator still has syncLock.                         *)
(***************************************************************************)
THEOREM ResetsAreTracked == Spec => []ResetTracked
<1>1. RetryInv => ResetTracked
  BY DEF RetryInv
<1> QED
  BY <1>1, RetryInvariance, PTL

(***************************************************************************)
(* No close, and not the free of the callbacks object, takes a record from *)
(* under its reset thread, whatever the other callbacks do meanwhile.      *)
(***************************************************************************)
THEOREM ResetsKeepTheirRecord == Spec => ResetKeepsRecord
<1> DEFINE Keeps == \A m \in Mappings : IsLive(m) /\ restart[m] # "none" =>
                      heap'[m] = "live" /\ life' # "freed"
<1> USE RetryAssumption
<1>1. RetryInv /\ [Next]_vars => [Keeps]_vars
  <2> SUFFICES ASSUME RetryInv, Next, NEW m \in Mappings,
                      IsLive(m), restart[m] # "none"
               PROVE  heap'[m] = "live" /\ life' # "freed"
    OBVIOUS
  <2> USE DEF RetryInv, TypeOK, Joined, IsLive
  <2>1. life # "freed"
    BY DEF Ended, AllIdle, NoLeakedMapping, Closing
  <2>2. ASSUME NEW c \in Callers, NEW s \in Streams, getStreamMapping(c, s)
        PROVE  heap'[m] = "live" /\ life' # "freed"
    BY <2>1, <2>2 DEF getStreamMapping
  <2>3. ASSUME NEW c \in Callers, FreeMapping(c)
        PROVE  heap'[m] = "live" /\ life' # "freed"
    BY <2>1, <2>3 DEF FreeMapping
  <2>4. ~FreeObject
    BY DEF FreeObject, AllIdle, NoLeakedMapping, Closing
  <2>5. ASSUME NEW c \in Callers, CallerStep(c),
               ~\E s \in Streams : getStreamMapping(c, s),
               ~FreeMapping(c), ~FreeObject
        PROVE  heap' = heap /\ life' # "freed"
    <3>1. CASE continuousRetryStreamErrorReportHandler(c)
      BY <2>1, <2>5, <3>1 DEF continuousRetryStreamErrorReportHandler,
         ReportError, ResetOngoing, CreateThread, CreateFails, StoreTid
    <3>2. CASE continuousRetryStreamReadyHandler(c)
      BY <2>1, <2>5, <3>2 DEF continuousRetryStreamReadyHandler, Lookup
    <3>3. CASE HealthHandler(c)
      BY <2>1, <2>5, <3>3 DEF HealthHandler, Lookup
    <3>4. CASE \E s \in Streams : CloseStream(c, s)
      BY <2>1, <3>4 DEF CloseStream
    <3>5. CASE freeStreamMapping(c)
      BY <2>1, <2>5, <3>5 DEF freeStreamMapping, ReadTidAgain, JoinReset
    <3>6. CASE freeContinuousRetryStreamCallbacks(c)
      BY <2>1, <2>5, <3>6 DEF freeContinuousRetryStreamCallbacks, BeginFree,
         removeMappingEntryCallback
    <3> QED BY <2>5, <3>1, <3>2, <3>3, <3>4, <3>5, <3>6 DEF CallerStep
  <2>6. ASSUME NEW n \in Mappings, continuousRetryStreamRestartHandler(n)
        PROVE  heap' = heap /\ life' # "freed"
    BY <2>1, <2>6 DEF continuousRetryStreamRestartHandler, RestartResets,
       RestartReports, RestartClears
  <2> QED BY <2>2, <2>3, <2>4, <2>5, <2>6 DEF Next
<1> QED
  BY <1>1, RetryInvariance, PTL DEF Spec, ResetKeepsRecord

(***************************************************************************)
(* Every live record is in the table or in the hands of the thread that    *)
(* frees it: closing a stream, and freeing the callbacks object, leak      *)
(* none, whatever resets are under way.                                    *)
(***************************************************************************)
THEOREM NoRecordIsLeaked == Spec => []NoLeakedMapping
<1>1. RetryInv => NoLeakedMapping
  BY DEF RetryInv
<1> QED
  BY <1>1, RetryInvariance, PTL

-----------------------------------------------------------------------------
(* The latency and the staleness machine.                                  *)

(***************************************************************************)
(* The timestamp of a machine is never older than its last reset.          *)
(***************************************************************************)
THEOREM HealthInvariance == HealthSpec => []HealthInv
<1> USE HealthAssumption
<1> USE DEF HealthInv, HealthTypeOK, States, Machines, LongAgo
<1>1. HealthInit => HealthInv
  BY DEF HealthInit
<1>2. HealthInv /\ [HealthNext]_healthVars => HealthInv'
  <2> SUFFICES ASSUME HealthInv, [HealthNext]_healthVars
               PROVE  HealthInv'
    OBVIOUS
  <2>1. CASE Tick
    BY <2>1 DEF Tick, Older
  <2>2. CASE StreamReady
    BY <2>2 DEF StreamReady
  <2>3. CASE streamLatencyStateMachineHandleStreamLatency
    BY <2>3 DEF streamLatencyStateMachineHandleStreamLatency, QuietPassed,
       streamLatencyStateMachineToResetConnectionState,
       streamLatencyStateMachineSetThrottlePipelineState,
       streamLatencyStateMachineSetInfiniteRetryState,
       streamLatencyStateMachineDoInfiniteRetry, ResetConnection
  <2>4. CASE connectionStaleStateMachineHandleConnectionStale
    BY <2>4 DEF connectionStaleStateMachineHandleConnectionStale, QuietPassed,
       connectionStaleStateMachineSetResetConnectionState, StaleAgain,
       ResetConnection
  <2>5. CASE UNCHANGED healthVars
    BY <2>5 DEF healthVars
  <2> QED BY <2>1, <2>2, <2>3, <2>4, <2>5 DEF HealthNext
<1> QED
  BY <1>1, <1>2, PTL DEF HealthSpec

(***************************************************************************)
(* Neither machine resets the connection twice within its grace period.    *)
(***************************************************************************)
THEOREM ResetsAreSpaced == HealthSpec => SpacedResets
<1> DEFINE Spaced == \A k \in Machines : parity'[k] # parity[k] =>
                       lastReset[k] > Grace
<1> USE HealthAssumption
<1>1. HealthInv /\ [HealthNext]_healthVars => [Spaced]_healthVars
  <2> SUFFICES ASSUME HealthInv, HealthNext
               PROVE  Spaced
    OBVIOUS
  <2> USE DEF HealthInv, HealthTypeOK, Machines, LongAgo
  <2>1. CASE Tick \/ StreamReady
    BY <2>1 DEF Tick, StreamReady
  <2>2. CASE streamLatencyStateMachineHandleStreamLatency
    BY <2>2 DEF streamLatencyStateMachineHandleStreamLatency, QuietPassed,
       streamLatencyStateMachineToResetConnectionState,
       streamLatencyStateMachineSetThrottlePipelineState,
       streamLatencyStateMachineSetInfiniteRetryState,
       streamLatencyStateMachineDoInfiniteRetry, ResetConnection
  <2>3. CASE connectionStaleStateMachineHandleConnectionStale
    BY <2>3 DEF connectionStaleStateMachineHandleConnectionStale, QuietPassed,
       connectionStaleStateMachineSetResetConnectionState, StaleAgain,
       ResetConnection
  <2> QED BY <2>1, <2>2, <2>3 DEF HealthNext
<1> QED
  BY <1>1, HealthInvariance, PTL DEF HealthSpec, SpacedResets

=============================================================================
