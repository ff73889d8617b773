--------------------------- MODULE UploadSession ---------------------------
(***************************************************************************)
(* One PutMedia session: the curl thread that pulls media through          *)
(* postReadCallback and pauses itself when PIC has none, the thread that   *)
(* puts frames and wakes it through dataAvailableCurl, the persisted acks  *)
(* that wake it through fragmentAckReceivedCurl, and the shutdown that     *)
(* times it out through terminateCurlSession.                              *)
(*                                                                         *)
(* curl keeps its own pause state next to the library's paused flag; the   *)
(* flag is a plain BOOL that the curl thread and the notifiers write in no *)
(* agreed order.  Whoever notifies or terminates holds activeUploadsLock.  *)
(*                                                                         *)
(* External: PIC (frames, the stop, what getKinesisVideoStreamData         *)
(* returns) and curl (when it calls back, fails, or times out).            *)
(***************************************************************************)
EXTENDS Integers

CONSTANTS
    MaxFrames,          \* bound on the frames put during the session
    MAX_GET_DATA_ITER   \* attempts of one read callback to get data

ASSUME UploadAssumption ==
    /\ MaxFrames \in Nat
    /\ MAX_GET_DATA_ITER \in Nat \ {0}

VARIABLES
    put, unread, unacked,  \* frames put, not read yet, read and not acked
    stream,             \* "streaming", "stopped" or "aborted", says PIC
    flags,              \* the flags of the session that are TRUE
    session,            \* progress of putStreamCurlHandler
    reader, iter,       \* where the curl thread is inside a callback
    producer,           \* progress of the thread that calls dataAvailableCurl
    shutdown,           \* progress of the thread that terminates the session
    activeUploadsLock   \* its holder, or "none"

picVars == <<put, unread, unacked, stream>>
readerVars == <<reader, iter>>
sessionVars == <<picVars, flags, session, readerVars, producer, shutdown,
               activeUploadsLock>>

(* "curlPaused" and "timedOut" are curl's own, the others the library's.   *)
Flags == {"paused", "endOfStream", "terminating", "terminated",
          "curlPaused", "timedOut"}

Is(flag) == flag \in flags
UploadsLockFree == activeUploadsLock = "none"

SessionInit ==
    /\ put = 0
    /\ unread = 0
    /\ unacked = 0
    /\ stream = "streaming"
    /\ flags = {"paused"}
    /\ session = "starting"
    /\ reader = "idle"
    /\ iter = 0
    /\ producer = "idle"
    /\ shutdown = "idle"
    /\ activeUploadsLock = "none"

-----------------------------------------------------------------------------
(***************************************************************************)
(* PIC: frames are put and the stream stopped; each is followed by a call  *)
(* of dataAvailableCurl on the same thread.  PIC may abort the upload      *)
(* handle at any time.                                                     *)
(***************************************************************************)
PutFrame ==
    /\ producer = "idle"
    /\ stream = "streaming"
    /\ put < MaxFrames
    /\ put' = put + 1
    /\ unread' = unread + 1
    /\ producer' = "notify"
    /\ UNCHANGED <<unacked, stream, flags, session, readerVars, shutdown,
                   activeUploadsLock>>

StopStream ==
    /\ producer = "idle"
    /\ stream = "streaming"
    /\ stream' = "stopped"
    /\ producer' = "notify"
    /\ UNCHANGED <<put, unread, unacked, flags, session, readerVars, shutdown,
                   activeUploadsLock>>

AbortUploadHandle ==
    /\ stream' = "aborted"
    /\ UNCHANGED <<put, unread, unacked, flags, session, readerVars, producer,
                   shutdown, activeUploadsLock>>

-----------------------------------------------------------------------------
(***************************************************************************)
(* Waking the session: notifyDataAvailable clears paused, sleeps for ten   *)
(* milliseconds and tells curl to continue; it does nothing when there is  *)
(* no pause to end.  The sleep waits for nobody: curl may be told to       *)
(* continue before the pause of a returning read callback has reached it.  *)
(***************************************************************************)
MustUnpause == Is("paused") /\ ~Is("terminated")

(* findRequestWithUploadHandle finds the session in the upload list.       *)
Found == session # "removed"

dataAvailableCurl ==
    /\ producer = "notify"
    /\ UploadsLockFree
    /\ \/ /\ Found
          /\ ~Is("endOfStream")
          /\ ~Is("terminating")
          /\ MustUnpause
          /\ flags' = flags \ {"paused"}
          /\ producer' = "sleep"
          /\ activeUploadsLock' = "producer"
       \/ /\ \/ ~Found
             \/ Is("endOfStream")
             \/ Is("terminating")
             \/ ~MustUnpause
          /\ producer' = "idle"
          /\ UNCHANGED <<flags, activeUploadsLock>>
    /\ UNCHANGED <<picVars, session, readerVars, shutdown>>

(* Mutant: the notifier clears the flag but does not continue curl.        *)
UnpauseFlagOnly ==
    /\ producer = "sleep"
    /\ producer' = "idle"
    /\ activeUploadsLock' = "none"
    /\ UNCHANGED <<picVars, flags, session, readerVars, shutdown>>

Unpause ==
    /\ producer = "sleep"
    /\ flags' = flags \ {"curlPaused"}
    /\ producer' = "idle"
    /\ activeUploadsLock' = "none"
    /\ UNCHANGED <<picVars, session, readerVars, shutdown>>

(* A persisted ack is handled on the curl thread: postWriteCallback makes  *)
(* curl fail when the request is terminating, otherwise PIC is given the   *)
(* ack and calls fragmentAckReceivedCurl back.                             *)
postWriteCallback ==
    /\ session = "performing"
    /\ reader = "idle"
    /\ unacked > 0
    /\ \/ /\ Is("terminating")
          /\ session' = "returned"
          /\ UNCHANGED <<unacked, reader>>
       \/ /\ ~Is("terminating")
          /\ unacked' = unacked - 1
          /\ reader' = "ack"
          /\ UNCHANGED session
    /\ UNCHANGED <<put, unread, stream, flags, iter, producer, shutdown,
                   activeUploadsLock>>

fragmentAckReceivedCurl ==
    /\ reader = "ack"
    /\ UploadsLockFree
    /\ \/ /\ ~Is("endOfStream")
          /\ MustUnpause
          /\ flags' = flags \ {"paused"}
          /\ reader' = "ackSleep"
          /\ activeUploadsLock' = "reader"
       \/ /\ Is("endOfStream") \/ ~MustUnpause
          /\ reader' = "idle"
          /\ UNCHANGED <<flags, activeUploadsLock>>
    /\ UNCHANGED <<picVars, session, iter, producer, shutdown>>

UnpauseOnAck ==
    /\ reader = "ackSleep"
    /\ flags' = flags \ {"curlPaused"}
    /\ reader' = "idle"
    /\ activeUploadsLock' = "none"
    /\ UNCHANGED <<picVars, session, iter, producer, shutdown>>

-----------------------------------------------------------------------------
(***************************************************************************)
(* postReadCallback, on the curl thread.  A callback that returns 0 or     *)
(* CURL_READFUNC_ABORT also sets terminated, so that nobody times out a    *)
(* session about to end by itself.                                         *)
(***************************************************************************)
EndBody(to, raised) ==
    /\ flags' = flags \union raised \union {"terminated"}
    /\ session' = to
    /\ reader' = "idle"

EnterRead ==
    /\ session = "performing"
    /\ reader = "idle"
    /\ ~Is("curlPaused")
    /\ \/ /\ Is("paused")
          /\ reader' = "pausing"
          /\ UNCHANGED <<flags, session, iter>>
       \/ /\ ~Is("paused")
          /\ Is("endOfStream") \/ Is("terminating")
          /\ EndBody("bodySent", {})
          /\ UNCHANGED iter
       \/ /\ ~Is("paused")
          /\ ~Is("endOfStream")
          /\ ~Is("terminating")
          /\ reader' = "fetching"
          /\ iter' = 0
          /\ UNCHANGED <<flags, session>>
    /\ UNCHANGED <<picVars, producer, shutdown, activeUploadsLock>>

(* One attempt to get data, with each status PIC may return.               *)
GotData ==
    /\ stream # "aborted"
    /\ unread > 0
    /\ unread' = 0
    /\ unacked' = unacked + unread
    /\ reader' = "idle"
    /\ UNCHANGED <<iter, flags, session>>

NoMoreDataAvailable ==
    /\ stream = "streaming"
    /\ unread = 0
    /\ iter' = iter + 1
    /\ reader' = IF iter' < MAX_GET_DATA_ITER THEN "fetching" ELSE "pausing"
    /\ UNCHANGED <<unread, unacked, flags, session>>

AwaitingPersistedAck ==
    /\ stream = "stopped"
    /\ unread = 0
    /\ unacked > 0
    /\ reader' = "pausing"
    /\ UNCHANGED <<unread, unacked, iter, flags, session>>

EndOfStream ==
    /\ stream = "stopped"
    /\ unread = 0
    /\ unacked = 0
    /\ EndBody("bodySent", {"endOfStream"})
    /\ UNCHANGED <<unread, unacked, iter>>

UploadHandleAborted ==
    /\ stream = "aborted"
    /\ EndBody("returned", {"endOfStream"})
    /\ UNCHANGED <<unread, unacked, iter>>

GetDataFails ==
    /\ EndBody("returned", {})
    /\ UNCHANGED <<unread, unacked, iter>>

getKinesisVideoStreamData ==
    /\ reader = "fetching"
    /\ \/ GotData
       \/ NoMoreDataAvailable
       \/ AwaitingPersistedAck
       \/ EndOfStream
       \/ UploadHandleAborted
       \/ GetDataFails
    /\ UNCHANGED <<put, stream, producer, shutdown, activeUploadsLock>>

(* The pause is entered in the flag first, and in curl when the callback   *)
(* has returned.                                                           *)
SetPaused ==
    /\ reader = "pausing"
    /\ flags' = flags \union {"paused"}
    /\ reader' = "returning"
    /\ UNCHANGED <<picVars, session, iter, producer, shutdown,
                   activeUploadsLock>>

CurlPauses ==
    /\ reader = "returning"
    /\ flags' = flags \union {"curlPaused"}
    /\ reader' = "idle"
    /\ UNCHANGED <<picVars, session, iter, producer, shutdown,
                   activeUploadsLock>>

postReadCallback ==
    EnterRead \/ getKinesisVideoStreamData \/ SetPaused \/ CurlPauses

-----------------------------------------------------------------------------
(***************************************************************************)
(* The handler thread around curl_easy_perform: it leaves at once when the *)
(* session is terminating; curl returns on a network error, a timeout, or  *)
(* the server's answer to the complete body.  (CurlApiCallbacks separates  *)
(* the test of terminating from the entry into curl.)                      *)
(***************************************************************************)
SessionStep == UNCHANGED <<picVars, flags, readerVars, producer, shutdown,
                           activeUploadsLock>>

Perform ==
    /\ session = "starting"
    /\ session' = IF Is("terminating") THEN "returned" ELSE "performing"
    /\ SessionStep

InCurl == session \in {"performing", "bodySent"}

CurlReturns ==
    /\ InCurl
    /\ reader = "idle"
    /\ session' = "returned"
    /\ SessionStep

(* Mutant: the handler frees the session without the lock.                 *)
RemoveUploadUnlocked ==
    /\ session = "returned"
    /\ session' = "removed"
    /\ SessionStep

RemoveUpload ==
    /\ session = "returned"
    /\ UploadsLockFree
    /\ session' = "removed"
    /\ SessionStep

-----------------------------------------------------------------------------
(***************************************************************************)
(* curlApiCallbacksShutdownActiveUploads on this session: the flag, then   *)
(* terminateCurlSession if the handler is inside curl.                     *)
(***************************************************************************)
BeginTerminate ==
    /\ shutdown = "idle"
    /\ UploadsLockFree
    /\ Found
    /\ flags' = flags \union {"terminating"}
    /\ shutdown' = "flagged"
    /\ activeUploadsLock' = "shutdown"
    /\ UNCHANGED <<picVars, session, readerVars, producer>>

TestTerminated ==
    /\ shutdown = "flagged"
    /\ \/ /\ InCurl
          /\ ~Is("terminated")
          /\ shutdown' = "sleep"
          /\ UNCHANGED activeUploadsLock
       \/ /\ ~InCurl \/ Is("terminated")
          /\ shutdown' = "done"
          /\ activeUploadsLock' = "none"
    /\ UNCHANGED <<picVars, flags, session, readerVars, producer>>

(* Mutant: curl is continued but given no timeout.                         *)
ContinueOnly ==
    /\ shutdown = "sleep"
    /\ shutdown' = "timingOut"
    /\ flags' = flags \ {"curlPaused"}
    /\ UNCHANGED <<picVars, session, readerVars, producer, activeUploadsLock>>

(* Curl is continued, without clearing paused, and given a timeout.        *)
TimeOut ==
    /\ shutdown = "sleep"
    /\ shutdown' = "timingOut"
    /\ flags' = (flags \ {"curlPaused"}) \union {"timedOut"}
    /\ UNCHANGED <<picVars, session, readerVars, producer, activeUploadsLock>>

SetTerminated ==
    /\ shutdown = "timingOut"
    /\ shutdown' = "done"
    /\ flags' = flags \union {"terminated"}
    /\ activeUploadsLock' = "none"
    /\ UNCHANGED <<picVars, session, readerVars, producer>>

terminateCurlSession == TestTerminated \/ TimeOut \/ SetTerminated

-----------------------------------------------------------------------------
SessionNext ==
    \/ PutFrame
    \/ StopStream
    \/ AbortUploadHandle
    \/ dataAvailableCurl
    \/ Unpause
    \/ postWriteCallback
    \/ fragmentAckReceivedCurl
    \/ UnpauseOnAck
    \/ postReadCallback
    \/ Perform
    \/ CurlReturns
    \/ RemoveUpload
    \/ BeginTerminate
    \/ terminateCurlSession

SessionSpec == SessionInit /\ [][SessionNext]_sessionVars

(***************************************************************************)
(* Fairness: threads are scheduled; the service acknowledges what it       *)
(* received; curl honours its timeout, and returns once the body is        *)
(* complete.  Nothing obliges PIC to put, stop or abort, the network to    *)
(* fail, or anybody to shut the session down.                              *)
(***************************************************************************)
SessionFairness ==
    /\ WF_sessionVars(dataAvailableCurl)
    /\ WF_sessionVars(Unpause)
    /\ WF_sessionVars(postWriteCallback)
    /\ WF_sessionVars(fragmentAckReceivedCurl)
    /\ WF_sessionVars(UnpauseOnAck)
    /\ WF_sessionVars(postReadCallback)
    /\ WF_sessionVars(Perform)
    /\ WF_sessionVars((Is("timedOut") \/ session = "bodySent") /\ CurlReturns)
    /\ WF_sessionVars(RemoveUpload)
    /\ WF_sessionVars(terminateCurlSession)

SessionFairSpec == SessionSpec /\ SessionFairness

-----------------------------------------------------------------------------
(* The type invariant of a PutMedia session.                               *)
SessionTypeOK ==
    /\ put \in Nat
    /\ unread \in Nat
    /\ unacked \in Nat
    /\ iter \in Nat
    /\ stream \in {"streaming", "stopped", "aborted"}
    /\ flags \subseteq Flags
    /\ session \in {"starting", "performing", "bodySent", "returned",
                    "removed"}
    /\ reader \in {"idle", "fetching", "pausing", "returning", "ack",
                   "ackSleep"}
    /\ producer \in {"idle", "notify", "sleep"}
    /\ shutdown \in {"idle", "flagged", "sleep", "timingOut", "done"}
    /\ activeUploadsLock \in {"none", "producer", "reader", "shutdown"}

(* Who is asleep inside notifyDataAvailable or terminateCurlSession goes   *)
(* on with the session's curl handle, so the handler must not have freed   *)
(* the session meanwhile: the sleepers keep activeUploadsLock, and the     *)
(* handler needs it to leave the list.                                     *)
SleepersKeepSession ==
    producer = "sleep" \/ shutdown \in {"flagged", "sleep", "timingOut"} =>
        session # "removed"

(* The lock is with the notifier or the terminator that is asleep.         *)
SessionInv ==
    /\ SessionTypeOK
    /\ SleepersKeepSession
    /\ producer = "sleep" <=> activeUploadsLock = "producer"
    /\ reader = "ackSleep" <=> activeUploadsLock = "reader"
    /\ shutdown \in {"flagged", "sleep", "timingOut"}
           <=> activeUploadsLock = "shutdown"

(* Curl and the flag agree that the session is paused, the read callback   *)
(* has returned, and nothing says that the session is about to end.        *)
Resting ==
    /\ session = "performing"
    /\ reader = "idle"
    /\ {"curlPaused", "paused"} \subseteq flags
    /\ flags \intersect {"endOfStream", "terminating", "terminated"} = {}

(* A notification that finds the session at rest reaches the reader: it    *)
(* asks PIC for data again, or the session ends.                           *)
RestingSessionIsWoken ==
    Resting /\ producer = "notify"
        ~> reader = "fetching" \/ session # "performing"

NotifierAsleep == producer = "sleep" \/ reader = "ackSleep"

(* "Whether curl is paused" (Response.h:64, of the flag paused): when curl *)
(* is paused the flag says so, unless a notifier is just about to continue *)
(* curl.  Otherwise no later notification does anything.                   *)
WakeableWhenPaused == Is("curlPaused") => Is("paused") \/ NotifierAsleep

(* "Pause curl read and wait for persisted ack" (Response.c:674): a pause  *)
(* is ended by what the session waits for, so that once the stream is      *)
(* stopped its upload sends everything and leaves the active uploads,      *)
(* unless PIC goes on to abort it.                                         *)
StoppedUploadEnds ==
    stream = "stopped" ~> session = "removed" \/ stream = "aborted"

(* "Since curl is about to terminate gracefully, set flag to prevent       *)
(* shutdown thread from timing it out" (Response.c:727).                   *)
GracefulEndNotTimedOut ==
    [][Is("terminated") /\ ~Is("timedOut") => "timedOut" \notin flags']_sessionVars

(* A session that is inside curl when the shutdown flags it is over soon,  *)
(* paused or not.                                                          *)
ShutdownEndsSession ==
    shutdown = "flagged" /\ InCurl ~> session = "removed"
=============================================================================
