--------------------------- MODULE ContinuousRetry ---------------------------
(***************************************************************************)
(* The continuous-retry stream callbacks (ContinuousRetryStreamCallbacks.c).*)
(* Each stream has a heap-allocated CallbackStateMachine, found through a  *)
(* table.  An error report starts a thread that resets the stream; stream  *)
(* ready, latency and staleness callbacks use the same record; closing the *)
(* stream removes the record, waits for its reset thread and frees it.     *)
(*                                                                         *)
(* One lock (syncLock) guards the table.  A callback takes it to look its  *)
(* record up, releases it, and goes on with the pointer it found; the      *)
(* error handler takes it a second time to test and set resetTid, and the  *)
(* closing callback keeps it while it waits for the reset thread.          *)
(*                                                                         *)
(* A caller is a thread of PIC or a request handler thread of the curl API *)
(* callbacks (notifyCallResult calls the error callback from there).       *)
(* Nothing orders the callers: a close may free the record that another    *)
(* callback has looked up and still uses.                                  *)
(***************************************************************************)
EXTENDS Naturals, FiniteSets

CONSTANTS
  Streams,             \* stream handles
  Mappings,            \* addresses of CallbackStateMachine records; a bound:
                       \* every allocation takes a fresh one
  Callers,             \* threads that call the callbacks
  NoMapping,           \* a null pointer
  NoCaller             \* nobody holds the lock

ASSUME RetryAssumption ==
  /\ NoMapping \notin Mappings
  /\ NoCaller \notin Callers

VARIABLES
  pStreamMapping,  \* the table: stream -> record
  heap,            \* what became of each record: unused, live, freed
  resetTid,        \* the records whose resetTid field is valid
  streamReady,     \* the records whose streamReady field is TRUE
  restart,         \* where the reset thread of a record is
  syncLock,        \* the caller that holds the lock
  pc,              \* where each caller is
  ptr,             \* the record each caller works on
  life             \* of the callbacks object: live, freeing, freed

vars == <<pStreamMapping, heap, resetTid, streamReady, restart, syncLock,
          pc, ptr, life>>

\* createContinuousRetryStreamCallbacks: an empty table and a lock
Init ==
  /\ pStreamMapping = [s \in Streams |-> NoMapping]
  /\ heap = [m \in Mappings |-> "unused"]
  /\ resetTid = {}
  /\ streamReady = {}
  /\ restart = [m \in Mappings |-> "none"]
  /\ syncLock = NoCaller
  /\ pc = [c \in Callers |-> "idle"]
  /\ ptr = [c \in Callers |-> NoMapping]
  /\ life = "live"

-----------------------------------------------------------------------------
LockFree == syncLock = NoCaller

AllIdle == \A c \in Callers : pc[c] = "idle"

Goto(c, l) == pc' = [pc EXCEPT ![c] = l]

IsLive(m) == heap[m] = "live"

Return(c) == Goto(c, "idle") /\ ptr' = [ptr EXCEPT ![c] = NoMapping]

\* Mutant: the new record is not inserted into the table
getStreamMappingNoPut(c, s) ==
  /\ LockFree
  /\ \E m \in Mappings :
       /\ heap[m] = "unused"
       /\ heap' = [heap EXCEPT ![m] = "live"]
       /\ ptr' = [ptr EXCEPT ![c] = m]
  /\ UNCHANGED <<pStreamMapping, resetTid, streamReady, restart, syncLock,
                 life>>

(***************************************************************************)
(* getStreamMapping: look the stream up, or allocate and register a record *)
(* with an invalid resetTid and streamReady FALSE.  One critical section;  *)
(* the pointer outlives it.                                                *)
(***************************************************************************)
getStreamMapping(c, s) ==
  /\ LockFree
  /\ \/ /\ pStreamMapping[s] # NoMapping
        /\ ptr' = [ptr EXCEPT ![c] = pStreamMapping[s]]
        /\ UNCHANGED <<pStreamMapping, heap>>
     \/ /\ pStreamMapping[s] = NoMapping
        /\ \E m \in Mappings :
             /\ heap[m] = "unused"
             /\ heap' = [heap EXCEPT ![m] = "live"]
             /\ pStreamMapping' = [pStreamMapping EXCEPT ![s] = m]
             /\ ptr' = [ptr EXCEPT ![c] = m]
  /\ UNCHANGED <<resetTid, streamReady, restart, syncLock, life>>

(***************************************************************************)
(* The error report callback.  It gets as far as the table only for an     *)
(* error it must retry: RESET_FAILED (raised by the reset thread itself),  *)
(* errors the SDK recovers from and errors nobody can retry return first.  *)
(***************************************************************************)
Statuses == {"resetFailed", "producerRetriable", "commonRetriable",
             "picRecoverable", "picRetriable", "notRetriable"}

MustReset(status) ==
  status \in {"producerRetriable", "commonRetriable", "picRetriable"}

ReportError(c, s, status) ==
  /\ life = "live" /\ pc[c] = "idle"
  /\ MustReset(status)
  /\ getStreamMapping(c, s)
  /\ Goto(c, "report")

\* what the test of resetTid may find; in a freed record, anything
ReadsValidTid(c) == ptr[c] \in resetTid \/ ~IsLive(ptr[c])
ReadsInvalidTid(c) == ptr[c] \notin resetTid

\* the second critical section: a reset is recorded, nothing to do
ResetOngoing(c) ==
  /\ pc[c] = "report" /\ LockFree
  /\ ReadsValidTid(c)
  /\ Return(c)
  /\ UNCHANGED <<pStreamMapping, heap, resetTid, streamReady, restart,
                 syncLock, life>>

\* Mutant: the lock is released before THREAD_CREATE
CreateThreadUnlocked(c) ==
  /\ pc[c] = "report" /\ LockFree
  /\ ReadsInvalidTid(c)
  /\ restart[ptr[c]] = "none"
  /\ restart' = [restart EXCEPT ![ptr[c]] = "resetting"]
  /\ Goto(c, "create")
  /\ UNCHANGED <<pStreamMapping, heap, resetTid, streamReady, syncLock, ptr,
                 life>>

\* ... or none is: THREAD_CREATE, which sets the new thread running before
\* the handler has stored its id.  (A live record without a recorded reset
\* has none, see ResetTracked; a freed one is given one at a time.)
CreateThread(c) ==
  /\ pc[c] = "report" /\ LockFree
  /\ ReadsInvalidTid(c)
  /\ restart[ptr[c]] = "none"
  /\ syncLock' = c
  /\ restart' = [restart EXCEPT ![ptr[c]] = "resetting"]
  /\ Goto(c, "create")
  /\ UNCHANGED <<pStreamMapping, heap, resetTid, streamReady, ptr, life>>

\* ... THREAD_CREATE fails: the handler unlocks and returns the status
CreateFails(c) ==
  /\ pc[c] = "report" /\ LockFree
  /\ ReadsInvalidTid(c)
  /\ Return(c)
  /\ UNCHANGED <<pStreamMapping, heap, resetTid, streamReady, restart,
                 syncLock, life>>

\* resetTid = threadId, and unlock; nobody reads the id of a freed record
StoreTid(c) ==
  /\ pc[c] = "create"
  /\ resetTid' = IF IsLive(ptr[c]) THEN resetTid \cup {ptr[c]} ELSE resetTid
  /\ syncLock' = NoCaller
  /\ Return(c)
  /\ UNCHANGED <<pStreamMapping, heap, streamReady, restart, life>>

continuousRetryStreamErrorReportHandler(c) ==
  \/ \E s \in Streams, status \in Statuses : ReportError(c, s, status)
  \/ ResetOngoing(c)
  \/ CreateThread(c)
  \/ CreateFails(c)
  \/ StoreTid(c)

(***************************************************************************)
(* The callbacks that look the record up and use it without the lock:      *)
(* stream ready sets streamReady, latency pressure and connection          *)
(* staleness run the record's state machines (ConnectionHealth).           *)
(***************************************************************************)
Lookup(c, s, use) ==
  /\ life = "live" /\ pc[c] = "idle"
  /\ getStreamMapping(c, s)
  /\ Goto(c, use)

continuousRetryStreamReadyHandler(c) ==
  \/ \E s \in Streams : Lookup(c, s, "ready")
  \/ /\ pc[c] = "ready"
     /\ streamReady' = IF IsLive(ptr[c]) THEN streamReady \cup {ptr[c]}
                                         ELSE streamReady
     /\ Return(c)
     /\ UNCHANGED <<pStreamMapping, heap, resetTid, restart, syncLock, life>>

HealthHandler(c) ==
  \/ \E s \in Streams : Lookup(c, s, "health")
  \/ /\ pc[c] = "health"
     /\ Return(c)
     /\ UNCHANGED <<pStreamMapping, heap, resetTid, streamReady, restart,
                    syncLock, life>>

(***************************************************************************)
(* freeStreamMapping: under the lock, take the record out of the table,    *)
(* join the reset thread if resetTid is valid, free the record.  Called    *)
(* when a stream is closed, when it is shut down not to be restarted, and  *)
(* for every stream when the callbacks object is freed.  resetTid is read  *)
(* twice, for the test and for the join.                                   *)
(***************************************************************************)
TakeMapping(c, s) ==
  /\ pc[c] = "idle" /\ LockFree
  /\ pStreamMapping[s] # NoMapping
  /\ pStreamMapping' = [pStreamMapping EXCEPT ![s] = NoMapping]
  /\ syncLock' = c
  /\ ptr' = [ptr EXCEPT ![c] = pStreamMapping[s]]
  /\ Goto(c, IF pStreamMapping[s] \in resetTid THEN "joinWhom" ELSE "free")

\* the argument of THREAD_JOIN; the reset thread may have invalidated the
\* id since the test
ReadTidAgain(c) ==
  /\ pc[c] = "joinWhom"
  /\ Goto(c, IF ptr[c] \in resetTid THEN "join" ELSE "joinInvalid")
  /\ UNCHANGED <<pStreamMapping, heap, resetTid, streamReady, restart,
                 syncLock, ptr, life>>

\* Mutant: the closing callback does not await the reset
JoinNothing(c) ==
  /\ pc[c] \in {"join", "joinInvalid"}
  /\ Goto(c, "free")
  /\ UNCHANGED <<pStreamMapping, heap, resetTid, streamReady, restart,
                 syncLock, ptr, life>>

\* the join of a thread returns when the thread has; that of an invalid id
\* is an error nobody looks at (if the platform survives it)
JoinReset(c) ==
  /\ \/ pc[c] = "join" /\ restart[ptr[c]] = "none"
     \/ pc[c] = "joinInvalid"
  /\ Goto(c, "free")
  /\ UNCHANGED <<pStreamMapping, heap, resetTid, streamReady, restart,
                 syncLock, ptr, life>>

FreeMapping(c) ==
  /\ pc[c] = "free"
  /\ heap' = [heap EXCEPT ![ptr[c]] = "freed"]
  /\ resetTid' = resetTid \ {ptr[c]}
  /\ streamReady' = streamReady \ {ptr[c]}
  /\ syncLock' = NoCaller
  /\ Return(c)
  /\ UNCHANGED <<pStreamMapping, restart, life>>

\* continuousRetryStreamClosedHandler, and continuousRetryStreamShutdownHandler
\* when the stream is not to be restarted
CloseStream(c, s) ==
  /\ life = "live"
  /\ TakeMapping(c, s)
  /\ UNCHANGED <<heap, resetTid, streamReady, restart, life>>

freeStreamMapping(c) == ReadTidAgain(c) \/ JoinReset(c) \/ FreeMapping(c)

(***************************************************************************)
(* freeContinuousRetryStreamCallbacks: freeStreamMapping for every entry,  *)
(* then the table, the lock and the object go.  (The entries are left to   *)
(* hashTableFree; here a visited entry is taken out at once, nobody looks  *)
(* it up again.)  The provider is freed after the client, when no callback *)
(* is in progress.                                                         *)
(***************************************************************************)
BeginFree ==
  /\ life = "live" /\ AllIdle
  /\ life' = "freeing"
  /\ UNCHANGED <<pStreamMapping, heap, resetTid, streamReady, restart,
                 syncLock, pc, ptr>>

removeMappingEntryCallback(c, s) ==
  /\ life = "freeing" /\ AllIdle
  /\ TakeMapping(c, s)
  /\ UNCHANGED <<heap, resetTid, streamReady, restart, life>>

FreeObject ==
  /\ life = "freeing" /\ AllIdle
  /\ \A s \in Streams : pStreamMapping[s] = NoMapping
  /\ life' = "freed"
  /\ UNCHANGED <<pStreamMapping, heap, resetTid, streamReady, restart,
                 syncLock, pc, ptr>>

freeContinuousRetryStreamCallbacks(c) ==
  \/ BeginFree
  \/ \E s \in Streams : removeMappingEntryCallback(c, s)
  \/ FreeObject

(***************************************************************************)
(* continuousRetryStreamRestartHandler, the reset thread.  It resets the   *)
(* stream (unless it streams offline), reports RESET_FAILED through the    *)
(* callback chain if that failed, and invalidates resetTid just before it  *)
(* returns.                                                                *)
(***************************************************************************)
RestartResets(m) ==
  /\ restart[m] = "resetting"
  /\ \E l \in {"reporting", "clearing"} : restart' = [restart EXCEPT ![m] = l]
  /\ UNCHANGED <<pStreamMapping, heap, resetTid, streamReady, syncLock, pc,
                 ptr, life>>

\* Mutant: the error handler does not filter RESET_FAILED
RestartReportsLocked(m) ==
  /\ restart[m] = "reporting"
  /\ LockFree
  /\ restart' = [restart EXCEPT ![m] = "clearing"]
  /\ UNCHANGED <<pStreamMapping, heap, resetTid, streamReady, syncLock, pc,
                 ptr, life>>

\* the chain calls continuousRetryStreamErrorReportHandler, which returns
\* at once: the status is RESET_FAILED
RestartReports(m) ==
  /\ restart[m] = "reporting"
  /\ ~MustReset("resetFailed")
  /\ restart' = [restart EXCEPT ![m] = "clearing"]
  /\ UNCHANGED <<pStreamMapping, heap, resetTid, streamReady, syncLock, pc,
                 ptr, life>>

RestartClears(m) ==
  /\ restart[m] = "clearing"
  /\ resetTid' = resetTid \ {m}
  /\ restart' = [restart EXCEPT ![m] = "none"]
  /\ UNCHANGED <<pStreamMapping, heap, streamReady, syncLock, pc, ptr, life>>

continuousRetryStreamRestartHandler(m) ==
  RestartResets(m) \/ RestartReports(m) \/ RestartClears(m)

CallerStep(c) ==
  \/ continuousRetryStreamErrorReportHandler(c)
  \/ continuousRetryStreamReadyHandler(c)
  \/ HealthHandler(c)
  \/ \E s \in Streams : CloseStream(c, s)
  \/ freeStreamMapping(c)
  \/ freeContinuousRetryStreamCallbacks(c)

Next ==
  \/ \E c \in Callers : CallerStep(c)
  \/ \E m \in Mappings : continuousRetryStreamRestartHandler(m)

Spec == Init /\ [][Next]_vars

(***************************************************************************)
(* A thread inside a callback goes on, and so does a reset thread: the     *)
(* reset is a call into PIC that returns.  Nobody has to call a callback.  *)
(***************************************************************************)
Fairness ==
  /\ \A c \in Callers : WF_vars(StoreTid(c)) /\ WF_vars(freeStreamMapping(c))
  /\ \A m \in Mappings : WF_vars(continuousRetryStreamRestartHandler(m))

FairSpec == Spec /\ Fairness

-----------------------------------------------------------------------------
Closing == {"joinWhom", "join", "joinInvalid", "free"}
CallerStates == {"idle", "report", "create", "ready", "health"} \cup Closing
RestartStates == {"none", "resetting", "reporting", "clearing"}

\* Types, and the valid resetTid fields are those of records not freed.
TypeOK ==
  /\ pStreamMapping \in [Streams -> Mappings \cup {NoMapping}]
  /\ heap \in [Mappings -> {"unused", "live", "freed"}]
  /\ resetTid \in SUBSET Mappings
  /\ streamReady \in SUBSET Mappings
  /\ restart \in [Mappings -> RestartStates]
  /\ syncLock \in Callers \cup {NoCaller}
  /\ pc \in [Callers -> CallerStates]
  /\ ptr \in [Callers -> Mappings \cup {NoMapping}]
  /\ life \in {"live", "freeing", "freed"}
  /\ \A m \in resetTid : IsLive(m)

(***************************************************************************)
(* A reset thread that runs on a live record can be waited for: its id is  *)
(* recorded, or the error handler that created it still holds the lock it  *)
(* will store it under, so no closing callback gets to test resetTid in    *)
(* between (ContinuousRetryStreamCallbacks.c, THREAD_CREATE and the next   *)
(* line).                                                                  *)
(***************************************************************************)
ResetTracked ==
  \A m \in Mappings : IsLive(m) /\ restart[m] # "none" =>
    \/ m \in resetTid
    \/ \E c \in Callers : syncLock = c /\ pc[c] = "create" /\ ptr[c] = m

(***************************************************************************)
(* No step frees a record, or the callbacks object, under a reset thread   *)
(* that works on the record: a close that finds a reset under way waits    *)
(* for it, one that finds none has none to wait for, however its two reads *)
(* of resetTid fall.  (A reset that a dangling pointer started on a record *)
(* freed before is NoDanglingMapping's matter.)                            *)
(***************************************************************************)
ResetKeepsRecord ==
  [][\A m \in Mappings : IsLive(m) /\ restart[m] # "none" =>
       heap'[m] = "live" /\ life' # "freed"]_vars

(***************************************************************************)
(* No record is lost: a live record is in the table, from which closing    *)
(* the stream or freeing the callbacks frees it, or in the hands of the    *)
(* thread that is closing the stream.                                      *)
(***************************************************************************)
NoLeakedMapping ==
  \A m \in Mappings : IsLive(m) =>
    \/ \E s \in Streams : pStreamMapping[s] = m
    \/ \E c \in Callers : pc[c] \in Closing /\ ptr[c] = m

(***************************************************************************)
(* Closing a stream returns, although it waits under syncLock for a thread *)
(* that may itself report an error through the same callbacks: the         *)
(* RESET_FAILED filter keeps the reset thread off the lock.                *)
(***************************************************************************)
CloseReturns ==
  \A c \in Callers : pc[c] = "joinWhom" ~> pc[c] = "idle"

(***************************************************************************)
(* "Lock for synchronizing the mapping table and accessing variables"      *)
(* (ContinuousRetryStreamCallbacks.h:24): no callback goes on with a       *)
(* pointer to a freed record.                                              *)
(***************************************************************************)
NoDanglingMapping ==
  \A c \in Callers : pc[c] # "idle" => IsLive(ptr[c])

(***************************************************************************)
(* "Early exit if we are in the midst of resetting already"                *)
(* (ContinuousRetryStreamCallbacks.c:310): an error that is dropped because*)
(* a reset is recorded is dropped while a reset runs.                      *)
(***************************************************************************)
EarlyExitWhileResetting ==
  [][\A c \in Callers : ResetOngoing(c) /\ IsLive(ptr[c]) =>
       restart[ptr[c]] # "none"]_vars

(***************************************************************************)
(* "Await for the reset to finish first"                                   *)
(* (ContinuousRetryStreamCallbacks.c:151, above the test of resetTid): the *)
(* id that is joined is the one that was found valid.                      *)
(***************************************************************************)
JoinedIdIsValid == \A c \in Callers : pc[c] # "joinInvalid"

-----------------------------------------------------------------------------
(* The strengthening that makes the safety properties inductive.           *)

\* the lock is held exactly by the caller in a long critical section
LockDiscipline ==
  \A c \in Callers : syncLock = c <=> pc[c] \in Closing \cup {"create"}

\* the table has no freed record and no record twice, and the record of a
\* closing callback is live and not in the table
Ownership ==
  /\ \A s \in Streams : pStreamMapping[s] # NoMapping =>
       IsLive(pStreamMapping[s])
  /\ \A s, t \in Streams :
       pStreamMapping[s] = pStreamMapping[t] /\ pStreamMapping[s] # NoMapping
         => s = t
  /\ \A c \in Callers : pc[c] # "idle" =>
       ptr[c] \in Mappings /\ heap[ptr[c]] # "unused"
  /\ \A c \in Callers : pc[c] \in Closing =>
       /\ IsLive(ptr[c])
       /\ \A s \in Streams : pStreamMapping[s] # ptr[c]

\* a record is freed after its reset thread is gone
Joined ==
  \A c \in Callers : pc[c] \in {"joinInvalid", "free"} =>
    restart[ptr[c]] = "none"

\* records never allocated have no reset thread
Untouched ==
  \A m \in Mappings : heap[m] = "unused" => restart[m] = "none"

\* a freed callbacks object has no record and no caller
Ended ==
  /\ life # "live" => \A c \in Callers : pc[c] \in {"idle"} \cup Closing
  /\ life = "freed" => /\ AllIdle
                       /\ \A s \in Streams : pStreamMapping[s] = NoMapping

RetryInv ==
  /\ TypeOK /\ LockDiscipline /\ Ownership /\ Joined /\ Untouched /\ Ended
  /\ ResetTracked /\ NoLeakedMapping

=============================================================================
