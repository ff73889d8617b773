------------------------ MODULE MC_StreamConnection ------------------------
(***************************************************************************)
(* The three machines that keep the connection of a stream going: the      *)
(* PutMedia session, the continuous-retry stream callbacks and the two     *)
(* health machines.  They share no variable (PIC, which is external, is    *)
(* what links them), so a behaviour of all three is an interleaving of one *)
(* behaviour of each: every behaviour here runs one machine and leaves the *)
(* other two in their initial states.                                      *)
(***************************************************************************)
EXTENDS UploadSession, ContinuousRetry, ConnectionHealth

VARIABLE part  \* the machine that runs

partVars == <<part, sessionVars, vars, healthVars>>

PartInit ==
  /\ part \in {"upload", "retry", "health"}
  /\ SessionInit
  /\ Init
  /\ HealthInit

PartNext ==
  \/ part = "upload" /\ SessionNext /\ UNCHANGED <<part, vars, healthVars>>
  \/ part = "retry" /\ Next /\ UNCHANGED <<part, sessionVars, healthVars>>
  \/ part = "health" /\ HealthNext /\ UNCHANGED <<part, sessionVars, vars>>

Uploading(A) == part = "upload" /\ A
Judging(A) == part = "health" /\ A

(***************************************************************************)
(* The fairness of each machine while it runs.  That of the retry          *)
(* callbacks needs no condition: in their initial state nobody is inside   *)
(* a callback.                                                             *)
(***************************************************************************)
PartFairness ==
  /\ WF_sessionVars(Uploading(dataAvailableCurl))
  /\ WF_sessionVars(Uploading(Unpause))
  /\ WF_sessionVars(Uploading(postWriteCallback))
  /\ WF_sessionVars(Uploading(fragmentAckReceivedCurl))
  /\ WF_sessionVars(Uploading(UnpauseOnAck))
  /\ WF_sessionVars(Uploading(postReadCallback))
  /\ WF_sessionVars(Uploading(Perform))
  /\ WF_sessionVars(Uploading((Is("timedOut") \/ session = "bodySent") /\ CurlReturns))
  /\ WF_sessionVars(Uploading(RemoveUpload))
  /\ WF_sessionVars(Uploading(terminateCurlSession))
  /\ Fairness
  /\ WF_healthVars(Judging(Tick))
  /\ WF_healthVars(Judging(streamLatencyStateMachineHandleStreamLatency))
  /\ WF_healthVars(Judging(connectionStaleStateMachineHandleConnectionStale))

PartSpec == PartInit /\ [][PartNext]_partVars /\ PartFairness

=============================================================================
