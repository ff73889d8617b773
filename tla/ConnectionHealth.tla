--------------------------- MODULE ConnectionHealth ---------------------------
(***************************************************************************)
(* The two state machines a CallbackStateMachine record holds: what to do  *)
(* about stream latency (StreamLatencyStateMachine.c) and about a stale    *)
(* connection (ConnectionStaleStateMachine.c).                             *)
(*                                                                         *)
(* The code keeps two absolute times, quietTime and backToNormalTime, both *)
(* set from one reading of the clock, and compares them with the clock     *)
(* when a callback arrives.  The model keeps the time since that reading   *)
(* instead, which stays finite while time goes on for ever:                *)
(*    currTime > quietTime         is   since > Grace                      *)
(*    currTime > backToNormalTime  is   since > Grace + Verification       *)
(* Both fields are 0 at first, that is, long past.                         *)
(***************************************************************************)
EXTENDS Naturals

CONSTANTS Grace,         \* GRACE_PERIOD_..., 30 s in the code
          Verification   \* VERIFICATION_PERIOD_..., 60 s in the code

ASSUME HealthAssumption == Grace \in Nat /\ Verification \in Nat

VARIABLES
  latencyState, latencySince,   \* the latency machine
  staleState, staleSince,       \* the staleness machine
  ready,                        \* "yes" once the stream ready callback came
  lastReset,                    \* time since each machine reset the connection
  parity                        \* of the number of resets of each machine

healthVars == <<latencyState, latencySince, staleState, staleSince, ready,
                lastReset, parity>>

States == {"NORMAL", "RESET_CONNECTION", "THROTTLE_PIPELINE", "INFINITE_RETRY"}
Machines == {"latency", "stale"}

\* times beyond the verification period are not told apart
LongAgo == Grace + Verification + 1

\* setStreamLatencyStateMachine and setConnectionStaleStateMachine, called by
\* getStreamMapping with zero times
HealthInit ==
  /\ latencyState = "NORMAL" /\ latencySince = LongAgo
  /\ staleState = "NORMAL" /\ staleSince = LongAgo
  /\ ready = "no"
  /\ lastReset = [k \in Machines |-> LongAgo]
  /\ parity = [k \in Machines |-> 0]

-----------------------------------------------------------------------------
Older(t) == IF t < LongAgo THEN t + 1 ELSE t

Tick ==
  /\ latencySince' = Older(latencySince)
  /\ staleSince' = Older(staleSince)
  /\ lastReset' = [k \in Machines |-> Older(lastReset[k])]
  /\ UNCHANGED <<latencyState, staleState, ready, parity>>

\* continuousRetryStreamReadyHandler
StreamReady ==
  /\ ready' = "yes"
  /\ UNCHANGED <<latencyState, latencySince, staleState, staleSince,
                 lastReset, parity>>

\* kinesisVideoStreamResetConnection, only if the stream is ready; what it
\* returns changes nothing here
ResetConnection(k) ==
  IF ready = "yes"
  THEN /\ lastReset' = [lastReset EXCEPT ![k] = 0]
       /\ parity' = [parity EXCEPT ![k] = 1 - @]
  ELSE UNCHANGED <<lastReset, parity>>

-----------------------------------------------------------------------------
(***************************************************************************)
(* A latency pressure callback.  Past the verification period the machine  *)
(* starts again from NORMAL; in the grace period it does nothing.          *)
(***************************************************************************)
LatencyStart ==
  IF latencySince > Grace + Verification THEN "NORMAL" ELSE latencyState

\* Mutant: >= in place of >
QuietPassedEarly(since) == since >= Grace

\* currTime > quietTime
QuietPassed(since) == since > Grace

streamLatencyStateMachineToResetConnectionState ==
  /\ LatencyStart = "NORMAL"
  /\ latencyState' = "RESET_CONNECTION"
  /\ latencySince' = 0
  /\ ResetConnection("latency")

streamLatencyStateMachineSetThrottlePipelineState ==
  /\ LatencyStart = "RESET_CONNECTION"
  /\ latencyState' = "THROTTLE_PIPELINE"
  /\ latencySince' = 0
  /\ UNCHANGED <<lastReset, parity>>

\* the one transition that leaves the times as they are
streamLatencyStateMachineSetInfiniteRetryState ==
  /\ LatencyStart = "THROTTLE_PIPELINE"
  /\ latencyState' = "INFINITE_RETRY"
  /\ UNCHANGED <<latencySince, lastReset, parity>>

\* Mutant: a timestamp update that is forgotten
DoInfiniteRetryNoTimestamp ==
  /\ LatencyStart = "INFINITE_RETRY"
  /\ UNCHANGED <<latencyState, latencySince>>
  /\ ResetConnection("latency")

\* Mutant: infinite retry without the retry
DoInfiniteRetryNoReset ==
  /\ LatencyStart = "INFINITE_RETRY"
  /\ latencySince' = 0
  /\ UNCHANGED <<latencyState, lastReset, parity>>

streamLatencyStateMachineDoInfiniteRetry ==
  /\ LatencyStart = "INFINITE_RETRY"
  /\ latencySince' = 0
  /\ UNCHANGED latencyState
  /\ ResetConnection("latency")

streamLatencyStateMachineHandleStreamLatency ==
  /\ QuietPassed(latencySince)
  /\ \/ streamLatencyStateMachineToResetConnectionState
     \/ streamLatencyStateMachineSetThrottlePipelineState
     \/ streamLatencyStateMachineSetInfiniteRetryState
     \/ streamLatencyStateMachineDoInfiniteRetry
  /\ UNCHANGED <<staleState, staleSince, ready>>

-----------------------------------------------------------------------------
(***************************************************************************)
(* A connection staleness callback: backToNormalTime is written and never  *)
(* read, so the machine does not leave RESET_CONNECTION.                   *)
(***************************************************************************)
connectionStaleStateMachineSetResetConnectionState ==
  /\ staleState = "NORMAL"
  /\ staleState' = "RESET_CONNECTION"
  /\ staleSince' = 0
  /\ ResetConnection("stale")

StaleAgain ==
  /\ staleState = "RESET_CONNECTION"
  /\ staleSince' = 0
  /\ UNCHANGED <<staleState, lastReset, parity>>

connectionStaleStateMachineHandleConnectionStale ==
  /\ QuietPassed(staleSince)
  /\ \/ connectionStaleStateMachineSetResetConnectionState
     \/ StaleAgain
  /\ UNCHANGED <<latencyState, latencySince, ready>>

HealthNext ==
  \/ Tick
  \/ StreamReady
  \/ streamLatencyStateMachineHandleStreamLatency
  \/ connectionStaleStateMachineHandleConnectionStale

HealthSpec == HealthInit /\ [][HealthNext]_healthVars

(***************************************************************************)
(* Time goes on, and PIC keeps reporting a latency, or a staleness, that   *)
(* persists (the tests count more than one report per condition).          *)
(***************************************************************************)
HealthFairness ==
  /\ WF_healthVars(Tick)
  /\ WF_healthVars(streamLatencyStateMachineHandleStreamLatency)
  /\ WF_healthVars(connectionStaleStateMachineHandleConnectionStale)

HealthFairSpec == HealthSpec /\ HealthFairness

-----------------------------------------------------------------------------
\* Types; times are capped and the staleness machine uses two states only.
HealthTypeOK ==
  /\ latencyState \in States
  /\ staleState \in {"NORMAL", "RESET_CONNECTION"}
  /\ latencySince \in 0..LongAgo
  /\ staleSince \in 0..LongAgo
  /\ ready \in {"yes", "no"}
  /\ lastReset \in [Machines -> 0..LongAgo]
  /\ parity \in [Machines -> {0, 1}]

(***************************************************************************)
(* A machine never resets the connection twice within its grace period,    *)
(* whichever state it escalated to in between (the quietTime tests, and    *)
(* the timestamp updates on every path that resets).                       *)
(***************************************************************************)
SpacedResets ==
  [][\A k \in Machines : parity'[k] # parity[k] => lastReset[k] > Grace]_healthVars

(***************************************************************************)
(* A latency that persists keeps the connection being reset, and does not  *)
(* get stuck in an escalation that takes no action                         *)
(* (streamLatencyStateMachineDoInfiniteRetry).                             *)
(***************************************************************************)
PersistentLatencyResets ==
  (ready = "yes") ~> (lastReset["latency"] = 0)

\* why SpacedResets holds: a reset is never more recent than the timestamp
HealthInv ==
  /\ HealthTypeOK
  /\ lastReset["latency"] >= latencySince
  /\ lastReset["stale"] >= staleSince

=============================================================================
