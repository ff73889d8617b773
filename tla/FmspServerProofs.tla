-------------------------- MODULE FmspServerProofs --------------------------
(***************************************************************************)
(* Proofs about FmspServer, for every length of a recording (MaxPts) and   *)
(* every set of windows clients ask for.                                   *)
(*                                                                         *)
(* None of the three properties is inductive.  That no bSuspend is cleared *)
(* without a signal hangs on who is where between a test of bSuspend and a *)
(* signal (WakeUpInv), which a thread created twice would upset            *)
(* (NotYetCreated); that Destruct leaves no thread behind hangs on bRun    *)
(* being set for every thread that runs (Destruction); that no early video *)
(* is sent hangs on bStart being cleared with every reload (Streaming).    *)
(***************************************************************************)
EXTENDS FmspServer, TLAPS

(* The server starts in a state that satisfies the invariant.              *)
LEMMA InitServerInv == Init => ServerInv
  <1> SUFFICES ASSUME Init
               PROVE  ServerInv
    OBVIOUS
  <1> USE DEF Init, Threads
  <1>1. PointTypes
    BY DEF PointTypes, ControlPoints, Locations
  <1>2. FlagTypes /\ MissedType
    BY DEF FlagTypes, MissedType
  <1>3. SharedTypes
    BY DEF SharedTypes, Commands
  <1>4. WindowTypes
    BY WindowsAssumption DEF WindowTypes, NoWindow
  <1>5. pc["Main"] \notin {"flag", "toWait", "wait"}
        /\ \A t \in Threads : pc[t] \notin {"toWait", "wait"}
    OBVIOUS
  <1>6. NotYetCreated /\ Destruction /\ Streaming
    BY DEF NotYetCreated, Destruction, RunsUntilJoined, Streaming, NoWindow
  <1> QED BY <1>1, <1>2, <1>3, <1>4, <1>5, <1>6
          DEF ServerInv, WakeUpInv, SleepersAreSignalled, TypeOK

(* The configured targets are numbers.                                     *)
LEMMA TargetsAreNumbers == WindowTypes => window.target \in Nat
  BY WindowsAssumption DEF WindowTypes, NoWindow

(***************************************************************************)
(* A step of the sender moves the sender only, may set its own bSuspend,   *)
(* and leaves the owner, bRun and the history alone.                       *)
(***************************************************************************)
LEMMA SenderMoves ==
  ASSUME SendLoop
  PROVE  /\ pc["Send"] \notin {"absent", "done", "toWait", "wait"}
         /\ \E l \in {"run", "clear", "arrival", "target", "check", "running", "unserved",
                     "awake", "test", "frame", "receive", "send", "sending", "sent",
                     "park"} : pc' = [pc EXCEPT !["Send"] = l]
         /\ bSuspend' \in {bSuspend, [bSuspend EXCEPT !["Send"] = TRUE]}
         /\ UNCHANGED <<kind, ctl, bRun, client, cmd, config, missed>>
  <1> USE DEF Goto
  <1>1. CASE SendWoken \/ SendTestRenew \/ SendRenew
    BY <1>1 DEF SendWoken, SendTestRenew, SendRenew
  <1>2. CASE SendReadArrival \/ SendReadTarget
    BY <1>2 DEF SendReadArrival, SendReadTarget
  <1>3. CASE SendCheck
    BY <1>3 DEF SendCheck, SendCheckClient, SendCheckRun, SendCheckSuspend
  <1>4. CASE SendPark \/ SendRestart
    BY <1>4 DEF SendPark, SendRestart, FmspServerCameraSignalCb
  <1>5. CASE SendFrame \/ SendFinish \/ SendReturns
    BY <1>5 DEF SendFrame, SendFinish, SendReturns
  <1>6. CASE SendGetFrame
    BY <1>6 DEF SendGetFrame
  <1> QED BY <1>1, <1>2, <1>3, <1>4, <1>5, <1>6 DEF SendLoop, SendSteps

(***************************************************************************)
(* A step of the receiver behind recv, but for the signal it gives, moves  *)
(* the receiver only; it clears the sender's bSuspend only on its way to   *)
(* the signal.                                                             *)
(***************************************************************************)
LEMMA ReceiverMoves ==
  ASSUME RecvLoop, ~SendWakeUp, FlagTypes
  PROVE  /\ pc["Recv"] \notin {"absent", "done", "toWait", "wait", "signal"}
         /\ \E l \in {"recving", "noClient", "dispatch", "reset", "config", "configEnd",
                     "close", "test", "signal"} :
              /\ pc' = [pc EXCEPT !["Recv"] = l]
              /\ \/ bSuspend' = bSuspend
                 \/ bSuspend' = [bSuspend EXCEPT !["Recv"] = TRUE]
                 \/ bSuspend' = [bSuspend EXCEPT !["Send"] = TRUE]
                 \/ bSuspend' = [bSuspend EXCEPT !["Recv"] = TRUE, !["Send"] = TRUE]
                 \/ l = "signal" /\ bSuspend' = [bSuspend EXCEPT !["Send"] = FALSE]
         /\ UNCHANGED <<kind, ctl, bRun, window, bStart, packet, pts, missed>>
  <1> USE DEF Goto
  <1>1. CASE RecvEnter \/ RecvReturns \/ RecvNoClient
    BY <1>1 DEF RecvEnter, RecvReturns, RecvNoClient
  <1>2. CASE ResetSuspends \/ WriteTargetTs \/ WriteArrivalTs \/ StopCloses
    BY <1>2 DEF ResetSuspends, WriteTargetTs, WriteArrivalTs, StopCloses
  <1>3. CASE RecvDispatch
    <2>1. CASE ~client \/ CmdReset \/ CmdConfig \/ CmdStop \/ CmdOther
      BY <1>3, <2>1 DEF RecvDispatch, CmdReset, CmdConfig, CmdStart, CmdStop, CmdOther
    <2>2. CASE client /\ CmdStart
      <3>1. CASE bSuspend["Send"]
        BY <1>3, <2>2, <3>1 DEF RecvDispatch, CmdStart
      <3>2. CASE ~bSuspend["Send"]
        <4>1. [bSuspend EXCEPT !["Send"] = FALSE] = bSuspend
          BY <3>2 DEF FlagTypes, Threads
        <4> QED BY <1>3, <2>2, <3>2, <4>1 DEF RecvDispatch, CmdStart
      <3> QED BY <3>1, <3>2
    <2> QED BY <1>3, <2>1, <2>2 DEF RecvDispatch
  <1> QED BY <1>1, <1>2, <1>3 DEF RecvLoop, RecvSteps

(***************************************************************************)
(* Every step keeps the types: the points in the code, the flags, the      *)
(* history of missed signals, the shared state, and the window with its    *)
(* frames.  One step per part, and one per actor for the points.           *)
(***************************************************************************)
LEMMA NextKeepsTypeOK == TypeOK /\ [Next]_vars => TypeOK'
  <1> SUFFICES ASSUME TypeOK, [Next]_vars
               PROVE  TypeOK'
    OBVIOUS
  <1> USE DEF TypeOK, Threads, Goto
  <1>1. CASE Owner
    <2> USE DEF Owner, SocketCreate, LoopEnds, FmspServerConstruct, CreateThread,
                FmspServerDestruct, StopAndJoin, StopThread, ClearFlags, SignalThread,
                JoinThread, Signal
    <2>1. PointTypes'
      <3>1. CASE SocketCreate \/ LoopEnds \/ FmspServerConstruct
        BY <3>1 DEF PointTypes, ControlPoints, Locations
      <3>2. CASE FmspServerDestruct
        BY <3>2, ZenonT(30) DEF PointTypes, ControlPoints, Locations
      <3> QED BY <1>1, <3>1, <3>2
    <2>2. FlagTypes'
      BY <1>1, ZenonT(30) DEF FlagTypes
    <2>3. MissedType'
      BY <1>1 DEF MissedType
    <2>4. SharedTypes'
      BY <1>1 DEF SharedTypes
    <2>5. WindowTypes'
      BY <1>1 DEF WindowTypes
    <2> QED BY <2>1, <2>2, <2>3, <2>4, <2>5
  <1>2. ASSUME NEW t \in Threads,
               ThreadStart(t) \/ LoopTest(t) \/ SuspendTest(t) \/ Suspend(t) \/ SpuriousWakeup(t)
        PROVE  TypeOK'
    <2> USE DEF ThreadStart, LoopTest, SuspendTest, Suspend, SpuriousWakeup
    <2>1. PointTypes'
      BY <1>2 DEF PointTypes, Locations
    <2>2. FlagTypes'
      BY <1>2, ZenonT(30) DEF FlagTypes
    <2>3. MissedType'
      BY <1>2 DEF MissedType
    <2>4. SharedTypes'
      BY <1>2 DEF SharedTypes
    <2>5. WindowTypes'
      BY <1>2 DEF WindowTypes
    <2> QED BY <2>1, <2>2, <2>3, <2>4, <2>5
  <1>3. CASE MainLoop
    <2> USE DEF MainLoop, MainSelect, FmspServerAccept, MainResumesRecv, RecvWakeUp, Signal
    <2>1. PointTypes'
      BY <1>3 DEF PointTypes, Locations
    <2>2. FlagTypes'
      BY <1>3 DEF FlagTypes
    <2>3. MissedType'
      BY <1>3 DEF MissedType
    <2>4. SharedTypes'
      BY <1>3 DEF SharedTypes
    <2>5. WindowTypes'
      BY <1>3 DEF WindowTypes
    <2> QED BY <2>1, <2>2, <2>3, <2>4, <2>5
  <1>4. CASE RecvLoop
    <2> USE DEF SendWakeUp, Signal
    <2>1. PointTypes'
      BY <1>4, ReceiverMoves DEF PointTypes, Locations
    <2>2. FlagTypes'
      BY <1>4, ReceiverMoves DEF FlagTypes
    <2>3. MissedType'
      BY <1>4, ReceiverMoves DEF MissedType
    <2> USE DEF RecvEnter, RecvReturns, RecvNoClient, RecvDispatch, CmdReset, CmdConfig,
                CmdStart, CmdStop, CmdOther, ResetSuspends, WriteTargetTs, WriteArrivalTs,
                StopCloses, RecvLoop, RecvSteps
    <2>4. SharedTypes'
      BY <1>4 DEF SharedTypes, Commands
    <2>5. WindowTypes'
      BY <1>4, WindowsAssumption DEF WindowTypes
    <2> QED BY <2>1, <2>2, <2>3, <2>4, <2>5
  <1>5. CASE SendLoop
    <2>1. PointTypes'
      BY <1>5, SenderMoves DEF PointTypes, Locations
    <2>2. FlagTypes'
      BY <1>5, SenderMoves DEF FlagTypes
    <2>3. MissedType'
      BY <1>5, SenderMoves DEF MissedType
    <2> USE DEF SendLoop, SendSteps, SendWoken, SendTestRenew, SendRenew, SendReadArrival,
                SendReadTarget, Reload, SendCheck, SendCheckClient, SendCheckRun,
                SendCheckSuspend, SendPark, SendRestart, SendGetFrame, SendFrame,
                SendReturns, SendFinish
    <2>4. SharedTypes'
      BY <1>5 DEF SharedTypes, StartsWith
    <2>5. WindowTypes'
      BY <1>5 DEF WindowTypes, ReceiveFrame, Frames
    <2> QED BY <2>1, <2>2, <2>3, <2>4, <2>5
  <1>6. CASE UNCHANGED vars
    BY <1>6 DEF vars, PointTypes, FlagTypes, MissedType,
                SharedTypes, WindowTypes
  <1> QED
    BY <1>1, <1>2, <1>3, <1>4, <1>5, <1>6 DEF Next, ThreadStep

(***************************************************************************)
(* Every step keeps wake-ups from getting lost unnoticed.  Only the        *)
(* signalling steps, the clearing of bSuspend, the test of it and the      *)
(* creation of a signaller bear on it.                                     *)
(***************************************************************************)
LEMMA NextKeepsWakeUps ==
  WakeUpInv /\ NotYetCreated /\ [Next]_vars => WakeUpInv'
  <1> SUFFICES ASSUME WakeUpInv, NotYetCreated, [Next]_vars
               PROVE  WakeUpInv'
    OBVIOUS
  <1>t. TypeOK'
    BY NextKeepsTypeOK DEF WakeUpInv
  <1> DEFINE Lost(t) == pc[t] \in {"toWait", "wait"} /\ ~bSuspend[t]
                          => SignalPending(t) \/ t \in missed
  <1>a. PointTypes /\ FlagTypes
    BY DEF WakeUpInv, TypeOK
  <1>b. pc["Main"] \notin {"flag", "toWait", "wait"} /\ \A t \in Threads : Lost(t)
    BY DEF WakeUpInv, SleepersAreSignalled
  <1> SUFFICES (pc["Main"] \notin {"flag", "toWait", "wait"} /\ \A t \in Threads : Lost(t))'
    BY <1>t DEF WakeUpInv, SleepersAreSignalled
  <1> USE <1>a, <1>b DEF SignalPending, Threads, Goto, PointTypes, FlagTypes
  <1>1. CASE Owner
    <2>1. CASE SocketCreate \/ LoopEnds
      BY <2>1 DEF SocketCreate, LoopEnds
    <2>2. CASE FmspServerConstruct
      BY <2>2 DEF FmspServerConstruct, CreateThread, NotYetCreated
    <2>3. CASE FmspServerDestruct
      BY <2>3, ZenonT(30) DEF FmspServerDestruct, StopAndJoin, StopThread, ClearFlags,
                             SignalThread, JoinThread, Signal
    <2> QED BY <1>1, <2>1, <2>2, <2>3 DEF Owner
  <1>2. ASSUME NEW t \in Threads,
               ThreadStart(t) \/ LoopTest(t) \/ SuspendTest(t) \/ Suspend(t) \/ SpuriousWakeup(t)
        PROVE  (pc["Main"] \notin {"flag", "toWait", "wait"} /\ \A u \in Threads : Lost(u))'
    <2>1. CASE ThreadStart(t)
      BY <2>1 DEF ThreadStart
    <2>2. CASE LoopTest(t) \/ SuspendTest(t)
      BY <2>2 DEF LoopTest, SuspendTest
    <2>3. CASE Suspend(t) \/ SpuriousWakeup(t)
      BY <2>3 DEF Suspend, SpuriousWakeup
    <2> QED BY <1>2, <2>1, <2>2, <2>3
  <1>3. CASE MainLoop
    <2>1. CASE MainSelect \/ FmspServerAccept \/ MainResumesRecv
      BY <2>1 DEF MainSelect, FmspServerAccept, MainResumesRecv
    <2>2. CASE RecvWakeUp
      BY <2>2 DEF RecvWakeUp, Signal
    <2> QED BY <1>3, <2>1, <2>2 DEF MainLoop
  <1>4. CASE RecvLoop
    <2>1. CASE ~SendWakeUp
      BY <1>4, <2>1, ReceiverMoves
    <2>2. CASE SendWakeUp
      BY <2>2 DEF SendWakeUp, Signal
    <2> QED BY <2>1, <2>2
  <1>5. CASE SendLoop
    BY <1>5, SenderMoves
  <1>6. CASE UNCHANGED vars
    BY <1>6 DEF vars
  <1> QED
    BY <1>1, <1>2, <1>3, <1>4, <1>5, <1>6 DEF Next, ThreadStep

(***************************************************************************)
(* Where the threads are with respect to the owner: a thread comes to life *)
(* by its creation only, and bRun is cleared by the request to stop only.  *)
(***************************************************************************)
LEMMA NextKeepsOwnership ==
  TypeOK /\ NotYetCreated /\ Destruction /\ [Next]_vars
    => NotYetCreated' /\ Destruction'
  <1> SUFFICES ASSUME TypeOK, NotYetCreated, Destruction, [Next]_vars
               PROVE  NotYetCreated' /\ Destruction'
    OBVIOUS
  <1>a. PointTypes /\ FlagTypes
    BY DEF TypeOK
  <1> USE <1>a DEF NotYetCreated, Destruction, RunsUntilJoined, BehindMain, BehindRecv,
                   BehindSend, Threads, Goto, PointTypes, FlagTypes
  <1>1. CASE Owner
    <2>1. CASE SocketCreate \/ LoopEnds
      BY <2>1 DEF SocketCreate, LoopEnds
    <2>2. CASE FmspServerConstruct
      BY <2>2 DEF FmspServerConstruct, CreateThread
    <2>3. CASE FmspServerDestruct
      BY <2>3, ZenonT(30) DEF FmspServerDestruct, StopAndJoin, StopThread, ClearFlags,
                             SignalThread, JoinThread, Signal
    <2> QED BY <1>1, <2>1, <2>2, <2>3 DEF Owner
  <1>2. ASSUME NEW t \in Threads,
               ThreadStart(t) \/ LoopTest(t) \/ SuspendTest(t) \/ Suspend(t) \/ SpuriousWakeup(t)
        PROVE  NotYetCreated' /\ Destruction'
    BY <1>2 DEF ThreadStart, LoopTest, SuspendTest, Suspend, SpuriousWakeup
  <1>3. CASE MainLoop
    BY <1>3 DEF MainLoop, MainSelect, FmspServerAccept, MainResumesRecv, RecvWakeUp,
                Signal
  <1>4. CASE RecvLoop
    <2>1. CASE ~SendWakeUp
      BY <1>4, <2>1, ReceiverMoves
    <2>2. CASE SendWakeUp
      BY <2>2 DEF SendWakeUp, Signal
    <2> QED BY <2>1, <2>2
  <1>5. CASE SendLoop
    BY <1>5, SenderMoves
  <1>6. CASE UNCHANGED vars
    BY <1>6 DEF vars
  <1> QED
    BY <1>1, <1>2, <1>3, <1>4, <1>5, <1>6 DEF Next, ThreadStep

(***************************************************************************)
(* Only the Send thread changes its window, bStart and its frame: it is in *)
(* front of a send only with a frame behind the target of its window.      *)
(***************************************************************************)
LEMMA NextKeepsStreaming ==
  TypeOK /\ Streaming /\ [Next]_vars => Streaming'
  <1> SUFFICES ASSUME TypeOK, Streaming, [Next]_vars
               PROVE  Streaming'
    OBVIOUS
  <1>a. PointTypes /\ WindowTypes /\ window.target \in Nat
    BY TargetsAreNumbers DEF TypeOK
  <1>b. MaxPts \in Nat /\ pts \in Int
    BY <1>a, WindowsAssumption DEF WindowTypes
  <1> USE <1>a, <1>b DEF Streaming, Threads, Goto, PointTypes
  <1> DEFINE Elsewhere == /\ UNCHANGED <<window, bStart, packet, pts>>
                          /\ pc'["Send"] \in {"send", "sending"}
                                => pc["Send"] \in {"send", "sending"}
  <1>0. ASSUME Elsewhere
        PROVE  Streaming'
    BY <1>0
  <1>1. CASE Owner
    <2>1. Elsewhere
      BY <1>1 DEF Owner, SocketCreate, LoopEnds, FmspServerConstruct, CreateThread,
                  FmspServerDestruct, StopAndJoin, StopThread, ClearFlags,
                  SignalThread, JoinThread, Signal
    <2> QED BY <2>1, <1>0
  <1>2. ASSUME NEW t \in Threads,
               ThreadStart(t) \/ LoopTest(t) \/ SuspendTest(t) \/ Suspend(t) \/ SpuriousWakeup(t)
        PROVE  Streaming'
    <2>1. Elsewhere
      BY <1>2 DEF ThreadStart, LoopTest, SuspendTest, Suspend, SpuriousWakeup
    <2> QED BY <2>1, <1>0
  <1>3. CASE MainLoop
    <2>1. Elsewhere
      BY <1>3 DEF MainLoop, MainSelect, FmspServerAccept, MainResumesRecv, RecvWakeUp,
                  Signal
    <2> QED BY <2>1, <1>0
  <1>4. CASE RecvLoop
    <2>1. Elsewhere
      BY <1>4, ReceiverMoves DEF TypeOK, SendWakeUp, Signal
    <2> QED BY <2>1, <1>0
  <1>5. CASE SendLoop
    <2>1. CASE SendReadTarget
      BY <2>1 DEF SendReadTarget, Reload
    <2>2. CASE SendReadArrival
      BY <2>2 DEF SendReadArrival, WindowTypes
    <2>3. CASE SendWoken \/ SendTestRenew \/ SendRenew \/ SendCheck \/ SendPark
      BY <2>3 DEF SendWoken, SendTestRenew, SendRenew, SendCheck, SendCheckClient,
                  SendCheckRun, SendCheckSuspend, SendPark
    <2>4. CASE SendRestart
      BY <2>4 DEF SendRestart, Restart
    <2>5. CASE SendFrame \/ SendReturns \/ SendFinish
      BY <2>5 DEF SendFrame, SendReturns, SendFinish
    <2>6. CASE SendGetFrame
      <3>1. CASE pc' = [pc EXCEPT !["Send"] = "test"] /\ UNCHANGED <<packet, pts, bStart>>
        BY <2>6, <3>1 DEF SendGetFrame
      <3>2. CASE \E f \in Frames :
                   /\ ReceiveFrame(f)
                   /\ bStart' = StartsWith(f)
                   /\ packet' = IF StartsWith(f) THEN f ELSE NoFrame
                   /\ Goto("Send", IF StartsWith(f) THEN "send" ELSE "test")
        <4>1. PICK f \in Frames :
                   /\ ReceiveFrame(f)
                   /\ bStart' = StartsWith(f)
                   /\ packet' = IF StartsWith(f) THEN f ELSE NoFrame
                   /\ Goto("Send", IF StartsWith(f) THEN "send" ELSE "test")
          BY <3>2
        <4>2. f.pts \in Int /\ pts' \in Int /\ pts' >= pts /\ window' = window
          BY <2>6, <4>1 DEF SendGetFrame, ReceiveFrame, Frames
        <4>3. StartsWith(f) => pts' >= window.target
          BY <4>1, <4>2 DEF StartsWith, ReceiveFrame
        <4>4. f.type = "video" => pts' = f.pts
          BY <4>1 DEF ReceiveFrame
        <4>5. (bStart => pts >= window.target)'
          BY <4>1, <4>2, <4>3
        <4>6. (pc["Send"] \in {"send", "sending"} /\ packet.type = "video"
                 => packet.pts >= window.target)'
          BY <4>1, <4>2, <4>3, <4>4
        <4> QED BY <4>5, <4>6
      <3> QED BY <2>6, <3>1, <3>2 DEF SendGetFrame
    <2> QED BY <1>5, <2>1, <2>2, <2>3, <2>4, <2>5, <2>6 DEF SendLoop, SendSteps
  <1>6. CASE UNCHANGED vars
    BY <1>6 DEF vars
  <1> QED
    BY <1>1, <1>2, <1>3, <1>4, <1>5, <1>6 DEF Next, ThreadStep

(***************************************************************************)
(* The invariant of the media server.                                      *)
(***************************************************************************)
THEOREM ServerInvariance == Spec => []ServerInv
<1>1. ServerInv /\ [Next]_vars => ServerInv'
  BY NextKeepsWakeUps, NextKeepsOwnership, NextKeepsStreaming DEF ServerInv, WakeUpInv
<1> QED
  BY <1>1, InitServerInv, PTL DEF Spec

(***************************************************************************)
(* Whoever clears the bSuspend of a thread that sleeps, or is about to,    *)
(* also signals it, whatever the owner, the clients and the camera do.     *)
(***************************************************************************)
THEOREM SleepersGetTheirSignal == Spec => []WakeUpInv
<1>1. ServerInv => WakeUpInv
  BY DEF ServerInv
<1> QED
  BY <1>1, ServerInvariance, PTL

(***************************************************************************)
(* When FmspServerDestruct returns no thread of the server runs, whatever  *)
(* part of FmspServerConstruct had failed.                                 *)
(***************************************************************************)
THEOREM DestructJoinsEverything == Spec => []NothingRunsAfterDestruct
<1>1. ServerInv => NothingRunsAfterDestruct
  BY DEF ServerInv, Destruction, RunsUntilJoined, BehindMain, BehindRecv, BehindSend,
         NothingRunsAfterDestruct, Threads
<1> QED
  BY <1>1, ServerInvariance, PTL

(***************************************************************************)
(* The Send thread sends no video frame older than the target it has       *)
(* loaded, for every length of a recording and every set of windows.       *)
(***************************************************************************)
THEOREM ReloadsStartOver == Spec => []NoVideoBeforeLoadedTarget
<1>1. ServerInv => NoVideoBeforeLoadedTarget
  BY DEF ServerInv, Streaming, NoVideoBeforeLoadedTarget
<1> QED
  BY <1>1, ServerInvariance, PTL

=============================================================================
