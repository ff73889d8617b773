----------------------------- MODULE FmspServer -----------------------------
(***************************************************************************)
(* The media server of MediaStreamProvider (FmspServer.c, FmspMain.c): the *)
(* owner constructs a server, runs the D-Bus loop and destructs it; a Main *)
(* thread accepts clients, a Recv thread reads their commands and a Send   *)
(* thread streams camera frames to them.  The three threads share the      *)
(* fields of one FmspServer_t without a lock: Suspend is                   *)
(* lock; pthread_cond_wait; unlock with no predicate, and a wake-up is a   *)
(* pthread_cond_signal outside the mutex, so the only thing that keeps a   *)
(* wake-up from being lost is when it happens.  Every read and write of a  *)
(* shared flag whose place among the other threads' steps matters is a     *)
(* step of its own.                                                        *)
(*                                                                         *)
(* The two servers of the file, Playback and Liveview, are the two values  *)
(* of kind: they differ in the Reset command, in how the sender reloads    *)
(* its window and in the frames they take.                                 *)
(***************************************************************************)
EXTENDS Integers, FiniteSets

CONSTANTS Kinds,      \* the servers looked at: "Playback", "Liveview" or both
          MaxPts,     \* frames carry a presentation time in 0..MaxPts
          Windows     \* [target, arrival] pairs a client may configure

ASSUME WindowsAssumption ==
  /\ Kinds \subseteq {"Playback", "Liveview"}
  /\ MaxPts \in Nat
  /\ Windows \subseteq [target: Nat, arrival: Int]

VARIABLES
  kind,       \* "Playback" or "Liveview"
  ctl,        \* where the owner is: Construct, the D-Bus loop, Destruct
  pc,         \* where each server thread is
  bRun, bSuspend, bRenew,   \* the flags of FmspServerThread_t
  client,     \* ClientSd[0] is a descriptor (not -1)
  cmd,        \* the command the Recv thread took off the socket
  config,     \* TargetTs and ArrivalTs
  window, bStart,           \* locals of the sender: TargetPTS/ArrivalPTS, bStart
  packet,     \* the frame the sender holds
  pts,        \* presentation time of the newest camera frame
  missed      \* history: threads signalled between their test of bSuspend and the wait

vars == <<kind, ctl, pc, bRun, bSuspend, bRenew, client, cmd, config,
          window, bStart, packet, pts, missed>>

Threads  == {"Main", "Recv", "Send"}
Commands == {"Reset", "Config", "Start", "Stop", "Other"}
Frames   == [type: {"video", "audio", "other"}, pts: 0..MaxPts]
NoWindow == [target |-> 0, arrival |-> 0]
NoFrame  == [type |-> "none", pts |-> 0]
Restart  == [type |-> "restart", pts |-> 0]
Locations ==
  {"absent", "start", "test", "flag", "toWait", "wait", "woken", "run", "done",
   "accept", "resume", "signal",                             \* Main; Recv signals too
   "recving", "noClient", "dispatch", "reset", "config", "configEnd", "close", \* Recv
   "clear", "arrival", "target", "check", "unserved", "running", "awake", \* Send
   "frame", "receive", "send", "sending", "sent", "park"}

ControlPoints ==
  {"socket", "cMain", "cRecv", "cSend", "loop",
   "dSend", "fSend", "sSend", "jSend", "dRecv", "fRecv", "sRecv", "jRecv",
   "dMain", "fMain", "sMain", "jMain", "done"}

Goto(t, l) == pc' = [pc EXCEPT ![t] = l]

(***************************************************************************)
(* pthread_cond_signal on the condition variable of thread t; moved is pc   *)
(* with the signalling thread advanced.  A waiting thread wakes; a thread   *)
(* that has tested bSuspend but does not wait yet misses the signal.        *)
(***************************************************************************)
Signal(t, moved) ==
  /\ pc' = IF pc[t] = "wait" THEN [moved EXCEPT ![t] = "woken"] ELSE moved
  /\ missed' = IF pc[t] = "wait" THEN missed \ {t}
               ELSE IF pc[t] = "toWait" THEN missed \cup {t} ELSE missed

----------------------------------------------------------------------------
(* Construct: socket, then the three threads; the first failure ends it.    *)

SocketCreate ==
  /\ ctl = "socket"
  /\ ctl' \in {"cMain", "dSend"}
  /\ UNCHANGED <<kind, pc, bRun, bSuspend, bRenew, client, cmd, config,
                 window, bStart, packet, pts, missed>>

CreateThreadUnmarked(t, here, next) ==    \* mutant: only the thread sets bRun
  /\ ctl = here
  /\ \/ Goto(t, "start") /\ ctl' = next
     \/ ctl' = "dSend" /\ UNCHANGED pc
  /\ UNCHANGED <<kind, bRun, bSuspend, bRenew, client, cmd, config,
                 window, bStart, packet, pts, missed>>

CreateThread(t, here, next) ==
  /\ ctl = here
  /\ \/ /\ bRun' = [bRun EXCEPT ![t] = TRUE]
        /\ Goto(t, "start")
        /\ ctl' = next
     \/ /\ ctl' = "dSend"
        /\ UNCHANGED <<bRun, pc>>
  /\ UNCHANGED <<kind, bSuspend, bRenew, client, cmd, config,
                 window, bStart, packet, pts, missed>>

FmspServerConstruct ==
  \/ CreateThread("Main", "cMain", "cRecv")
  \/ CreateThread("Recv", "cRecv", "cSend")
  \/ CreateThread("Send", "cSend", "loop")

\* The D-Bus loop of main returns: the process is told to end.
LoopEnds ==
  /\ ctl = "loop"
  /\ ctl' = "dSend"
  /\ UNCHANGED <<kind, pc, bRun, bSuspend, bRenew, client, cmd, config,
                 window, bStart, packet, pts, missed>>

StopThreadRunning(t, here, flags, next) ==    \* mutant: bRun is left set
  /\ ctl = here
  /\ ctl' = IF bRun[t] THEN flags ELSE next
  /\ UNCHANGED <<kind, pc, bRun, bSuspend, bRenew, client, cmd, config, window,
                 bStart, packet, pts, missed>>

\* Destruct: for Send, Recv and Main in this order, if the thread was created
\* clear bRun, clear its other flags, signal it and join it.
StopThread(t, here, flags, next) ==
  /\ ctl = here
  /\ ctl' = IF bRun[t] THEN flags ELSE next
  /\ bRun' = [bRun EXCEPT ![t] = FALSE]
  /\ UNCHANGED <<kind, pc, bSuspend, bRenew, client, cmd, config, window, bStart,
                 packet, pts, missed>>

ClearFlags(t, flags, signal) ==
  /\ ctl = flags
  /\ ctl' = signal
  /\ bSuspend' = [bSuspend EXCEPT ![t] = FALSE]
  /\ bRenew' = IF t = "Send" THEN FALSE ELSE bRenew
  /\ UNCHANGED <<kind, pc, bRun, client, cmd, config, window, bStart, packet, pts, missed>>

SignalThread(t, signal, join) ==
  /\ ctl = signal
  /\ ctl' = join
  /\ Signal(t, pc)
  /\ UNCHANGED <<kind, bRun, bSuspend, bRenew, client, cmd, config, window, bStart,
                 packet, pts>>

JoinThread(t, join, next) ==
  /\ ctl = join
  /\ pc[t] = "done"
  /\ ctl' = next
  /\ UNCHANGED <<kind, pc, bRun, bSuspend, bRenew, client, cmd, config,
                 window, bStart, packet, pts, missed>>

StopAndJoin(t, here, flags, signal, join, next) ==
  \/ StopThread(t, here, flags, next)
  \/ ClearFlags(t, flags, signal)
  \/ SignalThread(t, signal, join)
  \/ JoinThread(t, join, next)

FmspServerDestruct ==
  \/ StopAndJoin("Send", "dSend", "fSend", "sSend", "jSend", "dRecv")
  \/ StopAndJoin("Recv", "dRecv", "fRecv", "sRecv", "jRecv", "dMain")
  \/ StopAndJoin("Main", "dMain", "fMain", "sMain", "jMain", "done")

----------------------------------------------------------------------------
(* What the loops have in common.                                           *)

\* A thread's first statements: it sets its own bRun (again), which undoes a
\* stop request that came before it ran; Recv also sets its own bSuspend.
ThreadStart(t) ==
  /\ pc[t] = "start"
  /\ bRun' = [bRun EXCEPT ![t] = TRUE]
  /\ bSuspend' = IF t = "Recv" THEN [bSuspend EXCEPT ![t] = TRUE] ELSE bSuspend
  /\ Goto(t, "test")
  /\ UNCHANGED <<kind, ctl, bRenew, client, cmd, config, window, bStart,
                 packet, pts, missed>>

\* while( bRun ) ...
LoopTest(t) ==
  /\ pc[t] = "test"
  /\ Goto(t, IF ~bRun[t] THEN "done" ELSE IF t = "Main" THEN "run" ELSE "flag")
  /\ UNCHANGED <<kind, ctl, bRun, bSuspend, bRenew, client, cmd, config,
                 window, bStart, packet, pts, missed>>

\* ... { if( bSuspend ) suspend: a second read, of another flag.
SuspendTest(t) ==
  /\ pc[t] = "flag"
  /\ Goto(t, IF bSuspend[t] THEN "toWait" ELSE "run")
  /\ UNCHANGED <<kind, ctl, bRun, bSuspend, bRenew, client, cmd, config,
                 window, bStart, packet, pts, missed>>

\* FmspServerPlaybackRecvSuspend and its three copies.
Suspend(t) ==
  /\ pc[t] = "toWait"
  /\ Goto(t, "wait")
  /\ UNCHANGED <<kind, ctl, bRun, bSuspend, bRenew, client, cmd, config,
                 window, bStart, packet, pts, missed>>

\* POSIX lets pthread_cond_wait return without a signal.
SpuriousWakeup(t) ==
  /\ pc[t] = "wait"
  /\ Goto(t, "woken")
  /\ missed' = missed \ {t}
  /\ UNCHANGED <<kind, ctl, bRun, bSuspend, bRenew, client, cmd, config,
                 window, bStart, packet, pts>>

----------------------------------------------------------------------------
(* The Main thread.                                                         *)

\* select times out, or finds a client while the Recv thread does not run.
MainSelect ==
  /\ pc["Main"] = "run"
  /\ \/ Goto("Main", "test") /\ UNCHANGED client
     \/ /\ bRun["Recv"]
        /\ client' = FALSE          \* the previous client is closed first
        /\ Goto("Main", "accept")
  /\ UNCHANGED <<kind, ctl, bRun, bSuspend, bRenew, cmd, config, window,
                 bStart, packet, pts, missed>>

FmspServerAccept ==
  /\ pc["Main"] = "accept"
  /\ \/ client' = TRUE /\ Goto("Main", "resume")
     \/ client' = FALSE /\ Goto("Main", "test")     \* accept or stat failed
  /\ UNCHANGED <<kind, ctl, bRun, bSuspend, bRenew, cmd, config, window,
                 bStart, packet, pts, missed>>

MainResumesRecv ==
  /\ pc["Main"] = "resume"
  /\ bSuspend' = [bSuspend EXCEPT !["Recv"] = FALSE]
  /\ Goto("Main", "signal")
  /\ UNCHANGED <<kind, ctl, bRun, bRenew, client, cmd, config, window,
                 bStart, packet, pts, missed>>

RecvWakeUpNobody ==    \* mutant: the condition variable of another thread
  /\ pc["Main"] = "signal"
  /\ Signal("Send", [pc EXCEPT !["Main"] = "test"])
  /\ UNCHANGED <<kind, ctl, bRun, bSuspend, bRenew, client, cmd, config,
                 window, bStart, packet, pts>>

RecvWakeUp ==
  /\ pc["Main"] = "signal"
  /\ Signal("Recv", [pc EXCEPT !["Main"] = "test"])
  /\ UNCHANGED <<kind, ctl, bRun, bSuspend, bRenew, client, cmd, config,
                 window, bStart, packet, pts>>

MainLoop == MainSelect \/ FmspServerAccept \/ MainResumesRecv \/ RecvWakeUp

----------------------------------------------------------------------------
(* The Recv thread.                                                         *)

RecvEnter ==
  /\ pc["Recv"] \in {"woken", "run"}
  /\ Goto("Recv", IF client THEN "recving" ELSE "noClient")
  /\ UNCHANGED <<kind, ctl, bRun, bSuspend, bRenew, client, cmd, config,
                 window, bStart, packet, pts, missed>>

\* recv returned: a whole command (after an end of file of a client that is
\* still executing the buffer is zero, which may be any enumerator), or an end
\* of file of a client that never gave its name or does not execute any more.
RecvReturns ==
  /\ pc["Recv"] = "recving"
  /\ \/ /\ cmd' \in Commands
        /\ Goto("Recv", "dispatch")
        /\ UNCHANGED client
     \/ /\ client' = FALSE
        /\ Goto("Recv", "noClient")
        /\ UNCHANGED cmd
  /\ UNCHANGED <<kind, ctl, bRun, bSuspend, bRenew, config, window, bStart,
                 packet, pts, missed>>

RecvNoClient ==
  /\ pc["Recv"] = "noClient"
  /\ bSuspend' = [bSuspend EXCEPT !["Recv"] = TRUE]
  /\ Goto("Recv", "test")
  /\ UNCHANGED <<kind, ctl, bRun, bRenew, client, cmd, config, window,
                 bStart, packet, pts, missed>>

\* FMSP_CMD_RESET: the playback server asks the sender to reload, then suspends
\* it; the live-view server only suspends it.
CmdReset ==
  /\ cmd = "Reset"
  /\ bRenew' = IF kind = "Playback" THEN TRUE ELSE bRenew
  /\ Goto("Recv", "reset")
  /\ UNCHANGED bSuspend

ResetSuspends ==
  /\ pc["Recv"] = "reset"
  /\ bSuspend' = [bSuspend EXCEPT !["Send"] = TRUE]
  /\ Goto("Recv", "test")
  /\ UNCHANGED <<kind, ctl, bRun, bRenew, client, cmd, config, window, bStart,
                 packet, pts, missed>>

CmdConfig ==
  /\ cmd = "Config"
  /\ Goto("Recv", IF bSuspend["Send"] THEN "config" ELSE "test")
  /\ UNCHANGED <<bSuspend, bRenew>>

\* TargetTs and ArrivalTs of the window asked for, one after the other.
WriteTargetTs ==
  /\ pc["Recv"] = "config"
  /\ \E w \in Windows : config' = [config EXCEPT !.target = w.target]
  /\ Goto("Recv", "configEnd")
  /\ UNCHANGED <<kind, ctl, bRun, bSuspend, bRenew, client, cmd, window, bStart,
                 packet, pts, missed>>

WriteArrivalTs ==
  /\ pc["Recv"] = "configEnd"
  /\ \E w \in Windows : w.target = config.target /\ config' = w
  /\ Goto("Recv", "test")
  /\ UNCHANGED <<kind, ctl, bRun, bSuspend, bRenew, client, cmd, window, bStart,
                 packet, pts, missed>>

CmdStartUnsignalled ==    \* mutant: bSuspend is cleared, the sender is not woken
  /\ cmd = "Start"
  /\ bSuspend' = [bSuspend EXCEPT !["Send"] = FALSE]
  /\ Goto("Recv", "test")
  /\ UNCHANGED bRenew

CmdStart ==
  /\ cmd = "Start"
  /\ bSuspend' = [bSuspend EXCEPT !["Send"] = FALSE]
  /\ Goto("Recv", IF bSuspend["Send"] THEN "signal" ELSE "test")
  /\ UNCHANGED bRenew

CmdStop ==
  /\ cmd = "Stop"
  /\ IF bSuspend["Send"]
       THEN Goto("Recv", "test") /\ UNCHANGED bSuspend
       ELSE /\ bSuspend' = [bSuspend EXCEPT !["Recv"] = TRUE, !["Send"] = TRUE]
            /\ Goto("Recv", "close")
  /\ UNCHANGED bRenew

StopCloses ==
  /\ pc["Recv"] = "close"
  /\ client' = FALSE
  /\ Goto("Recv", "test")
  /\ UNCHANGED <<kind, ctl, bRun, bSuspend, bRenew, cmd, config, window, bStart,
                 packet, pts, missed>>

CmdOther ==
  /\ cmd = "Other"
  /\ Goto("Recv", "test")
  /\ UNCHANGED <<bSuspend, bRenew>>

\* The client is looked at again before the switch over the command.
RecvDispatch ==
  /\ pc["Recv"] = "dispatch"
  /\ IF client
       THEN CmdReset \/ CmdConfig \/ CmdStart \/ CmdStop \/ CmdOther
       ELSE /\ Goto("Recv", "noClient")
            /\ UNCHANGED <<bSuspend, bRenew>>
  /\ cmd' = "Other"
  /\ UNCHANGED <<kind, ctl, bRun, client, config, window, bStart, packet, pts, missed>>

SendWakeUp ==
  /\ pc["Recv"] = "signal"
  /\ Signal("Send", [pc EXCEPT !["Recv"] = "test"])
  /\ UNCHANGED <<kind, ctl, bRun, bSuspend, bRenew, client, cmd, config,
                 window, bStart, packet, pts>>

\* Everything the receiver does between two calls of recv.
RecvSteps ==
  \/ RecvEnter \/ RecvNoClient \/ RecvDispatch
  \/ ResetSuspends \/ WriteTargetTs \/ WriteArrivalTs \/ StopCloses \/ SendWakeUp

RecvLoop == RecvSteps \/ RecvReturns

----------------------------------------------------------------------------
(* The Send thread.                                                         *)

\* Behind the suspension of a playback sender; a live sender reloads at once.
SendWoken ==
  /\ pc["Send"] = "woken"
  /\ IF kind = "Playback"
       THEN bRenew' = TRUE /\ Goto("Send", "run")
       ELSE Goto("Send", "arrival") /\ UNCHANGED bRenew
  /\ UNCHANGED <<kind, ctl, bRun, bSuspend, client, cmd, config, window, bStart,
                 packet, pts, missed>>

SendTestRenew ==
  /\ pc["Send"] = "run"
  /\ Goto("Send", IF kind = "Playback" /\ bRenew THEN "clear" ELSE "check")
  /\ UNCHANGED <<kind, ctl, bRun, bSuspend, bRenew, client, cmd, config, window,
                 bStart, packet, pts, missed>>

SendRenew ==
  /\ pc["Send"] = "clear"
  /\ bRenew' = FALSE
  /\ Goto("Send", "arrival")
  /\ UNCHANGED <<kind, ctl, bRun, bSuspend, client, cmd, config, window, bStart,
                 packet, pts, missed>>

SendReadArrival ==
  /\ pc["Send"] = "arrival"
  /\ window' = [window EXCEPT !.arrival = config.arrival]
  /\ Goto("Send", "target")
  /\ UNCHANGED <<kind, ctl, bRun, bSuspend, bRenew, client, cmd, config, bStart,
                 packet, pts, missed>>

ReloadStarted ==    \* mutant: bStart survives
  /\ window' = [window EXCEPT !.target = config.target]
  /\ UNCHANGED bStart

Reload == /\ window' = [window EXCEPT !.target = config.target]
          /\ bStart' = FALSE

SendReadTarget ==
  /\ pc["Send"] = "target"
  /\ Reload
  /\ Goto("Send", "check")
  /\ UNCHANGED <<kind, ctl, bRun, bSuspend, bRenew, client, cmd, config, packet,
                 pts, missed>>

\* Without a client the sender suspends itself; then bRun and bSuspend are read,
\* one after the other: another thread may have cleared bSuspend again.
SendCheckClient ==
  /\ pc["Send"] = "check"
  /\ Goto("Send", IF client THEN "running" ELSE "unserved")
  /\ UNCHANGED <<kind, ctl, bRun, bSuspend, bRenew, client, cmd, config,
                 window, bStart, packet, pts, missed>>

SendCheckRun ==
  /\ pc["Send"] = "running"
  /\ Goto("Send", IF bRun["Send"] THEN "awake" ELSE "test")
  /\ UNCHANGED <<kind, ctl, bRun, bSuspend, bRenew, client, cmd, config,
                 window, bStart, packet, pts, missed>>

SendCheckSuspend ==
  /\ pc["Send"] = "awake"
  /\ Goto("Send", IF bSuspend["Send"] THEN "test" ELSE "frame")
  /\ UNCHANGED <<kind, ctl, bRun, bSuspend, bRenew, client, cmd, config,
                 window, bStart, packet, pts, missed>>

SendCheck == SendCheckClient \/ SendCheckRun \/ SendCheckSuspend

\* The sender suspends itself: no client, or the window is finished.
SendPark ==
  /\ pc["Send"] \in {"unserved", "park"}
  /\ bSuspend' = [bSuspend EXCEPT !["Send"] = TRUE]
  /\ Goto("Send", IF pc["Send"] = "unserved" THEN "running" ELSE "test")
  /\ UNCHANGED <<kind, ctl, bRun, bRenew, client, cmd, config, window,
                 bStart, packet, pts, missed>>

\* Config.bChanged, which the camera's signal may have set at any time: when the
\* codec the camera reports is another one than before, a restart packet is sent
\* instead of a frame; else the round goes on.
FmspServerCameraSignalCb == BOOLEAN

SendRestart ==
  /\ pc["Send"] = "frame"
  /\ \E bChanged \in FmspServerCameraSignalCb :
       /\ packet' = IF bChanged THEN Restart ELSE packet
       /\ Goto("Send", IF bChanged THEN "send" ELSE "receive")
  /\ UNCHANGED <<kind, ctl, bRun, bSuspend, bRenew, client, cmd, config,
                 window, bStart, pts, missed>>

\* A frame from the media service.  Packets that are neither video nor audio
\* fail for playback; they reach the live sender with the time 0 of its memset.
OryxStreamingGetFrame(f) ==
  kind = "Playback" /\ f.type # "other"

OryxStreamingGetLiveFrame(f) ==
  kind = "Liveview" /\ (f.type = "other" => f.pts = 0)

\* The media service delivers the video frames of a link in their order of time;
\* nothing is assumed of the times of audio packets.
ReceiveFrame(f) ==
  /\ f.type = "video" => f.pts >= pts
  /\ pts' = IF f.type = "video" THEN f.pts ELSE pts

\* Streaming starts with the first video frame at or after the target.
StartsWith(f) == bStart \/ (f.type = "video" /\ f.pts >= window.target)

\* receive( ..., -1 ) waits for a packet without a limit.
SendGetFrame ==
  /\ pc["Send"] = "receive"
  /\ \/ /\ Goto("Send", "test")
        /\ UNCHANGED <<packet, pts, bStart>>
     \/ \E f \in Frames :
          /\ OryxStreamingGetFrame(f) \/ OryxStreamingGetLiveFrame(f)
          /\ ReceiveFrame(f)
          /\ bStart' = StartsWith(f)
          /\ packet' = IF StartsWith(f) THEN f ELSE NoFrame
          /\ Goto("Send", IF StartsWith(f) THEN "send" ELSE "test")
  /\ UNCHANGED <<kind, ctl, bRun, bSuspend, bRenew, client, cmd, config,
                 window, missed>>

Finished ==
  packet # Restart /\ 0 <= window.arrival /\ window.arrival <= packet.pts

SendFrame ==
  /\ pc["Send"] = "send"
  /\ Goto("Send", IF client /\ ~bSuspend["Send"] THEN "sending" ELSE "sent")
  /\ UNCHANGED <<kind, ctl, bRun, bSuspend, bRenew, client, cmd, config,
                 window, bStart, packet, pts, missed>>

\* send() of a blocking socket returns when the client has made room.
SendReturns ==
  /\ pc["Send"] = "sending"
  /\ Goto("Send", "sent")
  /\ UNCHANGED <<kind, ctl, bRun, bSuspend, bRenew, client, cmd, config,
                 window, bStart, packet, pts, missed>>

SendFinish ==
  /\ pc["Send"] = "sent"
  /\ Goto("Send", IF Finished THEN "park" ELSE "test")
  /\ packet' = NoFrame
  /\ UNCHANGED <<kind, ctl, bRun, bSuspend, bRenew, client, cmd, config,
                 window, bStart, pts, missed>>

\* Everything the sender does between two calls that may block.
SendSteps ==
  \/ SendWoken \/ SendTestRenew \/ SendRenew \/ SendReadArrival \/ SendReadTarget
  \/ SendCheck \/ SendPark \/ SendRestart \/ SendFrame \/ SendFinish

SendLoop == SendSteps \/ SendGetFrame \/ SendReturns

----------------------------------------------------------------------------
Init ==
  /\ kind \in Kinds
  /\ ctl = "socket"
  /\ pc = [t \in Threads |-> "absent"]
  /\ bRun = [t \in Threads |-> FALSE]
  /\ bSuspend = [t \in Threads |-> t # "Main"]
  /\ bRenew = FALSE
  /\ client = FALSE
  /\ cmd = "Other"
  /\ config = NoWindow
  /\ window = NoWindow
  /\ bStart = FALSE
  /\ packet = NoFrame
  /\ pts = 0
  /\ missed = {}

ThreadStep(t) ==
  \/ ThreadStart(t)
  \/ LoopTest(t)
  \/ SuspendTest(t)
  \/ Suspend(t)
  \/ t = "Main" /\ MainLoop
  \/ t = "Recv" /\ RecvLoop
  \/ t = "Send" /\ SendLoop

Owner == SocketCreate \/ FmspServerConstruct \/ LoopEnds \/ FmspServerDestruct

Next ==
  \/ Owner
  \/ \E t \in Threads : ThreadStep(t) \/ SpuriousWakeup(t)

\* A thread that can run is scheduled, and select has a time-out.  A recv of a
\* silent client, a receive from a camera that delivers nothing, a send to a
\* client that does not read, a spurious wake-up and the end of the D-Bus loop
\* are not owed to anyone.
Fairness ==
  /\ WF_vars(FmspServerDestruct)
  /\ \A t \in Threads :
       WF_vars(ThreadStart(t) \/ LoopTest(t) \/ SuspendTest(t) \/ Suspend(t))
  /\ WF_vars(MainLoop)
  /\ WF_vars(RecvSteps)
  /\ WF_vars(SendSteps)

Spec == Init /\ [][Next]_vars /\ Fairness

----------------------------------------------------------------------------
\* The type of every variable.
PointTypes  == ctl \in ControlPoints /\ pc \in [Threads -> Locations]
FlagTypes   == bRun \in [Threads -> BOOLEAN] /\ bSuspend \in [Threads -> BOOLEAN]
MissedType  == missed \in SUBSET Threads
SharedTypes == /\ kind \in Kinds
               /\ {bRenew, client, bStart} \subseteq BOOLEAN
               /\ cmd \in Commands
WindowTypes == /\ config \in [target: Nat, arrival: Int]
               /\ window \in [target: Nat, arrival: Int]
               /\ packet \in Frames \cup {NoFrame, Restart}
               /\ pts \in 0..MaxPts

TypeOK == PointTypes /\ FlagTypes /\ MissedType /\ SharedTypes /\ WindowTypes

\* Someone has cleared bSuspend of thread t and is about to signal it.
SignalPending(t) ==
  \/ t = "Recv" /\ (pc["Main"] = "signal" \/ ctl = "sRecv")
  \/ t = "Send" /\ (pc["Recv"] = "signal" \/ ctl = "sSend")

\* Whoever clears the bSuspend of a thread also signals it: a thread that sleeps,
\* or is about to, with its bSuspend cleared is going to be signalled, or has been
\* signalled when it was not waiting yet.  Main never sleeps.  (This does not say
\* that a wake-up arrives: one that falls between the test of bSuspend and the
\* wait is lost, and so is one whose cleared bSuspend is set again, by
\* RecvNoClient, ThreadStart, ResetSuspends or SendPark, before it is read.
\* AcceptedClientIsHeard is the claim about arrival.)
SleepersAreSignalled ==
  /\ pc["Main"] \notin {"flag", "toWait", "wait"}
  /\ \A t \in Threads :
       pc[t] \in {"toWait", "wait"} /\ ~bSuspend[t] => SignalPending(t) \/ t \in missed

\* The types, and no bSuspend of a sleeping thread is cleared without a signal.
WakeUpInv == TypeOK /\ SleepersAreSignalled

\* Construct has not created the threads yet that it is still to create.
NotYetCreated ==
  /\ ctl \in {"socket", "cMain"} => pc["Main"] = "absent"
  /\ ctl \in {"socket", "cMain", "cRecv"} => pc["Recv"] = "absent"
  /\ ctl \in {"socket", "cMain", "cRecv", "cSend"} => pc["Send"] = "absent"

\* A thread that runs is marked with bRun until Destruct asks it to stop, from
\* where Destruct goes on to wait for it, and none runs behind its join.
RunsUntilJoined(t, stopping, behind) ==
  pc[t] \notin {"absent", "done"} =>
    /\ ctl \notin behind
    /\ bRun[t] \/ ctl \in stopping

BehindMain == {"done"}
BehindRecv == {"dMain", "fMain", "sMain", "jMain", "done"}
BehindSend == {"dRecv", "fRecv", "sRecv", "jRecv"} \cup BehindRecv

Destruction ==
  /\ RunsUntilJoined("Send", {"fSend", "sSend", "jSend"}, BehindSend)
  /\ RunsUntilJoined("Recv", {"fRecv", "sRecv", "jRecv"}, BehindRecv)
  /\ RunsUntilJoined("Main", {"fMain", "sMain", "jMain"}, BehindMain)

\* Video frames never go back in time, so that having started means to be past
\* the target.
Streaming ==
  /\ bStart => pts >= window.target
  /\ pc["Send"] \in {"send", "sending"} /\ packet.type = "video"
       => packet.pts >= window.target

\* Inductive.
ServerInv == WakeUpInv /\ NotYetCreated /\ Destruction /\ Streaming

\* When FmspServerDestruct returns, and FmspServerDestroy zeroes the structure,
\* no thread of the server runs, whatever part of Construct had failed.
NothingRunsAfterDestruct ==
  ctl = "done" => \A t \in Threads : pc[t] \in {"absent", "done"}

\* No video frame older than the target the sender has loaded is sent, however
\* resets, reloads and wake-ups interleave: every reload starts over.  (The window
\* loaded may be older than the one configured, and other packets go out with the
\* time 0; both are outside this property.)
NoVideoBeforeLoadedTarget ==
  pc["Send"] = "sending" /\ packet.type = "video" => packet.pts >= window.target

\* A wake-up that finds its thread waiting is served: the receiver reads from the
\* new client, the sender comes to stream, unless meanwhile the client goes, the
\* sender is suspended again or the server stops.
WakeUpsAreServed ==
  /\ (pc["Main"] = "signal" /\ pc["Recv"] = "wait" /\ client)
       ~> (pc["Recv"] = "recving" \/ ~client)
  /\ (pc["Recv"] = "signal" /\ pc["Send"] = "wait" /\ client)
       ~> (pc["Send"] = "frame" \/ ~client \/ bSuspend["Send"] \/ ~bRun["Send"])

\* Destruct gets past the Main thread once that thread is in its loop: select has
\* a time-out and the loop tests bRun behind it.
MainIsJoined == (ctl = "dMain" /\ pc["Main"] # "start") ~> (ctl = "done")

----------------------------------------------------------------------------
(* What comments of the code claim and the code does not keep: each has a   *)
(* configuration of its own, in which TLC refutes it.                       *)

\* "Create Server Main Thread Loop For Receive Client Command Interface"
\* (FmspServer.c:375): once a client is accepted and the receiver is told, the
\* receiver comes to read its commands, or the client goes or the server stops.
AcceptedClientIsHeard ==
  (pc["Main"] = "signal" /\ bRun["Recv"])
    ~> (pc["Recv"] = "recving" \/ ~client \/ ~bRun["Recv"])

\* "Disable Receive Playback Command From Client" (FmspServer.c:414): Destruct
\* gets the receiver to stop.
ReceiverIsDisabled == (ctl = "dRecv") ~> (pc["Recv"] \in {"absent", "done"})

\* "Close Playback Connection Interface" (FmspServer.c:426): the last part of
\* Destruct stops the Main thread and returns.
ConnectionIsClosed == (ctl = "dMain") ~> (ctl = "done")

=============================================================================
