-------------------------- MODULE ProducerPrograms --------------------------
(***************************************************************************)
(* The programs of the repository that drive the producer: the five        *)
(* samples, the KVS service (kvsservice/) and the service of               *)
(* MediaStreamProvider.  All of them create the same objects in the same   *)
(* order, put frames until a stop time and free the objects again; they    *)
(* differ in who does what and in what happens when a step fails.          *)
(*                                                                         *)
(* A program is a script, a sequence of steps: todo[a] is what actor a has *)
(* still to do.  "main" is the main function of a sample and the method    *)
(* thread of a service, whose scripts come from the D-Bus commands it      *)
(* takes off its method queue; "video" and "audio" are the sending threads. *)
(***************************************************************************)
EXTENDS Integers, Sequences, FiniteSets, InfoProviders

CONSTANTS MaxCommands,      \* D-Bus calls the services get
          StorageSizes, Bitrates   \* values of DEFAULT_STORAGE_SIZE and
                                   \* RECORDED_FRAME_AVG_BITRATE_BIT_PS

ASSUME ProgramsAssumption ==
  /\ MaxCommands \in Nat
  /\ StorageSizes \subseteq Nat \ {0}
  /\ Bitrates \subseteq Nat \ {0}

VARIABLES
  program,     \* which of the programs this is
  todo,        \* the steps every actor has left
  ptr,         \* session whose object each pointer or handle of the program holds
  alive,       \* objects that exist: <<resource, session>>
  session,     \* how often the objects were created
  streamHandle,   \* the sending threads' copy of the stream handle
  expired,     \* GETTIME() has passed the stop time
  gIsFirstVideoFramePut, firstFrame, gEventsEnabled,
  videoPut,    \* history: what the video puts of this session returned
  media,       \* [storage, bitrate, info] the stream info was made from
  ready, mQueue,   \* services: registered on the bus, the method queue
  accepted, handled   \* services: commands taken from the bus, handled

vars == <<program, todo, ptr, alive, session, streamHandle, expired,
          gIsFirstVideoFramePut, firstFrame, gEventsEnabled, videoPut, media,
          ready, mQueue, accepted, handled>>

Services == {"KvsService", "MediaProvider"}
Samples  == {"AudioVideo", "AudioVideoNew", "AudioOnly", "VideoRealtime", "VideoOffline"}
Programs == Samples \cup Services

\* CHK_STATUS around every step, or return values that nobody looks at.
Checked == Samples \ {"AudioVideoNew"}

\* setStreamInfoBasedOnStorageSize is called behind the stream info's creation.
SizedByStorage == {"VideoRealtime", "VideoOffline", "MediaProvider"}

Actors    == {"main", "video", "audio"}
Resources == {"device", "streamInfo", "callbacks", "streamCallbacks", "client", "stream"}
NoMedia   == [storage |-> 0, bitrate |-> 0, info |-> NoInfo]

Step(do, what) == [do |-> do, what |-> what]
Create(r)      == Step("create", r)
Free(r)        == Step("free", r)
Load           == Step("load", "none")
Stop           == Step("stop", "none")
Frames         == Step("frames", "none")
Put            == Step("put", "none")
Mark           == Step("mark", "none")

----------------------------------------------------------------------------
(* The scripts.                                                             *)

Creates == <<Create("device"), Create("streamInfo"), Create("callbacks"),
             Create("streamCallbacks"), Create("client"), Create("stream")>>

MediaCreates == Creates      \* in the sending thread, not in the method thread

Join(t) == Step("join", t)

\* Start of a session: the stop time, the flag, the threads.
Start   == Step("start", "none")

CleanUp == <<Free("device"), Free("streamInfo"), Free("stream"), Free("client"),
             Free("callbacks")>>

Deinit  == <<Stop>> \o CleanUp      \* KvsProducer::Deinit

KVSProducer_Deinit == Deinit

TearDown == <<Stop, Free("stream"), Free("client")>> \o CleanUp

AudioVideoMainUnjoined ==      \* mutant: the audio thread is not joined
  <<Load>> \o Creates \o <<Start, Join("video")>> \o TearDown

AudioVideoMain ==
  <<Load>> \o Creates \o <<Start, Join("video"), Join("audio")>> \o TearDown

AudioVideoNewMain ==
  <<Load>> \o Creates \o <<Start, Join("video"), Join("audio")>>
    \o KVSProducer_Deinit

AudioOnlyMain ==
  <<Load>> \o Creates \o <<Start, Join("audio")>> \o TearDown

VideoRealtimeMain == Creates \o <<Frames>> \o TearDown

VideoOfflineMain == Creates \o <<Start, Frames>> \o TearDown

KvsPlayerStart == Creates \o <<Start, Join("video"), Join("audio")>>

KvsPlayerStop == Deinit

\* HandleAsyncMethod of the two services; MediaProvider's cmd2 does nothing.
HandleAsyncMethod(method) ==
  IF method = "cmd1" THEN KvsPlayerStart ELSE KvsPlayerStop

HandleAsyncMethodJames(method) ==
  IF method = "cmd1" THEN <<Start>> ELSE << >>

\* What main does from the start; the services wait for commands.
Script == [AudioVideo    |-> AudioVideoMain,
           AudioVideoNew |-> AudioVideoNewMain,
           AudioOnly     |-> AudioOnlyMain,
           VideoRealtime |-> VideoRealtimeMain,
           VideoOffline  |-> VideoOfflineMain,
           KvsService    |-> << >>,
           MediaProvider |-> << >>]

\* The sending threads a session starts.
SendingThreads ==
  [AudioVideo    |-> {"video", "audio"},
   AudioVideoNew |-> {"video", "audio"},
   AudioOnly     |-> {"audio"},
   VideoRealtime |-> {},
   VideoOffline  |-> {},
   KvsService    |-> {"video", "audio"},
   MediaProvider |-> {"video"}][program]

ThreadScript(t) ==
  IF program = "MediaProvider" THEN MediaCreates \o <<Frames>> ELSE <<Frames>>

At(a, do) == todo[a] # << >> /\ Head(todo[a]).do = do

Advance(a) == todo' = [todo EXCEPT ![a] = Tail(@)]

\* CHK_STATUS fails: to the CleanUp label.
Abort(a) == todo' = [todo EXCEPT ![a] = CleanUp]

Failed(a) == IF program \in Checked THEN Abort(a) ELSE Advance(a)

----------------------------------------------------------------------------
(* Setting up.                                                              *)

\* The frame files are read; a sample that checks gives up when one is missing.
LoadFrames ==
  /\ At("main", "load")
  /\ Advance("main") \/ Failed("main")
  /\ UNCHANGED <<program, ptr, alive, session, streamHandle, expired,
                 gIsFirstVideoFramePut, firstFrame, gEventsEnabled, videoPut,
                 media, ready, mQueue, accepted, handled>>

CreateDeviceInfo(a) ==
  /\ Head(todo[a]) = Create("device")
  /\ session' = session + 1
  /\ ptr' = [ptr EXCEPT !["device"] = session + 1]
  /\ alive' = alive \cup {<<"device", session + 1>>}
  /\ Advance(a)
  /\ UNCHANGED media

\* The stream info: two tracks, or one that is sized by the storage.
StreamInfo(storage, bitrate) ==
  LET video == createVideoStreamInfo(
                 IF program = "VideoRealtime" THEN "realtime" ELSE "offline", 1, 120 * Second)
  IN  IF program \in SizedByStorage
        THEN setStreamInfoBasedOnStorageSize(storage, bitrate, 1, video)
      ELSE IF program = "AudioOnly"
        THEN createAudioStreamInfo("realtime", 1, 120 * Second)
        ELSE createAudioVideoStreamInfo("realtime", 1, 120 * Second)

CreateStreamInfoProvider(a) ==
  /\ Head(todo[a]) = Create("streamInfo")
  /\ \E storage \in StorageSizes, bitrate \in Bitrates :
       media' = [storage |-> storage, bitrate |-> bitrate,
                 info |-> StreamInfo(storage, bitrate)]
  /\ ptr' = [ptr EXCEPT !["streamInfo"] = session]
  /\ alive' = alive \cup {<<"streamInfo", session>>}
  /\ Advance(a)
  /\ UNCHANGED session

\* What an object is made from; PIC and the providers refuse a missing one.
MadeFrom == {<<"client", "callbacks">>, <<"stream", "client">>}
Needs(r) == {n \in Resources : <<r, n>> \in MadeFrom}

\* The callbacks provider, the client and the stream: each asks the cloud, the
\* credential endpoint or the file system and may fail; then it is not held.
CreateProducer(a, r) ==
  /\ Head(todo[a]) = Create(r)
  /\ \/ /\ \A n \in Needs(r) : ptr[n] # 0
        /\ ptr' = [ptr EXCEPT ![r] = session]
        /\ alive' = alive \cup {<<r, session>>}
        /\ Advance(a)
     \/ /\ ptr' = [ptr EXCEPT ![r] = 0]
        /\ Failed(a)
        /\ UNCHANGED alive
  /\ media' = IF r = "stream" THEN NoMedia ELSE media      \* PIC has copied it
  /\ UNCHANGED session

\* createStreamCallbacks and addStreamCallbacks: without a callbacks provider
\* nobody owns them.
CreateStreamCallbacks(a) ==
  /\ Head(todo[a]) = Create("streamCallbacks")
  /\ alive' = alive \cup {<<"streamCallbacks", session>>}
  /\ ptr' = [ptr EXCEPT !["streamCallbacks"] = session]
  /\ Advance(a)
  /\ UNCHANGED <<session, media>>

CreateObject ==
  \E a \in Actors :
    /\ At(a, "create")
    /\ \/ CreateDeviceInfo(a)
       \/ CreateStreamInfoProvider(a)
       \/ \E r \in {"callbacks", "client", "stream"} : CreateProducer(a, r)
       \/ CreateStreamCallbacks(a)
    /\ UNCHANGED <<program, streamHandle, expired, gIsFirstVideoFramePut, firstFrame,
                   gEventsEnabled, videoPut, ready, mQueue, accepted, handled>>

----------------------------------------------------------------------------
(* Streaming.                                                               *)

StartSessionFlagKept ==      \* mutant: the flag of the last session survives
  /\ At("main", "start")
  /\ todo' = [a \in Actors |-> IF a = "main" THEN Tail(todo[a])
                               ELSE IF a \in SendingThreads THEN ThreadScript(a)
                               ELSE << >>]
  /\ streamHandle' = ptr["stream"]
  /\ expired' = IF program \in Services \cup {"VideoOffline"} THEN FALSE ELSE expired
  /\ firstFrame' = TRUE
  /\ videoPut' = {}
  /\ UNCHANGED <<program, ptr, alive, session, gIsFirstVideoFramePut, gEventsEnabled,
                 media, ready, mQueue, accepted, handled>>

\* The samples took their stop time before they set up; the services take it now.
StartSession ==
  /\ At("main", "start")
  /\ todo' = [a \in Actors |-> IF a = "main" THEN Tail(todo[a])
                               ELSE IF a \in SendingThreads THEN ThreadScript(a)
                               ELSE << >>]
  /\ streamHandle' = ptr["stream"]
  /\ expired' = IF program \in Services \cup {"VideoOffline"} THEN FALSE ELSE expired
  /\ gIsFirstVideoFramePut' = FALSE
  /\ firstFrame' = TRUE
  /\ videoPut' = {}
  /\ UNCHANGED <<program, ptr, alive, session, gEventsEnabled, media, ready, mQueue,
                 accepted, handled>>

Expire ==
  /\ ~expired
  /\ expired' = TRUE
  /\ UNCHANGED <<program, todo, ptr, alive, session, streamHandle,
                 gIsFirstVideoFramePut, firstFrame, gEventsEnabled, videoPut,
                 media, ready, mQueue, accepted, handled>>

\* no audio can be put until first video frame is put
AudioMayPut == program = "AudioOnly" \/ gIsFirstVideoFramePut

AudioFramesUntilVideo ==      \* mutant: the wait for the first video frame has no stop time
  /\ At("audio", "frames")
  /\ AudioMayPut
  /\ todo' = [todo EXCEPT !["audio"] = IF expired THEN Tail(@) ELSE <<Put>> \o @]
  /\ UNCHANGED <<program, ptr, alive, session, streamHandle, expired,
                 gIsFirstVideoFramePut, firstFrame, gEventsEnabled, videoPut,
                 media, ready, mQueue, accepted, handled>>

\* The audio thread's loop spins, without a sleep, until it may put.
AudioFrames ==
  /\ At("audio", "frames")
  /\ expired \/ AudioMayPut
  /\ todo' = [todo EXCEPT !["audio"] = IF expired THEN Tail(@) ELSE <<Put>> \o @]
  /\ UNCHANGED <<program, ptr, alive, session, streamHandle, expired,
                 gIsFirstVideoFramePut, firstFrame, gEventsEnabled, videoPut,
                 media, ready, mQueue, accepted, handled>>

\* The video loop, of a thread or of main; readFrameData may fail in main's.
VideoFrames(a) ==
  /\ a # "audio"
  /\ At(a, "frames")
  /\ IF expired
       THEN Advance(a)
       ELSE \/ todo' = [todo EXCEPT ![a] = <<Put>> \o @]
            \/ a = "main" /\ Abort(a)
  /\ UNCHANGED <<program, ptr, alive, session, streamHandle, expired,
                 gIsFirstVideoFramePut, firstFrame, gEventsEnabled, videoPut,
                 media, ready, mQueue, accepted, handled>>

\* The samples' threads use the handle they were started with, the services and
\* main's own loop the one that the program holds now.
Handle == IF program \in {"AudioVideo", "AudioVideoNew", "AudioOnly"}
            THEN streamHandle ELSE ptr["stream"]

\* putKinesisVideoFrame refuses an invalid handle and may refuse any frame.
PutResults == IF Handle = 0 THEN {"failed"} ELSE {"ok", "failed"}

PutAudio ==
  /\ At("audio", "put")
  /\ Advance("audio")
  /\ UNCHANGED <<program, ptr, alive, session, streamHandle, expired,
                 gIsFirstVideoFramePut, firstFrame, gEventsEnabled, videoPut,
                 media, ready, mQueue, accepted, handled>>

\* The service reports the start-up latency by way of the flag itself, and so
\* takes the flag away from the audio thread for a moment.
FlagAfterPut == IF program = "KvsService" THEN FALSE ELSE gIsFirstVideoFramePut

\* Which result lets the video thread set the flag: every one, but in the new
\* sample.
MarksAfter(result) == program = "AudioVideoNew" => result = "ok"

NextAfterPut(a, result) ==
  IF a = "main" \/ program = "MediaProvider" \/ ~MarksAfter(result)
    THEN Tail(todo[a])
    ELSE <<Mark>> \o Tail(todo[a])

\* The first frame reports the start-up latency; a later key frame sends the
\* one event the user asked for.
Events == IF firstFrame THEN {gEventsEnabled} ELSE {gEventsEnabled, FALSE}

PutVideo(a) ==
  /\ a # "audio"
  /\ At(a, "put")
  /\ \E result \in PutResults :
       /\ videoPut' = videoPut \cup {result}
       /\ todo' = [todo EXCEPT ![a] = IF a = "main" /\ result = "failed"
                                        THEN CleanUp ELSE NextAfterPut(a, result)]
  /\ gIsFirstVideoFramePut' = FlagAfterPut
  /\ firstFrame' = FALSE
  /\ gEventsEnabled' \in Events
  /\ UNCHANGED <<program, ptr, alive, session, streamHandle, expired, media, ready,
                 mQueue, accepted, handled>>

MarkFirstVideoFrame ==
  /\ At("video", "mark")
  /\ gIsFirstVideoFramePut' = TRUE
  /\ Advance("video")
  /\ UNCHANGED <<program, ptr, alive, session, streamHandle, expired, firstFrame,
                 gEventsEnabled, videoPut, media, ready, mQueue, accepted, handled>>

\* THREAD_JOIN: the thread has returned.
JoinThread ==
  /\ At("main", "join")
  /\ todo[Head(todo["main"]).what] = << >>
  /\ Advance("main")
  /\ UNCHANGED <<program, ptr, alive, session, streamHandle, expired,
                 gIsFirstVideoFramePut, firstFrame, gEventsEnabled, videoPut,
                 media, ready, mQueue, accepted, handled>>

----------------------------------------------------------------------------
(* Tearing down.                                                            *)

StopStream ==
  /\ At("main", "stop")
  /\ (Handle # 0 /\ Advance("main")) \/ Failed("main")
  /\ UNCHANGED <<program, ptr, alive, session, streamHandle, expired,
                 gIsFirstVideoFramePut, firstFrame, gEventsEnabled, videoPut,
                 media, ready, mQueue, accepted, handled>>

FreedWithoutChain(r) == {<<r, ptr[r]>>}      \* mutant: the chain is not freed

\* The callbacks provider frees the stream callbacks that were added to it.
FreedWith(r) ==
  {<<r, ptr[r]>>} \cup (IF r = "callbacks" THEN {<<"streamCallbacks", ptr[r]>>} ELSE {})

\* Every free function accepts a pointer that is NULL and clears one that is not.
FreeObject ==
  /\ At("main", "free")
  /\ LET r == Head(todo["main"]).what
     IN  /\ alive' = alive \ FreedWith(r)
         /\ ptr' = [ptr EXCEPT ![r] = 0]
  /\ Advance("main")
  /\ UNCHANGED <<program, session, streamHandle, expired, gIsFirstVideoFramePut,
                 firstFrame, gEventsEnabled, videoPut, media, ready, mQueue,
                 accepted, handled>>

----------------------------------------------------------------------------
(* The D-Bus side of the services.                                          *)

\* The name is on the bus and the object registered on it.
RegisterObject(p) ==
  /\ program = p /\ ~ready
  /\ ready' = TRUE
  /\ UNCHANGED <<program, todo, ptr, alive, session, streamHandle, expired,
                 gIsFirstVideoFramePut, firstFrame, gEventsEnabled, videoPut,
                 media, mQueue, accepted, handled>>

on_bus_acquired == RegisterObject("KvsService")
on_bus_acquiredJames == RegisterObject("MediaProvider")

Enqueue(method) == mQueue' = Append(mQueue, method)

\* cmd1 and cmd2 of the service are put into its queue.
MethodCall(p, methods) ==
  /\ program = p /\ ready
  /\ Len(accepted) < MaxCommands
  /\ \E method \in methods :
       /\ Enqueue(method)
       /\ accepted' = Append(accepted, method)
  /\ UNCHANGED <<program, todo, ptr, alive, session, streamHandle, expired,
                 gIsFirstVideoFramePut, firstFrame, gEventsEnabled, videoPut,
                 media, ready, handled>>

handle_method_call == MethodCall("KvsService", {"cmd1", "cmd2"})

\* A second cmd1 of MediaProvider would start a second thread on the same
\* globals without any synchronisation: it is left out.
handle_method_callJames ==
  MethodCall("MediaProvider",
             {"cmd2"} \cup (IF \E i \in 1..Len(accepted) : accepted[i] = "cmd1"
                             THEN {} ELSE {"cmd1"}))

Dequeue == [method |-> Head(mQueue), rest |-> Tail(mQueue)]

methodThread ==
  /\ program \in Services
  /\ todo["main"] = << >>
  /\ mQueue # << >>
  /\ todo' = [todo EXCEPT !["main"] = IF program = "KvsService"
                                        THEN HandleAsyncMethod(Dequeue.method)
                                        ELSE HandleAsyncMethodJames(Dequeue.method)]
  /\ mQueue' = Dequeue.rest
  /\ handled' = Append(handled, Dequeue.method)
  /\ UNCHANGED <<program, ptr, alive, session, streamHandle, expired,
                 gIsFirstVideoFramePut, firstFrame, gEventsEnabled, videoPut,
                 media, ready, accepted>>

----------------------------------------------------------------------------
Init ==
  /\ program \in Programs
  /\ todo = [a \in Actors |-> IF a = "main" THEN Script[program] ELSE << >>]
  /\ ptr = [r \in Resources |-> 0]
  /\ alive = {}
  /\ session = 0
  /\ streamHandle = 0
  /\ expired = FALSE
  /\ gIsFirstVideoFramePut = FALSE
  /\ firstFrame = TRUE
  /\ gEventsEnabled \in {FALSE, program = "AudioVideo"}
  /\ videoPut = {}
  /\ media = NoMedia
  /\ ready = FALSE
  /\ mQueue = << >>
  /\ accepted = << >>
  /\ handled = << >>

MainStep  == \/ LoadFrames \/ StartSession \/ JoinThread \/ StopStream \/ FreeObject
             \/ methodThread \/ VideoFrames("main") \/ PutVideo("main")
VideoStep == VideoFrames("video") \/ PutVideo("video") \/ MarkFirstVideoFrame
AudioStep == AudioFrames \/ PutAudio

Next == \/ MainStep \/ VideoStep \/ AudioStep \/ CreateObject \/ Expire
        \/ on_bus_acquired \/ on_bus_acquiredJames
        \/ handle_method_call \/ handle_method_callJames

\* Threads run; time passes the stop time of every session.
Spec == /\ Init /\ [][Next]_vars
        /\ WF_vars(MainStep) /\ WF_vars(VideoStep) /\ WF_vars(AudioStep)
        /\ WF_vars(CreateObject) /\ WF_vars(Expire)

----------------------------------------------------------------------------
TypeOK ==
  /\ program \in Programs
  /\ ptr \in [Resources -> 0..MaxCommands + 1]
  /\ alive \subseteq Resources \X (1..MaxCommands + 1)
  /\ {expired, gIsFirstVideoFramePut, firstFrame, gEventsEnabled, ready} \subseteq BOOLEAN
  /\ videoPut \subseteq {"ok", "failed"}

Ended == todo["main"] = << >> /\ program \in Samples

(***************************************************************************)
(* Objects live long enough: a stream only while its client does, a client *)
(* only while its callbacks provider does, and no thread is about to put a *)
(* frame to a stream that was freed.  The samples free in one order on the *)
(* way out and in another under CleanUp, after any step may have failed;   *)
(* the services start again without having stopped.                        *)
(***************************************************************************)
LifetimesNest ==
  /\ \A s \in 1..session :
       /\ <<"stream", s>> \in alive => <<"client", s>> \in alive
       /\ <<"client", s>> \in alive => <<"callbacks", s>> \in alive
  /\ \A a \in Actors : At(a, "put") /\ Handle # 0 => <<"stream", Handle>> \in alive

(***************************************************************************)
(* Whatever failed, a sample that ends has freed what it created; the new  *)
(* sample, which goes on after a failure, may leave stream callbacks that  *)
(* no callbacks provider took.  A service's command leaves nothing behind  *)
(* that its pointers do not reach unless cmd1 came twice without a cmd2.   *)
(***************************************************************************)
NothingLost ==
  /\ Ended => \A x \in alive : x[1] = "streamCallbacks" /\ program \notin Checked
  /\ program = "KvsService" /\ todo["main"] = << >> =>
       \A x \in alive :
         \/ ptr[x[1]] = x[2]
         \/ x[1] = "streamCallbacks"
         \/ \E i \in 1..Len(handled) - 1 : handled[i] = "cmd1" /\ handled[i + 1] = "cmd1"

(***************************************************************************)
(* An audio frame is put only after this session's video thread came back  *)
(* from a put of its own, taken or refused, and in the new sample, the one *)
(* that looks at the result, only after one was taken.  In the service the *)
(* flag is a static that outlives the session, and is taken back for a     *)
(* moment with every video frame.                                          *)
(***************************************************************************)
AudioAfterVideoTried ==
  At("audio", "put") /\ program # "AudioOnly" =>
    /\ videoPut # {}
    /\ program = "AudioVideoNew" => "ok" \in videoPut

(***************************************************************************)
(* "no audio can be put until first video frame is put": what the comment  *)
(* in every audio thread says of the flag.  The threads of the sample and  *)
(* of the service set the flag whatever the put returned, so that audio    *)
(* goes out although the first video frame was refused.                    *)
(***************************************************************************)
AudioAfterFirstVideoFrame ==
  At("audio", "put") /\ program # "AudioOnly" => "ok" \in videoPut

\* The buffer a stream is created with fits the storage it was sized by
\* (setStreamInfoBasedOnStorageSize): bytes against bits per second, rounded to seconds.
SizedBufferFits ==
  media # NoMedia /\ program \in SizedByStorage =>
    FitsStorage(media.storage, media.bitrate, 1, media.info)

(***************************************************************************)
(* A sample comes to its end and a service handles every command it        *)
(* accepted, although handling cmd1 blocks the method thread for as long   *)
(* as the session streams: no step waits for something that does not come. *)
(***************************************************************************)
ProgramsProceed ==
  /\ program \in Samples ~> Ended
  /\ \A n \in 1..MaxCommands : Len(accepted) >= n ~> Len(handled) >= n

----------------------------------------------------------------------------
(* Why they hold: an inductive invariant.                                   *)

Left(q)  == {q[i] : i \in DOMAIN q}      \* the steps left in a script
Held     == Resources \ {"streamCallbacks"}      \* freed by a pointer of their own
AllSteps == {Load, Start, Put, Frames, Mark, Stop}
              \cup {Create(r) : r \in Resources} \cup {Free(r) : r \in Held}
              \cup {Join("video"), Join("audio")}

CreateRank == [device |-> 1, streamInfo |-> 2, callbacks |-> 3, streamCallbacks |-> 4,
               client |-> 5, stream |-> 6]
StepRank   == [load |-> 0, start |-> 7, mark |-> 8, put |-> 8, frames |-> 9, join |-> 10,
               stop |-> 11, free |-> 12]
Rank(x)    == IF x.do = "create" THEN CreateRank[x.what] ELSE StepRank[x.do]

\* A script creates in one order, starts, streams, joins, stops and frees.
InOrder(q) ==
  \A i, j \in DOMAIN q : i < j =>
    Rank(q[i]) <= Rank(q[j]) /\ (q[i].do = "create" => Rank(q[i]) < Rank(q[j]))

\* Who creates the objects; the programs whose threads have their own copy of
\* the stream handle.
Creator == IF program = "MediaProvider" THEN "video" ELSE "main"
Copying == {"AudioVideo", "AudioVideoNew", "AudioOnly"}

ProgramTypes ==
  /\ program \in Programs
  /\ todo \in [Actors -> Seq(AllSteps)]
  /\ ptr \in [Resources -> Nat]
  /\ session \in Nat
  /\ alive \subseteq Resources \X (1..session)
  /\ handled \in Seq({"cmd1", "cmd2"}) /\ mQueue \in Seq({"cmd1", "cmd2"})
  /\ expired \in BOOLEAN /\ gIsFirstVideoFramePut \in BOOLEAN

\* Where the actors are in their scripts.
Scripts ==
  /\ InOrder(todo["main"]) /\ InOrder(todo[Creator])
  /\ Mark \notin Left(todo["main"])
  /\ program = "MediaProvider" => Left(todo["main"]) \subseteq {Start}
  /\ program \in Copying \cup Services =>
       Left(todo["main"]) \cap {Put, Frames} = {}
  /\ program \in Copying /\ Start \in Left(todo["main"]) =>
       \A t \in SendingThreads : Join(t) \in Left(todo["main"])
  /\ \A t \in {"video", "audio"} :
       /\ Left(todo[t]) \subseteq {Put, Frames, Mark} \cup {Create(r) : r \in Resources}
       /\ t # Creator => \A r \in Resources : Create(r) \notin Left(todo[t])
  /\ \A i \in DOMAIN todo["video"] : i > 1 => todo["video"][i] # Mark
  /\ \A i \in DOMAIN todo["audio"] : i > 1 => todo["audio"][i] # Put

ToCreate(r) == Create(r) \in Left(todo[Creator])

\* While a session is set up: what it has created is its own or missing, and
\* what it will create is not there yet.
SettingUp ==
  /\ \A r \in Resources : ToCreate(r) => ToCreate("device") \/ session > 0
  /\ ToCreate("device") => \A r \in Resources : ToCreate(r)
  /\ \A r, n \in Resources : <<r, n>> \in MadeFrom =>
       /\ ToCreate(n) => ToCreate(r)
       /\ ToCreate(r) /\ ~ToCreate(n) => ptr[n] \in {0, session}
       /\ ToCreate(r) /\ ~ToCreate("device") => <<r, session>> \notin alive

\* A pointer of the program points to a live object; an object that the program
\* has lost belongs to a session whose other objects it has lost, too.
Pointers ==
  /\ \A r \in Held : ptr[r] # 0 => <<r, ptr[r]>> \in alive
  /\ \A r, n \in Resources, s \in Nat : <<r, n>> \in MadeFrom /\ <<r, s>> \in alive =>
       <<n, s>> \in alive /\ (ptr[n] = s => ptr[r] = s)

\* What is made from an object is freed before it.
FreesInOrder ==
  \A r, n \in Resources, i \in DOMAIN todo["main"] :
    <<r, n>> \in MadeFrom /\ todo["main"][i] = Free(n) =>
      \/ \E j \in 1..(i - 1) : todo["main"][j] = Free(r)
      \/ ptr[r] = 0 /\ At("main", "free")

\* A sending thread runs only while main waits for it with the handle it has.
Joined ==
  program \in Copying =>
    \A t \in {"video", "audio"} : todo[t] # << >> =>
      /\ Join(t) \in Left(todo["main"])
      /\ \A x \in Left(todo["main"]) : Rank(Start) <= Rank(x)
      /\ streamHandle = ptr["stream"]

StartedTwice == \E i \in 1..Len(handled) - 1 : handled[i] = "cmd1" /\ handled[i + 1] = "cmd1"
Tidy == program \in Samples \/ (program = "KvsService" /\ ~StartedTwice)

\* The program will free what it holds before it ends, or before the next cmd1.
Stopping ==
  program \in Samples \/ (program = "KvsService"
                           /\ (handled = << >> \/ handled[Len(handled)] = "cmd2"))

Ownership ==
  /\ Tidy => /\ \A x \in alive : x[1] \in Held => ptr[x[1]] = x[2]
             /\ \A r \in Held : ToCreate(r) => ptr[r] = 0
  /\ Stopping => \A r \in Held : ptr[r] = 0 \/ Free(r) \in Left(todo["main"])
  /\ program \in Samples /\ todo["main"] # << >> /\ ~At("main", "free") =>
       \A r \in Held : Free(r) \in Left(todo["main"])
  /\ Stopping /\ program = "KvsService" => \A r \in Resources : ~ToCreate(r)
  /\ program \in Checked =>
       /\ \A s \in Nat : <<"streamCallbacks", s>> \in alive => ptr["callbacks"] = s
       /\ ToCreate("streamCallbacks") /\ ~ToCreate("callbacks") => ptr["callbacks"] = session

\* A video frame of this session was tried and, in the new sample, taken.
VideoSeen == videoPut # {} /\ (program = "AudioVideoNew" => "ok" \in videoPut)

FlagInv ==
  gIsFirstVideoFramePut \/ At("video", "mark")
    \/ (At("audio", "put") /\ program # "AudioOnly") => VideoSeen

MediaInv ==
  \/ media = NoMedia
  \/ \E storage \in StorageSizes, bitrate \in Bitrates :
       media = [storage |-> storage, bitrate |-> bitrate, info |-> StreamInfo(storage, bitrate)]

ProgramInv ==
  /\ ProgramTypes /\ Scripts /\ SettingUp /\ Pointers /\ FreesInOrder
  /\ Joined /\ Ownership /\ FlagInv /\ MediaInv
=============================================================================
