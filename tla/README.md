# Kinesis Video Streams producer (C): TLA+ models, checks and proofs

The repository is the C producer library that sits between the Platform
Independent Codebase (PIC, a separate repository that keeps streams, frames and
the client state machine) and the Kinesis Video service. PIC never talks to the
network: it calls *callbacks*, and this library implements them with libcurl,
one detached thread per service call. What is hard here is not the HTTP but the
life of those threads: they own heap objects that other threads search for,
flag, time out and wait for; PIC tears streams down while calls are in flight;
and several small flags and timestamps are shared without a lock.

This directory models that part of the library, the credentials and the signing
that every call needs, and the programs of the repository that run on top of it.
File and line references are to `src/source/` of the repository unless a path is
given.

## 1. Inventory

| Component | State | Operations | Interacts with |
|---|---|---|---|
| **Curl API callbacks** (`CurlApiCallbacks.c`, `Request.c`) | `pActiveRequests` (stream → control-plane request), `pActiveUploads` (PutMedia requests), `pStreamsShuttingDown`, `pCachedEndpoints`, their locks; per request `terminating`, `blockedInCurl`, `startLock` | `createStream`, `describeStream`, `getStreamingEndpoint`, `tagResource`, `putStream` and their handler threads; `shutdownStreamCurl`, `curlApiCallbacksShutdown`; the `...CachingCurl` variants | PIC (result events, `notifyCallResult`), libcurl, the callbacks provider |
| **Upload session** (`Response.c`) | `paused`, `terminated`, `endOfStream`, curl's own pause state | `postReadCallback`, `postWriteCallback`, `notifyDataAvailable`, `terminateCurlSession` | PIC (`getKinesisVideoStreamData`, ACKs), `dataAvailableCurl`, `fragmentAckReceivedCurl`, the shutdowns |
| **Continuous retry** (`ContinuousRetryStreamCallbacks.c`) | table stream → heap record, `resetTid`, `streamReady`, `syncLock` | error, ready, latency, stale, closed callbacks; the reset thread; freeing | PIC (stream reset), the error aggregate of the provider |
| **Latency and stale state machines** (`StreamLatencyStateMachine.c`, `ConnectionStaleStateMachine.c`) | state, `quietTime`, `backToNormalTime` | one handler each | continuous retry, PIC (connection reset) |
| **Callbacks provider** (`CallbacksProvider.c`) | four fixed-size chains, aggregates, platform callbacks | create, add, aggregate walk, set platform callbacks, free | everything above registers here; PIC calls the aggregates |
| **Credentials and auth callbacks** (`*AuthCallbacks.c`, `Common/*CredentialProvider.c`, `Common/Auth.c`) | one cached credentials object with an expiry, no lock | create, get a token, rotate, free | provider, PIC threads of several streams, blocking calls |
| **Blocking service calls** (`Common/Curl/CurlCall.c`, `Common/Lws/LwsCall.c`) | the response buffer, `terminating` | perform, callback cases, service loop | IoT credential provider |
| **Requests and signing** (`Common/RequestInfo.c`, `Common/AwsV4Signer.c`) | header list and its allocations, URL | set and remove headers, sign by header or by query, hand over to curl | all service calls |
| **Info providers** (`DeviceInfoProvider.c`, `StreamInfoProvider.c`), logging stream callbacks, file logger | none after creation | constructors, sizing of storage and buffers | applications, callbacks provider |
| **Media server** (`MediaStreamProvider_cpp/FmspServer.c`, `FmspMain.c`) | three threads per server with flags `bRun`, `bSuspend`, `bRenew` and no lock, client sockets, the window to stream | construct, accept, receive commands, send frames, destruct | camera, clients |
| **Services and samples** (`kvsservice`, `MediaStreamProvider_cpp/player` and `james`, `samples`) | method queue, sending threads, the objects of a session | D-Bus commands, start and stop of a session, put frames, clean up | the library, through its public functions |

What makes each correct:

* request engine: a request that is being inserted or handled belongs to its
  thread, and nobody else frees or unregisters it; a shutdown misses no request,
  leaves none and leaves other streams alone; an accepted call ends and reports, a
  terminated one does not report; the shutdowns return;
* upload session: nobody asleep inside it loses it, a session at rest can be woken,
  a stopped stream drains, a shutdown ends the session;
* continuous retry: the reset thread of a record can be waited for and keeps its
  record, closing never deadlocks with it, no record is lost; callbacks work on live
  memory and no error is dropped without a reset;
* state machines: resets are spaced, and persist while the trouble persists;
* provider: chains stay within their memory, every owned object is freed, once, a
  chain is walked in order and cut at the first failure, an aggregate has the
  function it stands for;
* cache: what PIC is given came from the backend and is recent enough, and no
  emulated answer makes PIC use a stream that does not exist;
* credentials: a token is allocated and still lasts when it is handed out, a
  rotation leaks nothing, and every call for a token returns;
* signing: the receiver, who sorts and encodes by the rules, arrives at what was
  signed; no header is lost or freed while it is listed; what fits is signed;
* media server: a wake-up reaches its thread, the threads end before the structure
  does and `Destruct` returns, no video from before the asked start is sent;
* services and samples: objects outlive what is built on them, nothing is left
  behind whichever step fails, audio waits for video, every program gets on.

Not all of these hold. Where the code breaks one that a comment, a header or an
assertion of the repository claims, the claim is a definition that TLC refutes
(section 5), and the passing runs check what is left of it.

The hard behaviours, line by line, are the `hazards` of `PROJECT.json`.

## 2. Modules

| Module | Models | How |
|---|---|---|
| `CurlApiCallbacks` | the request engine | requests are identities; starter and handler of a request are one program counter `thread[r]`; table locks are variables since a starter holds one across look-up and insertion |
| `StreamQuiesce` | what `shutdownStreamCurl` promises | no threads, flags or locks; refined by `CurlApiCallbacks` |
| `MC_CurlApiCallbacks` | instances for TLC | |
| `UploadSession` | one PutMedia session | the library's flags beside curl's own pause state, four threads |
| `ContinuousRetry` | continuous retry callbacks | heap records with identity, one lock, reset threads |
| `ConnectionHealth` | the two state machines | times as ages since the last timestamp |
| `MC_StreamConnection` | instance of the three modules above for TLC | one of them runs (`part`) |
| `CallbacksProvider` | chains, ownership, aggregates, platform callbacks | a callback structure is object, functions, owned or not |
| `ApiCallCache` | caching variants of the API calls, the exchange with the backend | PIC's stream state machine and the backend as external actors; times as ages |
| `MC_PicCallbacks` | instance of the two modules above for TLC | one of them runs (`part`) |
| `Credentials` | credential providers, auth callbacks, blocking calls | addresses with identity, one program counter per PIC thread, times to live |
| `RequestSigning`, `MC_RequestSigning` | header list and AWS V4 signer | a small alphabet in the order of `STRCMP`; a signature is the canonical request that was hashed |
| `FmspServer`, `MC_FmspServer` | the media server | owner and three threads, condition variables without a predicate |
| `InfoProviders` | device and stream info | operators, used by `ProducerPrograms` |
| `ProducerPrograms` | five samples, two D-Bus services | a program is a script of steps per actor; composes the info providers, stream callbacks and session objects |
| `...Proofs` | theorems | one module per component; `StreamConnectionProofs` has those about the parts of one stream's connection: `UploadSession`, `ContinuousRetry`, `ConnectionHealth` |

Definitions carry the names of the functions they model; `PROJECT.json` maps
each to its lines. Definitions under a comment "Mutant:" are deliberate
mistakes used to show that the properties notice them; no specification uses
them.

### CurlApiCallbacks

`thread[r]` runs through `none → checked → created → waiting → entering → inCurl →
(storeParsed | storeUninitialized) → sampling → removing → notifying → exited`;
`rejected` is a start that failed. `CheckShutdown` takes the table's lock and
looks the stream up in `pStreamsShuttingDown`; `CreateThread` and `Insert` follow as
steps of their own. `PutFails` is the path of a duplicate key (`hashTablePut` refuses
one) or a failed detachment: `THREAD_CANCEL` only asks the thread to end, the request
is freed at once, and the thread is `cancelled` until `CancelTakesEffect`, which
nothing hurries. What a cancelled thread finds in the freed request is undefined and
not followed. A handler tests `terminating` and raises `blockedInCurl` in two steps, as
in `curlCompleteSync`; an upload's body may end by itself (`EndBody`), which a
teardown sees as `terminated`; the handler samples `terminating`, removes and frees
its request, and only then reports.
`shutdownStreamCurl` is a sequence of `stage`s: mark, sweep requests, sweep
uploads, drop the cached endpoint, wait for requests, wait for uploads, unmark.
`curlApiCallbacksShutdown` marks the streams that have requests one at a time
under `shutdownLock`, stops if a stream is marked already, sweeps and waits.
Critical sections that do not call out are single steps; so is
`terminateCurlSession`, whose inside is `UploadSession`'s subject.

### UploadSession

curl's thread (`reader`) is inside at most one callback. `postReadCallback`
asks PIC for data up to `MAX_GET_DATA_ITER` times, and on "no more data" or
"awaiting ACK" sets `paused` and returns a pause, which reaches curl one
step later. `dataAvailableCurl` and `fragmentAckReceivedCurl` hold
`activeUploadsLock` and sleep between clearing `paused` and unpausing curl;
`terminateCurlSession` tests, sleeps and sets the timeout under the same lock.
The sleeps order nothing: `Unpause` may come before the pause it is meant to end has
reached curl. The only synchronisation of the model is the lock.

### ContinuousRetry

A callback takes `syncLock` to find or create its record, releases it and goes
on with the pointer. Nothing orders the callers: a close may free the record another
callback has looked up, and such a callback goes on with a dangling pointer within
the model (it may set `streamReady`, or start a reset on a freed record). The closing
callback reads `resetTid` twice, once to test it and once for the join
(`ReadTidAgain`), and the reset thread may invalidate it in between.

### ConnectionHealth, CallbacksProvider, ApiCallCache

The two machines share a clock that may stand still or go on between callbacks.
The provider is created step by step in any of its six ways, any step may find
its chain full; an aggregate is a walk with one step per callback, which returns
success, stop or an error; the platform callbacks may be replaced at any time
between walks, by the file logger or by the application; the provider may own them
(`freePlatformCallbacksFn`) and then frees them first of all, but an owned structure
that was replaced is nobody's any more. The cache model takes a
call from PIC's request through the curl session, the pieces of the body, the
curl and HTTP status to the handler, lets answers take as long as they like, and
lets PIC restart the stream in the middle of any call.

### Credentials

A thread of PIC goes `check → (call → perform | service → parse → free → clear →
create) → read → report → returned`: `iotCurlHandler` looks at the cached
object, fetches if little is left, and `parseIotResponse` frees the object,
clears the pointer and creates another in steps that other threads see. The LWS
call is a loop that ends when a callback raises `terminating` or the library
fails. Time passes only while threads are idle or wait for the network. `raced`
remembers that two threads were in each other's way, and threads stop there, since
what follows may be a use of freed memory. Nothing in this repository keeps PIC from
calling in parallel: the passing properties say what holds until then,
`GivenIsAllocated` what does not hold, and `OneThreadIsSafe` that it takes two threads.

### RequestSigning

Callers set and remove headers in any order, then sign in the header or in the
query, then hand the list to curl. A name or value that is empty or too long is
refused (`Fit`), which stops the run of headers that signing sets in the middle.
Lengths are counted where the code compares them: the URL with the parameters of the
signature against `MAX_URI_CHAR_LEN`, the encoding of a parameter against its buffer
of three times its length, and what is copied back against what the buffer had left
behind the old URL (`Copied`). A URL that is cut there is in phase `cut` and not
followed further. `Received` is the receiver's half, written
from the rules of the signature and not from the code: it sorts by name what it
got and encodes what it decoded. URI encoding and decoding work character by
character over an alphabet of letters and the delimiters the code tests for; an
escape `%XY` is one code, which takes three bytes (`Written`) and sorts below all
that is not escaped, as its `%` does. The signer's two orders, the walk through
the header list and the insertion of parameters into a list, and the receiver's
are all `InOrder(S, before)`: the members of a finite set, each at the place that
the number of those before it gives.

### FmspServer

`FmspServerPlayback...` and `FmspServerLiveview...` are the same code twice;
`kind` selects where they differ, `Kinds` which of them a run looks at. Every read
and write of a shared flag is a step: the loop's test of `bRun`, the test of `bSuspend`
and the wait behind it, the two stores of the Reset command, the clearing of `bRenew`
and the reads of the window after it. A signal that falls between test and wait is
recorded in `missed`; a `bSuspend` that a thread sets over a wake-up
(`RecvNoClient`, `ThreadStart`, `ResetSuspends`, `SendPark`) and a `bRun` that a
starting thread sets over a stop request are just what the stores do. Video frames of
a link come in their order of time, audio packets at any time, and other packets of
the live stream with time 0. `Config.bChanged` may have been set by the camera's
signal at any time. The owner's `Destruct` is a sequence of flag, signal, join per
thread.

### ProducerPrograms

The samples and services create the same six objects in the same order; scripts
differ in who creates them, in what a failure skips and in the order of freeing;
`Script` names them all.
`AudioVideoNew` looks at no return value. The services get commands over D-Bus
into a queue; the method thread of `KvsService` plays a whole session inside one
command. A second `cmd1` of MediaStreamProvider would start a second thread on
the same globals without any synchronisation and is not modelled.

## 3. Runs

| Run | Instance | Shows |
|---|---|---|
| `curl_one_stream` | 1 stream, 2 competing control-plane requests, 1 upload (361 000 states) | who owns a request, complete sweeps, both tables empty at the unmark |
| `curl_two_streams` | a request and an upload on 2 streams, shut down one by one and together (488 000) | a stream's shutdown leaves the other stream alone |
| `curl_liveness` | 1 stream, control-plane request, upload (58 000) | refinement of `StreamQuiesce`; calls settle, terminated calls stay silent, swept uploads exit, a shutdown returns unless an upload slipped into curl behind the sweep |
| `curl_cancelled_thread` | 1 stream, 2 control-plane requests | *violated*: the thread of a request that could not be inserted reads a freed request |
| `stream_connection` | upload: 2 frames, 2 attempts per read callback (9 239); retry: 2 streams, 2 records, 2 callers (41 000); health: grace 2, verification 3 (1 898) | sleepers keep the session, a session at rest is woken, a shutdown ends it; resets tracked and on live records, no record leaked, closing returns; resets of a connection are spaced and, for latency, persistent |
| `upload_lost_unpause` | as above | *violated*: curl is paused and `paused` is FALSE |
| `pic_callbacks` | provider: capacities 0 to 3, owned and unowned application callbacks, two platform callbacks (533 105); cache: every mode, period 3, bodies of 2 pieces (225 438) | no overflow, what is owned is freed, chains walked in order, an aggregate had its function; neither emulation nor odd answers invent a stream, no backend endpoint is served past its period |
| `cached_garbage_endpoint` | mode ALL, period 2 | *violated*: PIC is given an endpoint nobody wrote |
| `media_server` | both kinds of server, a window that ends at once and an open one that starts later (4.3 million) | signals follow cleared flags, joins are complete, no video from before the loaded target |
| `credentials` | 2 calling threads, 2 addresses, all 7 set-ups, grace 2, rotation 3, lifetimes up to 4 (133 849) | tokens usable, one object owned, calls return |
| `request_signing` | up to 7 headers, queries of up to 2 parameters whose names are prefixes of each other, URL buffer of 72 characters (1.1 million) | the receiver verifies, no header is lost, query signing has room for what is within the limits |
| `producer_programs` | 5 samples; 2 services with up to 3 commands; 6 combinations of storage and bit rate (17 992) | lifetimes, nothing lost, audio after video was tried, buffers that fit, progress |

`MC_StreamConnection` and `MC_PicCallbacks` run components that share no variable.
A variable `part`, chosen at the start, says which of them runs; the others stay in
an initial state. A behaviour of all of them together is an interleaving of one
behaviour of each, and no property mentions two of them, so that nothing is lost.

Twenty further configurations are not among the runs. Nineteen have one claim
each that TLC refutes; section 5 lists them with the module to give to TLC.
`FmspServerProgress.cfg` (module `MC_FmspServer`, the playback server alone) passes:
a wake-up that finds its thread waiting is served (`WakeUpsAreServed`) and `Destruct`
gets past a Main thread that is in its loop (`MainIsJoined`).

Why the bounds are enough. Two control-plane requests are what it takes to
collide on a key, and an upload beside them what it takes for the two sweeps and the
two waits to disagree. The safety properties of these instances are proved for all
sizes (section 4). In the upload session frames are interchangeable: one to be lost,
one to wake. For a record or a credentials object to be freed and its address missed,
one stream or provider needs two allocations; a second stream or caller competes. Grace,
verification, caching and rotation periods need an inside, an edge and an outside;
lifetimes go beyond the enforced rotation. A chain needs to be empty, to be full
after the library's own callbacks, and to have room for the application's. Seven
headers are enough for the callers' headers with a duplicate and a removal, and few
enough for the limit to stop signing in the middle; the names `ab` and `a-b` extend
`a` by a character on either side of `=`; 72 characters leave room for some signed
URLs and not for others. Three commands give every order of start and stop with a
repetition. `CHECK_DEADLOCK FALSE` is given where the system really ends: all requests
used up, or the object freed, the request sent, the program over, or a media-server
client and camera that stay silent for good.

### Fairness

Weak fairness of single threads only: a thread that can continue does, lock
holders let go, `spin` loops look again. For the world outside: a control-plane
call in curl ends, because a completion timeout is set on it; an upload in curl
ends only when it was timed out or its body is complete, because PutMedia has no
completion timeout; the service acknowledges what it received; PIC keeps
reporting a latency that persists; a connection of libwebsockets ends, with an
error or a close, because the library times connections out; the stop time of a
session comes. A cancelled thread is not assumed ever to end. Of the media server
only `select`, which has a time-out, and the steps of its own threads are assumed to
go on: neither `recv` of a command, nor `receive( ..., -1 )` of a frame
(`OryxStreaming.cpp:124`, 174), nor a blocking `send` (`FmspServer.c:822`) is assumed
to return. Nobody is obliged to make a call, put a frame or shut anything down, and a
lock is never assumed to be granted in turn.

## 4. Proofs

Checked by TLAPS, for every number of streams, requests, records, callers,
frames, commands, headers and every length of the periods. Each invariant that a
passing run checks is a theorem, and so are the refinement, `TerminatedNeverReports`
and the action properties `ResetKeepsRecord`, `SpacedResets` and
`ServedWithinPeriod`. Nothing is assumed about callers or schedules beyond what the
specifications say.

* `CurlApiCallbacksProofs`. `IndInv` adds to the properties: a table's lock is
  held exactly by the starter that is between look-up and insertion
  (`LockOwners`); tables hold what belongs there (`TablesSorted`); no starter
  past its look-up is behind a sweep (`NoStarterBehindSweep`); a stream is
  marked while its shutdown runs, and the first wait's answer is still true
  during the second (`ShutdownBookkeeping`). The last two are the heart: the
  sweep needs the lock the starter holds, and after the mark no new starter
  passes, so what the sweep saw is all there is. From it: `TypeCorrect`,
  `SweepsAreComplete`, `ShutdownLeavesStreamQuiet`, `RefinesQuiesce`, the refinement of
  `StreamQuiesce`, and `HandlersOwn`: no teardown, failing starter or other handler
  frees or unregisters a request that is being inserted or handled. `HandlersOwn` says
  nothing of a thread whose request could not be inserted; that thread is not safe
  (run `curl_cancelled_thread`).
* The same module's `TerminatedStaySilent` proves `TerminatedNeverReports`, a
  property of whole behaviours: a request flagged in front of its handler's sample
  is `Doomed`, and each step keeps it so. Teardowns only add flags, only the
  handler itself frees a request and with it the flag, and by then it has sampled.
* `StreamConnectionProofs`. For the upload session `SessionInv`: who is asleep or
  at work inside the session and who holds `activeUploadsLock` are the same, and the
  handler needs that lock to remove the session. From it `SleepersKeepTheSession`. For
  continuous retry `RetryInv`, whatever the callers do: who holds the lock
  (`LockDiscipline`); a record is in the table once or in one closer's hands
  (`Ownership`); it is freed after its reset thread is gone (`Joined`), although the
  closer reads `resetTid` twice and callbacks with dangling pointers go on; the store
  of a thread's id in the critical section makes this so. From it `ResetsAreTracked`,
  `ResetsKeepTheirRecord`, `NoRecordIsLeaked`. For the state machines `HealthInv`: a
  machine's timestamp is never older than its last reset. From it `ResetsAreSpaced`.
* `CallbacksProviderProofs`. `ProviderInv` adds to the properties where a walk is
  and what it has called (`WalkInv`), and that nobody changes a chain under a
  walk. From it `ChainsNeverOverflow`, `WalksAreInOrder`,
  `AggregatesHadTheirFunctions`, for all application callbacks. `FreesInv` counts:
  a chain owns an object once, what the creation has yet to append is in no chain,
  nothing is freed before the end, and at the end every object once per owner and,
  after a failed creation, once more for the pointer its creator held
  (`AccountOfFrees`, which is what the code does, not what it should do). From it
  `OwnedObjectsAreFreed`.
* `ApiCallCacheProofs`. `StreamInv` says what each thing that may let PIC go on
  later implies for the stream: an answer under way, an endpoint in the cache, the
  mode, PIC's own step; and that a cached endpoint is as old as its request. From
  it `ActiveStreamsExist` and `ServedEndpointsAreFresh`.
* `CredentialsProofs`. `CacheInv`: a thread that replaces the object is alone with
  it (`Exclusive`), what the pointer points to at each step of a replacement
  (`CachedObject`), and that what a call found usable still is when it reports
  (`FoundUsable`), until `raced`. From it `GivenTokensAreUsable`, for any number of
  threads, and `OneThreadIsSafe`: with one calling thread there is no race (that is
  proved, `OneAtATime`), nothing is leaked and nothing freed is handed out, so that
  both threads of the counterexample to `GivenIsAllocated` are needed.
* `FmspServerProofs`. `ServerInv`: `WakeUpInv`; threads not created yet are absent
  (`NotYetCreated`); a running thread has `bRun` set or is being joined, and none
  runs behind its join (`Destruction`); a sender that has started is past the target
  it has loaded (`Streaming`). From it `SleepersGetTheirSignal` (whoever clears the
  `bSuspend` of a sleeper signals it; not that the signal arrives),
  `DestructJoinsEverything` and `ReloadsStartOver` (about the window the sender has
  loaded and about video; other packets go out with time 0).
* `RequestSigningProofs`. `ListInOrder`: the list is sorted and no two headers in it
  are one allocation; every `setRequestHeader` inserts one header at its place and
  keeps the others in theirs (`HeaderIsSet`), a removal takes one out
  (`HeaderIsRemoved`), so that nothing allocated is outside the list
  (`NoHeaderIsLost`). That nothing in the list has been freed is false (section 5).
  `SignatureCurrent`: what was signed is what would be signed again, since the
  headers added behind the signature are not canonical (`CanonicalKept`).
  `QueryInOrder`: decoding a signed query and encoding it anew changes nothing
  (`DecodedAgain`), and it is sorted (`ParamsAreSorted`). `QueryIsSignable` follows
  from a count of bytes: one unreserved character leaves room for all escapes
  (`RoomToEncode`), and what was encoded passes the check of its length
  (`BloatedIsEncodable`). `ReceiverAccepts` compares two orders. A finite set is listed
  in one way by an order (`InOrderUnique`), so it is enough that the headers signed
  are in the receiver's order, which they are because the list is sorted and no
  name is in it twice (`HeadersAreReceived`), and that the parameters are
  (`ReceiverKeepsOrder`): if no name extends another by a character below `=`,
  the order of the texts `name=value` is the order of the names and then the values
  (`NamesOrderTexts`). `STRCMP` is shown to be a strict total order on the way.
* `ProducerProgramsProofs`. `ProgramInv` reads the scripts: what an actor has left
  is in the order of its steps' ranks (`Scripts`); what is still to be created is
  not there, and what it will be made from is this session's or missing
  (`SettingUp`); a pointer points to a live object (`Pointers`); what is made from
  an object is freed before it (`FreesInOrder`); a thread with a copy of the stream
  handle runs only in front of its join (`Joined`); what the program holds it will
  still free (`Ownership`); the flag that lets audio start implies that this
  session's video thread tried a frame (`FlagInv`). From it `ObjectsNest`,
  `ObjectsAreFreed`, `VideoComesFirst`, and, with a lemma about the two roundings of
  `setStreamInfoBasedOnStorageSize` (`SizedFits`), `SizingIsSound`.

Assumptions on the constants are the named `ASSUME`s of the modules: the null
values are not objects, every request has a stream and an API, the periods are
natural numbers, at least one read attempt, headers have names that are in use,
the name of a parameter ends at the `=`, storages and bit rates are not 0.

Only model-checked: the liveness properties (`ControlPlaneCallsSettle`,
`SweptUploadsExit`, `ShutdownStreamReturns`, `RestingSessionIsWoken`,
`ShutdownEndsSession`, `CloseReturns`, `PersistentLatencyResets`, `CallsReturn`,
`ProgramsProceed`), since the provers handle neither fairness nor ENABLED; the action
property `OthersLeftAlone`; and the claims of section 5, which are violated.

## 5. What the checks say about the code

### Claims of the repository that the code does not keep

Each claim is a definition, and a configuration checks it alone; TLC finds a
behaviour that violates it. Three are runs with a finding in `PROJECT.json`:

* `CreatedThreadsOwnRequest` (run `curl_cancelled_thread`; "Lock the startup mutex so
  the created thread will wait until we are done with bookkeeping",
  `CurlApiCallbacks.c:982`). When `hashTablePut` or `THREAD_DETACH` fails,
  `THREAD_CANCEL` only asks the new thread to end, and the request and its `startLock`
  are freed at once (988-1004, likewise 1533-1542 and 2075-2084), while the thread
  reads the one and waits for the other (1078-1088).
* `WakeableWhenPaused` (run `upload_lost_unpause`; "Whether curl is paused",
  `Response.h:64`). A notifier clears `paused` (`Response.c:460`), sleeps ten
  milliseconds and continues curl (464); if the read callback that set `paused` (724)
  has not returned by then, curl pauses afterwards with `paused` FALSE, and later
  notifications do nothing.
* `EndpointFromBackend` (run `cached_garbage_endpoint`; "The result of the
  GetStreamingEndpoint is cached", `Include.h:274`). A terminated GetStreamingEndpoint
  stores a buffer nobody wrote, and a restarted stream is given it
  (`CurlApiCallbacks.c:1724-1748`).

The others, with the module to check:

| Claim, configuration, module | What the repository says | What happens |
|---|---|---|
| `RemainingNotBlocked`, `CurlApiBlocked.cfg`, `MC_CurlApiCallbacks` | "at this point all remaining threads should not be blocked and reach termination shortly" (`CurlApiCallbacks.c:725`) | the test of `terminating` and the raising of `blockedInCurl` are two steps (`Response.c:402-403`); a sweep in between flags the request and unblocks nobody, and the wait at 738 lasts as long as curl does |
| `ThreadsEndBeforeShutdown`, `CurlApiDelivery.cfg`, `MC_CurlApiCallbacks` | "After curlApiCallbacksShutdown, all threads originated from curApiCallbacks are expected to be terminated." (`CurlApiCallbacks.c:273`) | a handler removes its request from the table (1146) before it reports; the shutdown waits for empty tables |
| `EveryActiveStreamMarked`, `CurlApiGivesUp.cfg`, `MC_CurlApiCallbacks` | "Iterate every item in the map and terminate the stream" (`CurlApiCallbacks.c:295`) | `hashTablePut` refuses a stream that is marked already (365); the iteration stops with that error, and streams behind it are neither marked nor terminated |
| `StoppedUploadEnds`, `UploadSessionStop.cfg`, `UploadSession` | "Pause curl read and wait for persisted ack." (`Response.c:674`) | the notification of the stop falls between PIC's "no data" and the store of `paused` (724) and does nothing; with nothing left to acknowledge no other comes. The session then waits for a shutdown (`ShutdownEndsSession`) |
| `GracefulEndNotTimedOut`, `UploadSessionGraceful.cfg`, `UploadSession` | "set flag to prevent shutdown thread from timing it out" (`Response.c:727`) | `terminateCurlSession` tests `terminated` (272), sleeps and sets the timeout without a second test |
| `NoDanglingMapping`, `ContinuousRetryDangling.cfg`, `ContinuousRetry` | "Lock for synchronizing the mapping table and accessing variables" (`ContinuousRetryStreamCallbacks.h:24`) | `getStreamMapping` releases the lock before it returns the record (223-225); a close frees it (157) under a callback that goes on to use it (304) |
| `EarlyExitWhileResetting`, `ContinuousRetryStaleTid.cfg`, `ContinuousRetry` | "Early exit if we are in the midst of resetting already" (`ContinuousRetryStreamCallbacks.c:310`) | a fast reset thread invalidates `resetTid` (427) before its creator stores the id over it (318); every later error of the stream is dropped |
| `JoinedIdIsValid`, `ContinuousRetryJoin.cfg`, `ContinuousRetry` | "Await for the reset to finish first" (`ContinuousRetryStreamCallbacks.c:151`) | `resetTid` is read for the test (152) and again for the join (153), and is invalidated in between |
| `FailedCreationFreesOnce`, `CallbacksProviderTwice.cfg`, `MC_PicCallbacks` | "This prevents freeing memory twice" (`CallbacksProvider.c:655`) | when continuous retry cannot be created or added, the auth callbacks are freed by their entry in the chain (388-392) and again by the creator's pointer (43-45); the file variant uses `freeIotAuthCallbacks` for it |
| `AggregatesFindFunctions`, `CallbacksProviderNull.cfg`, `MC_PicCallbacks` | `CHECK_EXT(..., "Called an aggregate for a NULL function")` (`CallbacksProvider.c:1421`) | `setPlatformCallbacks` replaces the whole structure (453) and takes no aggregate out: a file logger added behind mutex functions of the application makes the next lock abort |
| `GivenIsAllocated`, `CredentialsFreed.cfg`, `Credentials` | "Function returning AWS credentials" (`common/Include.h:529`) | of two threads that both refresh, the second frees (`IotCredentialProvider.c:190`, `FileCredentialProvider.c:193`) what the first was given and goes on to read (`IotAuthCallback.c:181-184`) |
| `ListedAreAllocated`, `RequestSigningRemove.cfg`, `MC_RequestSigning` | "Removes a header from the headers list if exists" (`common/Include.h:854`) | for an absent name the last header looked at is freed (`RequestInfo.c:256`) and stays in the list |
| `MaxBloatEncodable`, `RequestSigningBloat.cfg`, `MC_RequestSigning` | "Max len is 3 times the size of the allocation to account for max bloat for encoding" (`AwsV4Signer.c:297`) | the room is exactly that and `uriEncodeString` wants one more (876, 884): a value of escaped characters only, or an empty one, is refused |
| `NewParamsCopied`, `RequestSigningCopy.cfg`, `MC_RequestSigning` | "Copy the new params" (`AwsV4Signer.c:223`) | copy and signature are bounded by what was left behind the old URL (208, 221-225): a URL longer than about half the buffer is cut, and the call succeeds |
| `CanonicalOrder`, `RequestSigningOrder.cfg`, `MC_RequestSigning` | "We assume the params have been URI encoded and the in an ascending order" (`AwsV4Signer.c:469`) | texts `name=value` are sorted (328): `a-b=...` comes before `a=...` |
| `AcceptedClientIsHeard`, `FmspServerAccept.cfg`, `MC_FmspServer` | "Create Server Main Thread Loop For Receive Client Command Interface" (`FmspServer.c:375`) | the signal falls between the receiver's test and its wait (218), or the receiver sets `bSuspend` again over the cleared one (628, 669): a client is accepted and never heard. The sender loses wake-ups in the same ways (777, 825) |
| `ReceiverIsDisabled`, `FmspServerRecvStop.cfg`, `MC_FmspServer` | "Disable Receive Playback Command From Client" (`FmspServer.c:414`) | the join (420) waits for a receiver that sits in `recv` of a silent client, or that lost the signal |
| `ConnectionIsClosed`, `FmspServerMainStop.cfg`, `MC_FmspServer` | "Close Playback Connection Interface" (`FmspServer.c:426`) | a thread sets its own `bRun` when it starts (565), over the stop request of a `Destruct` after a failed `Construct`, which then waits for ever |
| `AudioAfterFirstVideoFrame`, `ProducerProgramsAudio.cfg`, `ProducerPrograms` | "no audio can be put until first video frame is put" (`samples/KvsAudioVideoStreamingSample.c:138`, `kvsservice/source/KvsPlayer.cpp:103`) | the flag is set whatever the put of the video frame returned (sample 84, player 51), so audio goes on after a refused first frame |

### Conditions of the passing properties

* `HandlersOwnRequests` is about requests that are being inserted or handled, not
  about the threads of requests that could not be inserted.
* `RestingSessionIsWoken` is about sessions in which curl and `paused` agree; how they
  come to disagree is `WakeableWhenPaused`.
* `ShutdownStreamReturns` allows for an upload that entered curl behind the
  sweep (`RemainingNotBlocked`). A control-plane call runs into its own timeout instead.
* `OwnedAreFreed` allows for the second free of a failed creation
  (`FailedCreationFreesOnce`) and says nothing of an owned platform structure that was
  replaced, which nobody frees (`CallbacksProvider.c:453`).
* `AggregatesWereImplemented` says that the very function an aggregate stands for is
  there or has been replaced, not that it is there (`AggregatesFindFunctions`).
* `TokensUsable` and `OwnsOneObject` hold until two calls overlap in a replacement
  (`raced`): the providers have no lock.
* `Verifies` excludes duplicate headers (`setRequestHeader` adds a second header of
  the same name), URLs that were cut (`NewParamsCopied`) and parameter names that
  extend another by a character below `=` (`CanonicalOrder`).
* `NoHeaderLost` is about leaks; `ListedAreAllocated` is about the other direction.
* `QuerySignable` lists the limits on URL and headers, and values without an
  unreserved character (`MaxBloatEncodable`).
* `WakeUpInv` says that a signal is sent, `AcceptedClientIsHeard` that it arrives.
* `NoVideoBeforeLoadedTarget` is about the window the sender has loaded. It clears
  `bRenew` and then reads the window (`FmspServer.c:770-773`) while the receiver may
  write another, so a started sender may go on with an old one; no text of the
  repository says otherwise. Other packets of the live stream keep the time 0
  (`OryxStreaming.cpp:204-209`) and are sent at any time.
* `NothingLost` allows for a `cmd1` after a `cmd1`, which overwrites the first
  session's pointers (`kvsservice/source/KvsService.cpp:59`), and for stream
  callbacks that no provider took. Nothing in the repository promises more.
* `AudioAfterVideoTried` says what is left of `AudioAfterFirstVideoFrame`.
* `SizedBufferFits`: a storage too small for a second of the bit rate gives a buffer
  duration of 0 (`StreamInfoProvider.c:337`).

### Seen while modelling, and claimed otherwise nowhere

* HTTP 200 without a `DataEndpoint` is reported to PIC as success with an
  endpoint buffer nobody wrote (`CurlApiCallbacks.c:1719-1769`);
* `shutdownStreamCurl` drops the cached endpoint before it waits for the request
  that may store it again (`CurlApiCallbacks.c:722`, 1724);
* the client shutdown iterates `pActiveRequests` under `shutdownLock` only (296),
  while starters and handlers change the table under its own lock; what the iteration
  of PIC's hash table does then cannot be read here, and the model visits one stream at
  a time;
* the reset thread calls into PIC (`ContinuousRetryStreamCallbacks.c:411`) for the
  stream whose close may wait for it in the same PIC; `CloseReturns` takes that call to
  return;
* `freeCallbacksProvider` frees the platform callbacks first (`CallbacksProvider.c:373`),
  through which the chains freed after them release their mutexes;
* `blockingLwsCall` keeps the last chunk of a body only and loses the memory of the
  ones before (`Lws/LwsCall.c:161`); an IoT answer without `expiration` is parsed
  from an uninitialised string (`IotCredentialProvider.c:183-186`); a refetch that
  fails within the grace period fails the call, though the cached credentials
  still last;
* `ConnectionStaleStateMachine` writes `backToNormalTime` and never reads it: a
  record's connection is reset for staleness once;
* `Destruct` of the media server joins the sender (`FmspServer.c:408`), which may be in
  `receive( ..., -1 )` or in a `send` that blocks.

## 6. Not modelled

* PIC and libcurl, except as the environment of the models: which locks PIC
  holds when it calls, and what its hash table does when it is iterated and
  changed at once, cannot be read here.
* Strings as such: JSON bodies of requests and answers, track and codec strings,
  certificate names, `serializeAwsCredentials` and its inverse. What the code
  decides from them (a status, an endpoint found or not, a certificate path of a
  known kind) is a value of the models.
* SHA-256 and HMAC (a signature is what it covers) and TLS (`SslInit.c`).
* Freeing of the curl API callbacks object itself (`CurlApiCallbacks.c:192-269`):
  it runs after the client shutdown, by one thread. `dumpResponseCurlEasyInfo`
  only logs; `writeHeaderCallback` collects response headers, of which only the
  request id is read, for the log.
* The Oryx camera library, D-Bus and the operating system: environment.
* Dead code: `kvsservice/source/KVSProducer.cpp` and lines 24-141 of
  `KvsProducer.cpp`, player routines that are commented out, `*_backup` samples.
  `samples/src` repeats `kvsservice/source`. The shutdown of a service
  (`ServiceBaseDeinit`, which does not wake the method thread out of `Dequeue`)
  comes after the GLib main loop, which nothing ends.
* Unit tests (read for intent) and generated build trees.
* Within modelled files: test hooks, the delays of `callAfter` (the thread just
  waits), dump files, creation failures for want of memory.

## 7. Plan

Done: the request engine with its abstraction and proofs; upload session;
continuous retry; state machines; provider and cache with proofs; credentials with
auth callbacks, blocking calls and proofs; header list and signer with proofs; media
server with proofs; info providers, services and samples with proofs; a refuted
configuration for every claim of a comment that the code was found not to keep.

What would add most from here, in this order:

1. *Composition* of the request engine with continuous retry: a handler's
   `notifyCallResult` is a caller of the error callback, and `shutdownStreamCurl`
   is reached from the reset; which interleavings of callers remain.
2. *Corrections*: variants of `Unpause`, `StoreTid`, `Suspend` and
   `getCredentials` that keep the claims of section 5, with the proof that they do.
3. *Abstract specifications* of the callbacks provider (a list of implementers
   called in order) and of the credentials (a token that lasts), with their
   refinement proved from the invariants of section 4.
