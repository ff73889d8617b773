---------------------------- MODULE Credentials ----------------------------
(***************************************************************************)
(* The credential providers (IoT, file, static), the auth callbacks that   *)
(* hand their credentials to PIC as tokens, and the blocking service call  *)
(* of the IoT provider (curl or libwebsockets).                            *)
(*                                                                         *)
(* A provider caches one AwsCredentials object and gives out its address.  *)
(* A call that finds the object missing or close to its expiration fetches *)
(* new credentials, frees the object and allocates another one.  There is  *)
(* no lock: PIC calls from the threads of several streams, and any of them *)
(* may be between two of these steps.                                      *)
(*                                                                         *)
(* Times are times to live: expiration minus now, -1 once it has passed.   *)
(* The clock moves while callers are idle or wait for the network; the     *)
(* other steps take no time.                                               *)
(***************************************************************************)
EXTENDS Integers, Sequences, FiniteSets

CONSTANTS
  Callers,       \* threads of PIC that ask for tokens
  Owner,         \* the thread that creates the provider
  Objects,       \* addresses of credentials
  NULL,          \* no address
  FETCH_GRACE_PERIOD,   \* refetch when less than this is left
  MAX_ENFORCED_TOKEN_EXPIRATION_DURATION,
  MaxLifetime    \* longest time to live a backend or a file states

ASSUME CredentialsAssumption ==
  /\ Owner \notin Callers
  /\ NULL \notin Objects
  /\ FETCH_GRACE_PERIOD \in Nat
  /\ MAX_ENFORCED_TOKEN_EXPIRATION_DURATION \in Nat
  /\ MaxLifetime \in Nat

VARIABLES
  setup,     \* <<auth callbacks, credential provider>>
  life,      \* provider, auth: being created; ready; authFreed; freed
  pAwsCredentials,   \* the cached object, or NULL
  live,      \* objects that are allocated
  ttl,       \* time to live of each object
  pc, api,   \* where each thread is, and which function PIC called
  got,       \* the address a caller was given
  fetched,   \* whether it fetched the credentials itself
  newTtl,    \* time to live of the credentials it fetched
  http,      \* its service call: [conn, terminating, responseData]
  events,    \* streaming token results it gave PIC, and how PIC took them
  status,    \* what it returns to PIC
  raced      \* history: a thread touched the cached object while another
             \* one was replacing it, or replaced it while one was using it

vars == <<setup, life, pAwsCredentials, live, ttl, pc, api, got, fetched,
          newTtl, http, events, status, raced>>
cacheVars == <<pAwsCredentials, live, ttl>>
resultVars == <<events, status>>

Threads == Callers \cup {Owner}
Providers == {"iotCurl", "iotLws", "file", "static"}

\* the auth callbacks create their own provider, or are given one that the
\* application created
Setups == {<<"iot", "iotCurl">>, <<"file", "file">>, <<"static", "static">>}
            \cup ({"provider"} \X Providers)
auth == setup[1]
provider == setup[2]

NoCall == [conn |-> "none", terminating |-> FALSE, responseData |-> "none"]
Waiting == {"idle", "service", "perform"}

Init ==
  /\ setup \in Setups
  /\ life = "provider"
  /\ pAwsCredentials = NULL /\ live = {}
  /\ ttl = [o \in Objects |-> -1]
  \* the static provider is created from credentials, the others fetch them
  /\ pc = [c \in Threads |-> IF c \in Callers THEN "idle"
                             ELSE IF provider = "static" THEN "create" ELSE "check"]
  /\ api = [c \in Threads |-> "none"]
  /\ got = [c \in Threads |-> NULL]
  /\ fetched = [c \in Threads |-> FALSE]
  /\ newTtl = [c \in Threads |-> IF provider = "static" THEN MaxLifetime ELSE 0]
  /\ http = [c \in Threads |-> NoCall]
  /\ events = [c \in Threads |-> <<>>]
  /\ status = [c \in Threads |-> "none"]
  /\ raced = FALSE

\* What follows a use of freed memory is undefined: threads stop there
Goto(c, l) == ~raced /\ pc' = [pc EXCEPT ![c] = l]
Fail(c) == Goto(c, "failed")

OthersAt(c, ls) == \E d \in Threads \ {c} : pc[d] \in ls
\* c reads the cached object, or begins to replace it
Reads(c) == raced' = (raced \/ OthersAt(c, {"clear", "create"}))
Replaces(c) == raced' = (raced \/ OthersAt(c, {"clear", "create", "read", "report"}))

-----------------------------------------------------------------------------
(* Asking the provider: is the cached object good enough?                  *)

\* mutant: credentials are refetched only when they have expired
NeedsRefreshLate ==
  pAwsCredentials = NULL \/ (pAwsCredentials \in Objects /\ ttl[pAwsCredentials] < 0)

NeedsRefresh ==
  pAwsCredentials = NULL \/ (pAwsCredentials \in Objects
                             /\ ttl[pAwsCredentials] < FETCH_GRACE_PERIOD)

\* getIotCredentials: fresh credentials are returned as they are; otherwise a
\* request is made up, which may fail (URI too long, no memory)
iotCurlHandler(c) ==
  /\ provider \in {"iotCurl", "iotLws"} /\ pc[c] = "check"
  /\ IF NeedsRefresh THEN Goto(c, "call") \/ Fail(c) ELSE Goto(c, "read")
  /\ Reads(c)
  /\ UNCHANGED <<setup, life, cacheVars, api, got, fetched, newTtl, http, resultVars>>

\* fix-up of the expiration, and on to the replacement of the object
Rotate(c, lifetime) ==
  /\ newTtl' = [newTtl EXCEPT ![c] =
       IF lifetime < MAX_ENFORCED_TOKEN_EXPIRATION_DURATION THEN lifetime
       ELSE MAX_ENFORCED_TOKEN_EXPIRATION_DURATION]
  /\ fetched' = [fetched EXCEPT ![c] = TRUE]
  /\ Goto(c, "free")

\* a time stamp in the past is refused; EARLY_EXPIRATION_FACTOR is 0.9
ConvertedTimestamps(stated) == {(9 * s) \div 10 : s \in {t \in stated : t >= 0}}
convertTimestampToEpoch == ConvertedTimestamps(-1..MaxLifetime)

\* The file may be missing, too long or ill-formed, its time stamp too; one
\* without a time stamp is good for the longest rotation
readFileCredentials(c) ==
  /\ provider = "file" /\ pc[c] = "check"
  /\ Reads(c)
  /\ \/ ~NeedsRefresh /\ Goto(c, "read") /\ UNCHANGED <<newTtl, fetched>>
     \/ NeedsRefresh /\ Fail(c) /\ UNCHANGED <<newTtl, fetched>>
     \/ /\ NeedsRefresh
        /\ \E t \in convertTimestampToEpoch \cup {MAX_ENFORCED_TOKEN_EXPIRATION_DURATION} :
             Rotate(c, t)
  /\ UNCHANGED <<setup, life, cacheVars, api, got, http, resultVars>>

getStaticCredentials(c) ==
  /\ provider = "static" /\ pc[c] = "check"
  /\ Goto(c, "read")
  /\ UNCHANGED <<setup, life, cacheVars, api, got, fetched, newTtl, http, resultVars, raced>>

-----------------------------------------------------------------------------
(* The blocking service call.  A response is one chunk or two; what parses *)
(* is the whole.                                                           *)

StartCall(c, l) == Goto(c, l) /\ http' = [http EXCEPT ![c] = NoCall]
CallStep(c) == UNCHANGED <<setup, life, cacheVars, api, got, fetched, newTtl, resultVars, raced>>

\* set-up fails (library, certificate path, header list), or the transfer runs
blockingCurlCall(c) ==
  /\ provider = "iotCurl" /\ pc[c] = "call"
  /\ StartCall(c, "perform") \/ (Fail(c) /\ UNCHANGED http)
  /\ CallStep(c)

FirstChunk == {"first", "whole", "error"}

\* the chunks are put together
writeCurlResponseCallback(c) ==
  /\ pc[c] = "perform"
  /\ \E r \in FirstChunk \cup {"none"} :
       /\ \/ http[c].responseData = "none" /\ r # "none"
          \/ http[c].responseData = "first" /\ r = "whole"
       /\ http' = [http EXCEPT ![c].responseData = r]
  /\ UNCHANGED pc
  /\ CallStep(c)

\* curl_easy_perform returns: an error, or a status other than 200, fails
CurlPerformed(c) ==
  /\ pc[c] = "perform"
  /\ \/ Fail(c) /\ http' = [http EXCEPT ![c] = NoCall]
     \/ http[c].responseData # "error" /\ Goto(c, "parse") /\ UNCHANGED http
  /\ CallStep(c)

\* the context or the connection cannot be created, or the service loop runs
blockingLwsCall(c) ==
  /\ provider = "iotLws" /\ pc[c] = "call"
  /\ \/ Goto(c, "service") /\ http' = [http EXCEPT ![c] = [NoCall EXCEPT !.conn = "connecting"]]
     \/ Fail(c) /\ UNCHANGED http
  /\ CallStep(c)

InService(c, conns) == pc[c] = "service" /\ http[c].conn \in conns
EndConnection(c, terminate) ==
  http' = [http EXCEPT ![c].conn = "closed", ![c].terminating = terminate \/ @]

\* mutant: a failed connection does not end the service loop
ConnectionErrorIgnored(c) ==
  InService(c, {"connecting", "handshake", "sent"}) /\ EndConnection(c, FALSE)

\* LWS_CALLBACK_CLIENT_CONNECTION_ERROR
ConnectionError(c) ==
  InService(c, {"connecting", "handshake", "sent"}) /\ EndConnection(c, TRUE)

\* LWS_CALLBACK_CLIENT_APPEND_HANDSHAKE_HEADER: the headers are taken off the
\* request, or a list error ends the call
AppendHandshakeHeader(c) ==
  /\ InService(c, {"connecting"})
  /\ http' = [http EXCEPT ![c].conn = "handshake"] \/ EndConnection(c, TRUE)

\* LWS_CALLBACK_CLIENT_HTTP_WRITEABLE: the body is written, in one go or in
\* several; if nothing can be written, the connection ends with an error
ClientHttpWriteable(c) ==
  InService(c, {"handshake"}) /\ http' = [http EXCEPT ![c].conn = "sent"]

\* LWS_CALLBACK_ESTABLISHED_CLIENT_HTTP: the HTTP status is kept, and does
\* not make the call fail
Established(c) ==
  InService(c, {"handshake", "sent"}) /\ http' = [http EXCEPT ![c].conn = "open"]

\* LWS_CALLBACK_RECEIVE_CLIENT_HTTP_READ: the chunk replaces the one before
ClientHttpRead(c) ==
  /\ InService(c, {"open"})
  /\ \E r \in FirstChunk \cup {"second"} :
       /\ \/ http[c].responseData = "none" /\ r # "second"
          \/ http[c].responseData = "first" /\ r = "second"
       /\ http' = [http EXCEPT ![c].responseData = r]

\* LWS_CALLBACK_COMPLETED_CLIENT_HTTP, LWS_CALLBACK_CLOSED_CLIENT_HTTP
ClientHttpEnds(c) ==
  InService(c, {"handshake", "sent", "open"}) /\ EndConnection(c, TRUE)

lwsIotCallbackRoutine(c) ==
  /\ \/ ConnectionError(c) \/ AppendHandshakeHeader(c) \/ Established(c)
     \/ ClientHttpWriteable(c) \/ ClientHttpRead(c) \/ ClientHttpEnds(c)
  /\ UNCHANGED pc
  /\ CallStep(c)

\* the loop of blockingLwsCall ends with success, whatever ended it
LwsLoopEnds(c) ==
  /\ pc[c] = "service"
  /\ http[c].terminating
  /\ Goto(c, "parse")
  /\ UNCHANGED http
  /\ CallStep(c)

\* lws_service fails: the same, at any time
LwsServiceFails(c) ==
  /\ pc[c] = "service"
  /\ Goto(c, "parse")
  /\ UNCHANGED http
  /\ CallStep(c)

\* no response, part of one, an error text or a bad time stamp fail; a
\* missing time stamp leaves the code with a string nobody wrote
parseIotResponse(c) ==
  /\ pc[c] = "parse"
  /\ \/ Fail(c) /\ UNCHANGED <<newTtl, fetched>>
     \/ /\ http[c].responseData = "whole"
        /\ \E t \in convertTimestampToEpoch : Rotate(c, t)
  /\ http' = [http EXCEPT ![c] = NoCall]    \* releaseCallInfo
  /\ UNCHANGED <<setup, life, cacheVars, api, got, resultVars, raced>>

-----------------------------------------------------------------------------
(* Replacing the cached object: free it, clear the pointer, allocate.      *)

\* mutant: the old object is not freed
KeepAwsCredentials(c) ==
  /\ pc[c] = "free"
  /\ Goto(c, "create")
  /\ Replaces(c)
  /\ UNCHANGED <<setup, life, cacheVars, api, got, fetched, newTtl, http, resultVars>>

freeAwsCredentials(c) ==
  /\ pc[c] = "free"
  /\ live' = live \ {pAwsCredentials}
  /\ ttl' = [o \in Objects |-> IF o = pAwsCredentials THEN -1 ELSE ttl[o]]
  /\ Goto(c, IF pAwsCredentials = NULL THEN "create" ELSE "clear")
  /\ Replaces(c)
  /\ UNCHANGED <<setup, life, pAwsCredentials, api, got, fetched, newTtl, http, resultVars>>

ClearPointer(c) ==
  /\ pc[c] = "clear"
  /\ pAwsCredentials' = NULL
  /\ Goto(c, "create")
  /\ UNCHANGED <<setup, life, live, ttl, api, got, fetched, newTtl, http, resultVars, raced>>

\* the pointer is written in both cases
createAwsCredentials(c) ==
  /\ pc[c] = "create"
  /\ \/ \E o \in Objects \ live :
          /\ live' = live \cup {o}
          /\ ttl' = [ttl EXCEPT ![o] = newTtl[c]]
          /\ pAwsCredentials' = o
          /\ Goto(c, "read")
     \/ pAwsCredentials' = NULL /\ Fail(c) /\ UNCHANGED <<live, ttl>>
  /\ newTtl' = [newTtl EXCEPT ![c] = 0]
  /\ UNCHANGED <<setup, life, api, got, fetched, http, resultVars, raced>>

\* getIotCredentials, getFileCredentials, getStaticCredentials return the
\* cached pointer
getCredentials(c) ==
  /\ pc[c] = "read" /\ c \in Callers
  /\ got' = [got EXCEPT ![c] = pAwsCredentials]
  /\ Goto(c, "report")
  /\ Reads(c)
  /\ UNCHANGED <<setup, life, cacheVars, api, fetched, newTtl, http, resultVars>>

-----------------------------------------------------------------------------
(* Creating and freeing.                                                   *)

\* free...CredentialProvider: the cached object goes too
FreeProvider ==
  /\ life' = "freed"
  /\ live' = live \ {pAwsCredentials}
  /\ pAwsCredentials' = NULL

OwnerStep ==
  UNCHANGED <<setup, ttl, api, got, fetched, newTtl, http, resultVars, raced>>

\* a provider that has got its first credentials, or is given up
createCredentialProvider ==
  /\ life = "provider"
  /\ \/ /\ pc[Owner] = "read" /\ life' = "auth"
        /\ UNCHANGED <<pAwsCredentials, live>>
     \/ pc[Owner] = "failed" /\ FreeProvider
  /\ Goto(Owner, "idle")
  /\ fetched' = [fetched EXCEPT ![Owner] = FALSE]
  /\ UNCHANGED <<setup, ttl, api, got, newTtl, http, resultVars, raced>>

createIotCredentialProviderWithTime ==
  provider \in {"iotCurl", "iotLws"} /\ createCredentialProvider
createFileCredentialProviderWithTime == provider = "file" /\ createCredentialProvider
createStaticCredentialProvider == provider = "static" /\ createCredentialProvider

\* the auth callbacks are appended to the provider's chain; if that fails
\* they are freed, with the provider they created
CreateAuthCallbacks(a) ==
  /\ auth = a /\ life = "auth"
  /\ \/ life' = "ready" /\ UNCHANGED <<pAwsCredentials, live>>
     \/ /\ a # "provider" /\ FreeProvider
     \/ /\ a = "provider" /\ life' = "authFreed"
        /\ UNCHANGED <<pAwsCredentials, live>>
  /\ UNCHANGED pc
  /\ OwnerStep

createIotAuthCallbacks == CreateAuthCallbacks("iot")
createFileAuthCallbacks == CreateAuthCallbacks("file")
createStaticAuthCallbacks == CreateAuthCallbacks("static")
createCredentialProviderAuthCallbacks == CreateAuthCallbacks("provider")

NobodyCalls == \A c \in Threads : pc[c] = "idle"

FreeAuthCallbacks(a) ==
  /\ auth = a /\ life = "ready" /\ NobodyCalls
  /\ FreeProvider
  /\ UNCHANGED pc
  /\ OwnerStep

freeIotAuthCallbacks == FreeAuthCallbacks("iot")
freeFileAuthCallbacks == FreeAuthCallbacks("file")
freeStaticAuthCallbacks == FreeAuthCallbacks("static")

\* "The underlying credential provider object will not be freed"
freeCredentialProviderAuthCallbacks ==
  /\ auth = "provider" /\ life = "ready" /\ NobodyCalls
  /\ life' = "authFreed"
  /\ UNCHANGED <<pAwsCredentials, live, pc>>
  /\ OwnerStep

FreeCredentialProvider(ps) ==
  /\ provider \in ps /\ life = "authFreed"
  /\ FreeProvider
  /\ UNCHANGED pc
  /\ OwnerStep

freeIotCredentialProvider == FreeCredentialProvider({"iotCurl", "iotLws"})
freeFileCredentialProvider == FreeCredentialProvider({"file"})
freeStaticCredentialProvider == FreeCredentialProvider({"static"})

-----------------------------------------------------------------------------
(* The two functions PIC calls.                                            *)

Call(c) ==
  /\ life = "ready" /\ pc[c] = "idle"
  /\ \E f \in {"getStreamingToken", "getSecurityToken"} : api' = [api EXCEPT ![c] = f]
  /\ Goto(c, "check")
  /\ UNCHANGED <<setup, life, cacheVars, got, fetched, newTtl, http, resultVars, raced>>

Return(c, f, evs, st) ==
  /\ api[c] = f
  /\ events' = [events EXCEPT ![c] = evs]
  /\ status' = [status EXCEPT ![c] = st]
  /\ Goto(c, "returned")
  /\ UNCHANGED <<setup, life, cacheVars, api, got, fetched, newTtl, http, raced>>

\* PIC has copied the token and goes on
Returned(c) ==
  /\ pc[c] = "returned"
  /\ Goto(c, "idle")
  /\ api' = [api EXCEPT ![c] = "none"]
  /\ got' = [got EXCEPT ![c] = NULL]
  /\ fetched' = [fetched EXCEPT ![c] = FALSE]
  /\ events' = [events EXCEPT ![c] = <<>>]
  /\ status' = [status EXCEPT ![c] = "none"]
  /\ UNCHANGED <<setup, life, cacheVars, newTtl, http, raced>>

\* PIC takes the token or refuses it; a failure of any step is told to PIC
\* with SERVICE_CALL_UNKNOWN, and to the stream error callback
StreamingTokenReported(c) ==
  LET Answer(evs, st) == Return(c, "getStreamingToken", evs, st) IN
  \/ pc[c] = "report" /\ Answer(<<"taken">>, "success")
  \/ pc[c] = "report" /\ Answer(<<"refused", "unknown">>, "failure")
  \/ pc[c] = "failed" /\ Answer(<<"unknown">>, "failure")

\* without an answer to PIC but the status when there are no credentials
StreamingTokenReturned(c) ==
  LET Answer(evs, st) == Return(c, "getStreamingToken", evs, st) IN
  \/ pc[c] = "report" /\ Answer(<<"taken">>, "success")
  \/ pc[c] = "report" /\ Answer(<<"refused">>, "failure")
  \/ pc[c] = "failed" /\ Answer(<<>>, "failure")

getStreamingTokenIotFunc(c) == auth = "iot" /\ StreamingTokenReported(c)
getStreamingTokenFileFunc(c) == auth = "file" /\ StreamingTokenReported(c)
getStreamingTokenStaticFunc(c) == auth = "static" /\ StreamingTokenReturned(c)
getStreamingTokenCredentialProviderFunc(c) ==
  auth = "provider" /\ StreamingTokenReturned(c)

\* the address of the cached object is the token
SecurityToken(c) ==
  \/ pc[c] = "report" /\ Return(c, "getSecurityToken", <<>>, "success")
  \/ pc[c] = "failed" /\ Return(c, "getSecurityToken", <<>>, "failure")

getSecurityTokenIotFunc(c) == auth = "iot" /\ SecurityToken(c)
getSecurityTokenFileFunc(c) == auth = "file" /\ SecurityToken(c)
getSecurityTokenStaticFunc(c) == auth = "static" /\ SecurityToken(c)
getSecurityTokenCredentialProviderFunc(c) == auth = "provider" /\ SecurityToken(c)

-----------------------------------------------------------------------------
\* static credentials are created to last (the application gives them an
\* expiration and has to replace the provider before it)
Tick ==
  /\ ~raced
  /\ provider # "static"
  /\ \A c \in Threads : pc[c] \in Waiting
  /\ ttl' = [o \in Objects |-> IF ttl[o] < 0 THEN ttl[o] ELSE ttl[o] - 1]
  /\ UNCHANGED <<setup, life, pAwsCredentials, live, pc, api, got, fetched,
                 newTtl, http, resultVars, raced>>

Refresh(c) ==
  \/ iotCurlHandler(c) \/ readFileCredentials(c) \/ getStaticCredentials(c)
  \/ blockingCurlCall(c) \/ CurlPerformed(c)
  \/ blockingLwsCall(c) \/ LwsLoopEnds(c)
  \/ parseIotResponse(c)
  \/ freeAwsCredentials(c) \/ ClearPointer(c) \/ createAwsCredentials(c)
  \/ getCredentials(c)

Answer(c) ==
  \/ getStreamingTokenIotFunc(c) \/ getStreamingTokenFileFunc(c)
  \/ getStreamingTokenStaticFunc(c) \/ getStreamingTokenCredentialProviderFunc(c)
  \/ getSecurityTokenIotFunc(c) \/ getSecurityTokenFileFunc(c)
  \/ getSecurityTokenStaticFunc(c) \/ getSecurityTokenCredentialProviderFunc(c)

Create ==
  \/ createIotCredentialProviderWithTime \/ createFileCredentialProviderWithTime
  \/ createStaticCredentialProvider
  \/ createIotAuthCallbacks \/ createFileAuthCallbacks
  \/ createStaticAuthCallbacks \/ createCredentialProviderAuthCallbacks

Free ==
  \/ freeIotAuthCallbacks \/ freeFileAuthCallbacks \/ freeStaticAuthCallbacks
  \/ freeCredentialProviderAuthCallbacks
  \/ freeIotCredentialProvider \/ freeFileCredentialProvider
  \/ freeStaticCredentialProvider

Next ==
  \/ \E c \in Threads :
       \/ Refresh(c) \/ writeCurlResponseCallback(c)
       \/ lwsIotCallbackRoutine(c) \/ LwsServiceFails(c)
  \/ \E c \in Callers : Call(c) \/ Answer(c) \/ Returned(c)
  \/ Create \/ Free \/ Tick

\* The threads run; a connection comes to an end, for libwebsockets and curl
\* both time out (creationInfo.timeout_secs, CURLOPT_TIMEOUT_MS)
Fairness ==
  /\ \A c \in Threads :
       /\ WF_vars(Refresh(c))
       /\ WF_vars((ConnectionError(c) \/ ClientHttpEnds(c)) /\ UNCHANGED pc /\ CallStep(c))
  /\ \A c \in Callers : WF_vars(Answer(c))

Spec == Init /\ [][Next]_vars /\ Fairness

-----------------------------------------------------------------------------
Locations == {"idle", "check", "call", "perform", "service", "parse", "free", "clear",
              "create", "read", "report", "failed", "returned"}

\* The types of the cache and of what decides about it.
CacheTypes ==
  /\ setup \in Setups
  /\ life \in {"provider", "auth", "ready", "authFreed", "freed"}
  /\ pAwsCredentials \in Objects \cup {NULL}
  /\ live \in SUBSET Objects
  /\ ttl \in [Objects -> Int]
  /\ pc \in [Threads -> Locations]
  /\ got \in [Threads -> Objects \cup {NULL}]
  /\ fetched \in [Threads -> BOOLEAN]
  /\ newTtl \in [Threads -> Nat]

\* PIC calls a provider only between its creation and its end.
CallsWhenReady ==
  /\ life # "ready" => \A c \in Callers : pc[c] = "idle"
  /\ life # "provider" => pc[Owner] = "idle"
  /\ provider = "static" =>
       /\ \A c \in Callers :
            pc[c] \in {"idle", "check", "read", "report", "failed", "returned"}
       /\ pc[Owner] \in {"create", "read", "failed", "idle"}

\* A thread that replaces the object is alone with it.
Exclusive ==
  \A c, d \in Threads :
    c # d /\ pc[c] \in {"clear", "create"} => pc[d] \notin {"clear", "create", "read", "report"}

\* What the pointer points to from step to step of a replacement.
CachedObject ==
  /\ \A o \in live : o = pAwsCredentials
  /\ \A c \in Threads : pc[c] \in {"clear", "create"} => live = {}
  /\ \A c \in Threads : pc[c] = "create" => pAwsCredentials = NULL
  /\ pAwsCredentials \in live \cup {NULL} \/ \E c \in Threads : pc[c] = "clear"
  /\ life = "freed" => live = {}
  /\ provider = "static" /\ life \in {"auth", "ready"} => pAwsCredentials \in live

\* New credentials are put into the cache by the call that fetched them.
FetchedFirst ==
  \A c \in Threads :
    provider # "static" /\ pc[c] \in {"free", "clear", "create"} => fetched[c]

\* What a call finds is what it gives out.
FoundUsable ==
  \A c \in Threads : pc[c] \in {"read", "report"} =>
    /\ pAwsCredentials \in live
    /\ pc[c] = "report" => got[c] = pAwsCredentials
    /\ provider # "static" =>
         ttl[pAwsCredentials] >= IF fetched[c] THEN 0 ELSE FETCH_GRACE_PERIOD

\* Inductive, until threads race.
CacheInv ==
  /\ CacheTypes
  /\ CallsWhenReady
  /\ FetchedFirst
  /\ ~raced => Exclusive /\ CachedObject /\ FoundUsable

(***************************************************************************)
(* A token that PIC is given is credentials that are allocated and have    *)
(* not expired, and that last for the whole grace period unless they were  *)
(* fetched for this very call: however calls of several threads overlap    *)
(* with fetches of others and fetches fail, as long as no thread replaces  *)
(* the object between another's look at it and its answer                  *)
(* (iotCurlHandler, readFileCredentials, getStreamingToken...Func).        *)
(***************************************************************************)
TokensUsable ==
  \A c \in Callers : pc[c] = "report" /\ ~raced =>
    /\ got[c] \in live
    /\ provider # "static" =>
         ttl[got[c]] >= IF fetched[c] THEN 0 ELSE FETCH_GRACE_PERIOD

\* What is allocated is the cached object, what is cached is allocated but
\* for the moment between the free and the NULL, and nothing outlives the provider.
CacheOwns ==
  /\ \A o \in live : o = pAwsCredentials
  /\ pAwsCredentials \notin live =>
       pAwsCredentials = NULL \/ \E c \in Threads : pc[c] = "clear"
  /\ life = "freed" => live = {}

(***************************************************************************)
(* A rotation neither leaks the old credentials nor frees any twice:       *)
(* whichever calls fail in the middle of one, what is allocated is the     *)
(* cached object, and once the provider is gone nothing is, unless         *)
(* rotations of two threads overlapped (parseIotResponse,                  *)
(* readFileCredentials, free...CredentialProvider).                        *)
(***************************************************************************)
OwnsOneObject == ~raced => CacheOwns

(***************************************************************************)
(* "Function returning AWS credentials" (GetCredentialsFunc): what a call  *)
(* was given is still allocated when it hands it on to PIC.  Not with two  *)
(* threads: both find the credentials about to expire and fetch new ones,  *)
(* and the second frees what the first was given (parseIotResponse).       *)
(***************************************************************************)
GivenIsAllocated ==
  \A c \in Callers : pc[c] = "report" => got[c] \in live

(***************************************************************************)
(* Every call for a streaming token comes to an end, with a result PIC     *)
(* took or a failure, whatever becomes of the connection: the service loop *)
(* of blockingLwsCall ends on every way a connection can end.  (Unless     *)
(* rotations overlapped: then anything goes.)                              *)
(***************************************************************************)
CallsReturn ==
  \A c \in Callers :
    (pc[c] = "check" /\ api[c] = "getStreamingToken") ~>
      \/ raced
      \/ (pc[c] = "returned" /\ (status[c] = "failure" \/ events[c] = <<"taken">>))

=============================================================================
