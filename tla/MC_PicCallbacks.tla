-------------------------- MODULE MC_PicCallbacks ---------------------------
(***************************************************************************)
(* What PIC calls: the callbacks provider with its chains and aggregates,  *)
(* and the caching API callbacks of a stream, which the provider installs  *)
(* like any others.  The two share no variable: every behaviour runs one   *)
(* of them and leaves the other in an initial state.                       *)
(*                                                                         *)
(* The application adds its own producer, stream, auth and API callbacks,  *)
(* the stream callbacks with and without a free function, any number of    *)
(* times, and its own mutex functions.  One object of its own is given to  *)
(* two chains, the producer and the API chain.                             *)
(***************************************************************************)
EXTENDS CallbacksProvider, ApiCallCache

Entry(o, fs, own) == [object |-> o, fns |-> fs, owned |-> own]

MCAppCallbacks ==
  {[kind |-> "stream", entry |-> Entry("app", {"streamErrorReportFn"}, own)] :
     own \in {"yes", "no"}}
    \cup {[kind |-> k, entry |-> Entry("shared", {"f"}, "yes")] :
            k \in {"producer", "api"}}
    \cup {[kind |-> "stream", entry |-> Entry(DefaultStreamCallbacks,
              {"streamErrorReportFn", "streamShutdownFn"}, "yes")]}
    \cup {[kind |-> "auth", entry |-> Entry("token", {"f"}, "yes")]}

MCAppPlatforms ==
  {Entry("mutexes", {"lockMutexFn", "unlockMutexFn"}, "yes"),
   Entry("clock", {"getCurrentTimeFn"}, "no")}
MCCurlFns == [k \in Kinds |->
  IF k = "stream" THEN {"streamShutdownFn"} ELSE IF k = "auth" THEN {} ELSE {"f"}]
MCAuthFns == {"f"}
MCRetryFns == {"streamErrorReportFn", "streamShutdownFn"}

VARIABLE part  \* the one that runs

\* the other one is left where it is, in one of its initial states
Unused ==
  IF part = "provider"
  THEN cacheType = "NONE" /\ certPath = "none" /\ stream = "ACTIVE"
  ELSE creator = "WithAwsCredentials"

PartInit ==
  /\ part \in {"provider", "cache"}
  /\ Init
  /\ CacheInit
  /\ Unused

PartNext ==
  \/ part = "provider" /\ Next /\ UNCHANGED <<part, cacheVars>>
  \/ part = "cache" /\ CacheNext /\ UNCHANGED <<part, vars>>

PartSpec == PartInit /\ [][PartNext]_<<part, vars, cacheVars>>

=============================================================================
