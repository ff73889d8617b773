-------------------------- MODULE CallbacksProvider --------------------------
(***************************************************************************)
(* The callbacks provider (CallbacksProvider.c): four fixed-size chains of *)
(* callback structures that the default components and the application     *)
(* append to, the aggregates that PIC calls and that walk a chain, the     *)
(* platform callbacks, and the creation and freeing of it all.             *)
(*                                                                         *)
(* A callback structure is [object, fns, owned]: the heap object its       *)
(* customData points to, the functions it implements, and whether it has a *)
(* free function, which freeCallbacksProvider then calls on the object.    *)
(***************************************************************************)
EXTENDS Naturals, Sequences, FiniteSets

CONSTANTS
  MAX_CALLBACK_CHAIN_COUNT,  \* 20 in the code
  DEFAULT_CALLBACK_CHAIN_COUNT,  \* 5 in the code
  ChainCounts,         \* capacities of a chain to create a provider with
  AppCallbacks,        \* what the application may add: [kind |-> ...,
                       \*   entry |-> a callback structure]
  AppPlatforms,        \* platform callbacks of the application: structures
  CurlFns,             \* functions of the curl API callbacks, per chain
  AuthFns,             \* functions of the auth callbacks
  RetryFns             \* functions of the continuous retry callbacks

Kinds == {"producer", "stream", "auth", "api"}

\* The functions that create a provider.  The first is told the capacity of
\* the chains and whether to retry; the last is given the auth callbacks.
Creators == {"createDefaultCallbacksProvider", "WithAwsCredentials",
             "WithIotCertificate", "WithIotCertificateAndTimeouts",
             "WithFileAuth", "WithAuthCallbacks"}
Functions == (UNION {a.entry.fns : a \in AppCallbacks})
               \cup (UNION {CurlFns[k] : k \in Kinds}) \cup AuthFns \cup RetryFns
AppObjects == {a.entry.object : a \in AppCallbacks}
PlatformObjects == {p.object : p \in AppPlatforms} \cup {"logger"}
Objects == {"curl", "auth", "retry"} \cup AppObjects \cup PlatformObjects
Entries == [object : Objects, fns : SUBSET Functions, owned : {"yes", "no"}]

ASSUME ProviderAssumption ==
  /\ MAX_CALLBACK_CHAIN_COUNT \in Nat
  /\ ChainCounts \subseteq Nat
  /\ DEFAULT_CALLBACK_CHAIN_COUNT \in Nat
  /\ \A a \in AppCallbacks : a.kind \in Kinds /\ a.entry \in Entries
  /\ (AppObjects \cup PlatformObjects) \cap {"curl", "auth", "retry"} = {}

VARIABLES
  creator,     \* the function that creates the provider
  life,        \* creating, auth, retry (steps of the creation), ready,
               \* freed, failed; aborted when a CHECK_EXT fails
  callbackChainCount,  \* capacity of each chain
  chain,       \* the four chains
  held,        \* objects createDefaultCallbacksProvider has a pointer to
  frees,       \* how often each object was freed
  aggregates,  \* aggregates installed in clientCallbacks for the chains
  platform,    \* the structure of the platform callbacks
  platformAggregates,  \* aggregates installed for the platform callbacks
  replaced,    \* history: functions of platform callbacks that were replaced
  call,        \* the aggregate PIC is in: [kind, fn, next], or NoCall
  returned     \* what the entries it has called returned: index -> status

vars == <<creator, life, callbackChainCount, chain, held, frees, aggregates, platform,
          platformAggregates, replaced, call, returned>>
platformVars == <<platform, platformAggregates, replaced>>
callVars == <<call, returned>>

NoCall == [kind |-> "producer", fn |-> "none", next |-> 0]

\* the default functions are installed directly, without a structure
NoPlatform == [object |-> "none", fns |-> {}, owned |-> "no"]
setDefaultPlatformCallbacks ==
  platform = NoPlatform /\ platformAggregates = {} /\ replaced = {}

\* createAbstractDefaultCallbacksProvider: empty chains
Init ==
  /\ creator \in Creators
  /\ life = "creating"
  /\ callbackChainCount \in
       IF creator = "createDefaultCallbacksProvider"
         THEN {n \in ChainCounts : n < MAX_CALLBACK_CHAIN_COUNT}
         ELSE {DEFAULT_CALLBACK_CHAIN_COUNT}
  /\ chain = [k \in Kinds |-> <<>>]
  /\ held = {}
  /\ frees = [o \in Objects |-> 0]
  /\ aggregates = {}
  /\ setDefaultPlatformCallbacks
  /\ call = NoCall /\ returned = <<>>

-----------------------------------------------------------------------------
(* Appending to a chain. *)

\* Mutant: an off-by-one in the capacity test
HasRoomOrOneMore(k) == Len(chain[k]) <= callbackChainCount

HasRoom(k) == Len(chain[k]) < callbackChainCount

\* Mutant: no guard against duplicates
NeverDuplicate(k, e) == FALSE

\* "Guard against adding same callbacks multiple times"
IsDuplicate(k, e) ==
  /\ e.owned = "yes"
  /\ \E i \in DOMAIN chain[k] :
       chain[k][i].object = e.object /\ chain[k][i].owned = "yes"

Accepts(k, e) == HasRoom(k) /\ ~IsDuplicate(k, e)

\* the entry goes to the end; the aggregates of its functions are installed
AppendEntry(k, e) ==
  /\ Accepts(k, e)
  /\ chain' = [chain EXCEPT ![k] = Append(@, e)]
  /\ aggregates' = aggregates \cup {<<k, f>> : f \in e.fns}

AddCallbacks(k) ==
  /\ life = "ready" /\ call = NoCall
  /\ \E a \in AppCallbacks : a.kind = k /\ AppendEntry(k, a.entry)
  /\ UNCHANGED <<creator, life, callbackChainCount, held, frees, platformVars,
                 callVars>>

addProducerCallbacks == AddCallbacks("producer")
addStreamCallbacks == AddCallbacks("stream")
addAuthCallbacks == AddCallbacks("auth")
addApiCallbacks == AddCallbacks("api")

-----------------------------------------------------------------------------
(* Creating and freeing. *)

Owned(k, o) ==
  {i \in DOMAIN chain[k] : chain[k][i].object = o /\ chain[k][i].owned = "yes"}

\* the calls freeCallbacksProvider makes to the free function of an object
OwnedCount(o) ==
  Cardinality(Owned("producer", o)) + Cardinality(Owned("stream", o))
    + Cardinality(Owned("auth", o)) + Cardinality(Owned("api", o))

PlatformOwns(o) == platform.owned = "yes" /\ platform.object = o

\* the platform callbacks that were set last, then the chains, in the order
\* producer, stream, auth, api; then the provider
FreeAll(also) ==
  frees' = [o \in Objects |->
              frees[o] + (IF PlatformOwns(o) THEN 1 ELSE 0)
                + OwnedCount(o) + (IF o \in also THEN 1 ELSE 0)]

\* one object is appended to three chains, and only its API entry has a free
\* function
createCurlApiCallbacks ==
  [k \in Kinds |->
     IF k = "auth" THEN <<>>
     ELSE <<[object |-> "curl", fns |-> CurlFns[k],
             owned |-> IF k = "api" THEN "yes" ELSE "no"]>>]

\* a chain without room fails the creation of the curl callbacks, which
\* frees the object and the provider
createAbstractDefaultCallbacksProvider ==
  /\ life = "creating"
  /\ IF callbackChainCount > 0
     THEN /\ chain' = createCurlApiCallbacks
          /\ aggregates' = UNION {{<<k, f>> : f \in CurlFns[k]} :
                                   k \in Kinds \ {"auth"}}
          /\ life' = "auth"
          /\ UNCHANGED frees
     ELSE /\ life' = "failed"
          /\ frees' = [frees EXCEPT !["curl"] = 1]
          /\ UNCHANGED <<chain, aggregates>>
  /\ UNCHANGED <<creator, callbackChainCount, held, platformVars, callVars>>

\* the auth callbacks are created, or given, and appended to their chain
AppendAuth(creators, mine) ==
  /\ creator \in creators /\ life = "auth"
  /\ AppendEntry("auth", [object |-> "auth", fns |-> AuthFns, owned |-> "yes"])
  /\ held' = mine
  /\ life' \in IF creator = "createDefaultCallbacksProvider"
                THEN {"retry", "ready"} ELSE {"retry"}
  /\ UNCHANGED <<creator, callbackChainCount, frees, platformVars, callVars>>

createStaticAuthCallbacks ==
  AppendAuth({"createDefaultCallbacksProvider", "WithAwsCredentials"}, {"auth"})
createIotAuthCallbacks == AppendAuth({"WithIotCertificate"}, {"auth"})
createIotAuthCallbacksWithTimeouts ==
  AppendAuth({"WithIotCertificateAndTimeouts"}, {"auth"})
createFileAuthCallbacks == AppendAuth({"WithFileAuth"}, {"auth"})
addGivenAuthCallbacks == AppendAuth({"WithAuthCallbacks"}, {})

\* createContinuousRetryStreamCallbacks
createContinuousRetryStreamCallbacks ==
  /\ life = "retry"
  /\ AppendEntry("stream",
                 [object |-> "retry", fns |-> RetryFns, owned |-> "yes"])
  /\ life' = "ready"
  /\ UNCHANGED <<creator, callbackChainCount, held, frees, platformVars, callVars>>

\* a creation fails (no memory, no credentials, no room in the chain) and
\* frees its own object; then the provider is freed with its chains and, by
\* the pointer that is held, the auth callbacks
CreationFails(object) ==
  /\ life' = "failed"
  /\ FreeAll(held \cup object)
  /\ UNCHANGED <<creator, callbackChainCount, chain, held, aggregates,
                 platformVars, callVars>>

createDefaultCallbacksProviderFails ==
  \/ /\ life = "auth" /\ creator # "WithAuthCallbacks"
     /\ CreationFails({"auth"})
  \/ life = "retry" /\ CreationFails({"retry"})

createDefaultCallbacksProvider ==
  \/ createAbstractDefaultCallbacksProvider
  \/ createStaticAuthCallbacks
  \/ createIotAuthCallbacks \/ createIotAuthCallbacksWithTimeouts
  \/ createFileAuthCallbacks
  \/ addGivenAuthCallbacks
  \/ createContinuousRetryStreamCallbacks
  \/ createDefaultCallbacksProviderFails

freeCallbacksProvider ==
  /\ life = "ready" /\ call = NoCall
  /\ life' = "freed"
  /\ FreeAll({})
  /\ UNCHANGED <<creator, callbackChainCount, chain, held, aggregates, platformVars,
                 callVars>>

-----------------------------------------------------------------------------
(* PIC calls an aggregate: the entries that implement the function are     *)
(* called in chain order; STOP_CALLBACK_CHAIN ends the walk with success,  *)
(* any other failure with that failure.                                    *)

Implementers(k, fn) == {i \in DOMAIN chain[k] : fn \in chain[k][i].fns}

BeginAggregate(k) ==
  /\ life = "ready" /\ call = NoCall
  /\ \E f \in Functions :
       /\ <<k, f>> \in aggregates
       /\ call' = [kind |-> k, fn |-> f, next |-> 1]
  /\ returned' = [i \in DOMAIN chain[k] |-> "notCalled"]

\* Mutant: the walk goes on after a failure
WalkEndsOnStop(status) == status = "stop"

WalkEnds(status) == status # "success"

\* what createStreamCallbacks makes: every function logs and returns success
DefaultStreamCallbacks == "defaultStreamCallbacks"
Answers(o) == IF o = DefaultStreamCallbacks THEN {"success"}
              ELSE {"success", "stop", "failure"}

\* the walk goes on to the next entry
WalkOn == call' = [kind |-> call.kind, fn |-> call.fn, next |-> call.next + 1]

CallNext(k) ==
  /\ call # NoCall /\ call.kind = k
  /\ call.next \in DOMAIN chain[k]
  /\ IF call.next \in Implementers(k, call.fn)
     THEN \E status \in Answers(chain[k][call.next].object) :
            /\ returned' = [returned EXCEPT ![call.next] = status]
            /\ IF WalkEnds(status) THEN call' = NoCall ELSE WalkOn
     ELSE WalkOn /\ UNCHANGED returned

EndOfChain(k) ==
  /\ call # NoCall /\ call.kind = k
  /\ call.next \notin DOMAIN chain[k]
  /\ call' = NoCall
  /\ UNCHANGED returned

Aggregate(k) ==
  /\ BeginAggregate(k) \/ CallNext(k) \/ EndOfChain(k)
  /\ UNCHANGED <<creator, life, callbackChainCount, chain, held, frees, aggregates,
                 platformVars>>

authAggregate == Aggregate("auth")
producerAggregate == Aggregate("producer")
apiAggregate == Aggregate("api")
streamAggregate == Aggregate("stream")

-----------------------------------------------------------------------------
(* The platform callbacks are one structure, replaced as a whole; the      *)
(* aggregates of its functions are installed and never taken out.          *)

\* Mutant: every aggregate is installed, whatever the structure implements
AggregatesOfAll(fns) == {"lockMutexFn", "unlockMutexFn", "getCurrentTimeFn"}

\* the log function has no aggregate: it is called directly
AggregatesOf(fns) == fns \ {"logPrintFn"}

\* the structure before is forgotten, not freed
setPlatformCallbacks(p) ==
  /\ life = "ready" /\ call = NoCall
  /\ platform' = p
  /\ platformAggregates' = platformAggregates \cup AggregatesOf(p.fns)
  /\ replaced' = replaced \cup platform.fns
  /\ UNCHANGED <<creator, life, callbackChainCount, chain, held, frees, aggregates,
                 callVars>>

\* a structure with the log function only, which frees the logger
FileLogger == [object |-> "logger", fns |-> {"logPrintFn"}, owned |-> "yes"]
addFileLoggerPlatformCallbacksProvider == setPlatformCallbacks(FileLogger)
addFileLoggerWithFilteringPlatformCallbacksProvider ==
  setPlatformCallbacks(FileLogger)

\* lockMutexAggregate and its siblings call the function or abort
platformAggregate ==
  /\ life = "ready"
  /\ \E f \in platformAggregates :
       life' = IF f \in platform.fns THEN "ready" ELSE "aborted"
  /\ UNCHANGED <<creator, callbackChainCount, chain, held, frees, aggregates,
                 platformVars, callVars>>

Next ==
  \/ createDefaultCallbacksProvider
  \/ addProducerCallbacks \/ addStreamCallbacks
  \/ addAuthCallbacks \/ addApiCallbacks
  \/ authAggregate \/ producerAggregate \/ apiAggregate \/ streamAggregate
  \/ \E p \in AppPlatforms : setPlatformCallbacks(p)
  \/ addFileLoggerPlatformCallbacksProvider
  \/ addFileLoggerWithFilteringPlatformCallbacksProvider
  \/ platformAggregate
  \/ freeCallbacksProvider

Spec == Init /\ [][Next]_vars

-----------------------------------------------------------------------------
(***************************************************************************)
(* The types of the chains and of a walk over one.                         *)
(***************************************************************************)
ChainTypes ==
  /\ life \in {"creating", "auth", "retry", "ready", "freed", "failed", "aborted"}
  /\ callbackChainCount \in Nat
  /\ chain \in [Kinds -> Seq(Entries)]
  /\ call \in [kind : Kinds, fn : Functions \cup {"none"}, next : Nat]

(***************************************************************************)
(* No chain outgrows the memory allocated for it behind the provider,      *)
(* where the next chain begins, whoever appends: the creation, which does  *)
(* it for up to three components, or the application.                      *)
(***************************************************************************)
ChainsFit == \A k \in Kinds : Len(chain[k]) <= callbackChainCount

\* the chains that will free an object, and everyone who will
OwningChains(o) == {k \in Kinds : Owned(k, o) # {}}
Owners(o) == OwningChains(o) \cup (IF PlatformOwns(o) THEN {"platform"} ELSE {})

(***************************************************************************)
(* However the provider ends, by freeCallbacksProvider or in the clean-up  *)
(* of a creation that failed, what it was given to own is freed.           *)
(* freeCallbacksProvider frees an object that was given to one chain (or   *)
(* with the platform callbacks) exactly once, however often it was added   *)
(* there, with or without a free function.                                 *)
(***************************************************************************)
OwnedAreFreed ==
  \A o \in Objects :
    /\ life \in {"freed", "failed"} /\ Owners(o) # {} => frees[o] >= 1
    /\ life = "freed" /\ Cardinality(Owners(o)) = 1 => frees[o] = 1

(***************************************************************************)
(* "This prevents freeing memory twice" (CallbacksProvider.c:655, of the   *)
(* guard against auth callbacks added twice): the clean-up of a creation   *)
(* that failed frees no object twice.                                      *)
(***************************************************************************)
FailedCreationFreesOnce ==
  life = "failed" => \A o \in Objects : frees[o] <= 1

(***************************************************************************)
(* An aggregate of the platform callbacks that would not find the function *)
(* it stands for is one whose own function was in a structure replaced     *)
(* since: setPlatformCallbacks replaces the structure and keeps the        *)
(* aggregates of the one before.                                           *)
(***************************************************************************)
AggregatesWereImplemented ==
  \A f \in platformAggregates : f \in platform.fns \/ f \in replaced

(***************************************************************************)
(* CHECK_EXT of every platform aggregate (CallbacksProvider.c:1421):       *)
(* no aggregate is "Called ... for a NULL function".                       *)
(***************************************************************************)
AggregatesFindFunctions == life # "aborted"

(***************************************************************************)
(* However the callbacks answer, a callback is called only after every     *)
(* implementer before it in the chain was called and returned success.     *)
(***************************************************************************)
ChainInOrder ==
  call # NoCall =>
    \A i, j \in Implementers(call.kind, call.fn) :
      i < j /\ returned[j] # "notCalled" => returned[i] = "success"

\* Where a walk is: behind the entries that succeeded, in front of the others.
WalkInv ==
  call # NoCall =>
    /\ life \in {"ready", "aborted"}
    /\ DOMAIN returned = DOMAIN chain[call.kind]
    /\ \A i \in Implementers(call.kind, call.fn) :
         returned[i] = IF i < call.next THEN "success" ELSE "notCalled"

\* Inductive: no chain outgrows its memory, a walk stands between success and
\* silence, and every aggregate was installed with a structure that had its function.
ProviderInv ==
  /\ ChainTypes
  /\ ChainsFit
  /\ WalkInv
  /\ AggregatesWereImplemented

\* Every chain frees an object once.
OwnedOncePerChain ==
  \A k \in Kinds, o \in Objects : \A i, j \in Owned(k, o) : i = j

\* What the creation has yet to append is in no chain, so that its own free of
\* an object that it could not append is the only one.
NotAppendedYet ==
  /\ life = "creating" => \A k \in Kinds : chain[k] = <<>>
  /\ life \in {"creating", "auth"} => held = {} /\ OwningChains("auth") = {}
  /\ life \in {"creating", "auth", "retry"} =>
       OwningChains("retry") = {} /\ platform = NoPlatform

\* What each end has freed: an object once for everyone who owns it and, when
\* the creation failed, once more for the pointer its creator held.
AccountOfFrees ==
  \A o \in Objects : Owners(o) # {} =>
    /\ life = "freed" =>
         frees[o] = Cardinality(OwningChains(o)) + (IF PlatformOwns(o) THEN 1 ELSE 0)
    /\ life = "failed" =>
         frees[o] = Cardinality(OwningChains(o)) + (IF PlatformOwns(o) THEN 1 ELSE 0)
                      + (IF o \in held THEN 1 ELSE 0)

\* Inductive, with ProviderInv: nothing is freed before the end, and by then
\* every chain has an object once.
FreesInv ==
  /\ frees \in [Objects -> Nat]
  /\ life \notin {"freed", "failed"} => \A o \in Objects : frees[o] = 0
  /\ OwnedOncePerChain
  /\ NotAppendedYet
  /\ AccountOfFrees

=============================================================================
