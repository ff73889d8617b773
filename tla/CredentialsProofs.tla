------------------------- MODULE CredentialsProofs -------------------------
(***************************************************************************)
(* Proofs about Credentials, for any number of calling threads, objects    *)
(* and time stamps, every grace period and every enforced rotation.        *)
(*                                                                         *)
(* TokensUsable is about what a call holds at its end, and depends on what *)
(* every other call is doing to the cached object meanwhile.  CacheInv     *)
(* follows the object through a replacement (CachedObject), says that the  *)
(* replacing thread is alone with it until threads race (Exclusive), that  *)
(* what a call found good is still so when it is given out (FoundUsable),  *)
(* and that calls come between the creation and the end of a provider.     *)
(***************************************************************************)
EXTENDS Credentials, TLAPS

(* The steps of a call that leave the cached object alone.                 *)
Looks(c) ==
  iotCurlHandler(c) \/ readFileCredentials(c) \/ getStaticCredentials(c)

Fetches(c) ==
  \/ blockingCurlCall(c) \/ CurlPerformed(c) \/ blockingLwsCall(c)
  \/ LwsLoopEnds(c) \/ LwsServiceFails(c)
  \/ writeCurlResponseCallback(c) \/ lwsIotCallbackRoutine(c)
  \/ parseIotResponse(c)

(* Time stamps that are accepted are not negative.                         *)
LEMMA TimestampsAreNat == convertTimestampToEpoch \subseteq Nat
  <1> SUFFICES ASSUME NEW s \in -1..MaxLifetime, s >= 0
               PROVE  (9 * s) \div 10 \in Nat
    BY DEF convertTimestampToEpoch, ConvertedTimestamps
  <1> QED BY CredentialsAssumption

(* An accepted lifetime, cut to the enforced rotation, is not negative.    *)
LEMMA RotatedTtl ==
  ASSUME NEW c \in Threads, NEW lifetime \in Nat, CacheTypes, Rotate(c, lifetime)
  PROVE  /\ newTtl' \in [Threads -> Nat]
         /\ fetched' = [fetched EXCEPT ![c] = TRUE]
         /\ pc' = [pc EXCEPT ![c] = "free"]
         /\ ~raced
  BY CredentialsAssumption DEF Rotate, CacheTypes, Goto

(***************************************************************************)
(* What a look at the cache does: on to the answer with credentials that   *)
(* are good enough, on to a fetch, or a failure.                           *)
(***************************************************************************)
LEMMA LookSteps ==
  ASSUME NEW c \in Threads, CacheTypes, Looks(c)
  PROVE  /\ ~raced /\ pc[c] = "check"
         /\ UNCHANGED <<setup, life, cacheVars, got>>
         /\ newTtl' \in [Threads -> Nat]
         /\ \/ /\ pc' = [pc EXCEPT ![c] = "read"]
               /\ provider # "static" =>
                    ~NeedsRefresh /\ (~raced' => ~OthersAt(c, {"clear", "create"}))
               /\ fetched' = fetched
            \/ /\ pc' \in {[pc EXCEPT ![c] = "call"], [pc EXCEPT ![c] = "failed"]}
               /\ provider # "static"
               /\ fetched' = fetched
            \/ /\ pc' = [pc EXCEPT ![c] = "free"]
               /\ provider # "static"
               /\ fetched' = [fetched EXCEPT ![c] = TRUE]
  <1>1. CASE iotCurlHandler(c)
    BY <1>1 DEF iotCurlHandler, Goto, Fail, Reads, CacheTypes
  <1>2. CASE readFileCredentials(c)
    <2>1. CASE \E t \in convertTimestampToEpoch \cup {MAX_ENFORCED_TOKEN_EXPIRATION_DURATION} :
                 Rotate(c, t)
      BY <1>2, <2>1, RotatedTtl, TimestampsAreNat, CredentialsAssumption
      DEF readFileCredentials
    <2>2. CASE ((~NeedsRefresh /\ Goto(c, "read")) \/ Fail(c)) /\ UNCHANGED <<newTtl, fetched>>
      BY <1>2, <2>2 DEF readFileCredentials, Goto, Fail, Reads, CacheTypes
    <2> QED BY <1>2, <2>1, <2>2 DEF readFileCredentials
  <1>3. CASE getStaticCredentials(c)
    BY <1>3 DEF getStaticCredentials, Goto, CacheTypes
  <1> QED BY <1>1, <1>2, <1>3 DEF Looks

(***************************************************************************)
(* What a step of the service call does: it leaves the cache alone and     *)
(* ends in a failure or with new credentials in hand.                      *)
(***************************************************************************)
LEMMA FetchSteps ==
  ASSUME NEW c \in Threads, CacheTypes, Fetches(c)
  PROVE  /\ UNCHANGED <<setup, life, cacheVars, got, raced>>
         /\ newTtl' \in [Threads -> Nat]
         /\ \/ /\ UNCHANGED <<pc, fetched>>
            \/ /\ pc[c] \in {"call", "perform", "service", "parse"}
               /\ \E l \in {"perform", "service", "parse", "failed"} : pc' = [pc EXCEPT ![c] = l]
               /\ fetched' = fetched
            \/ /\ pc[c] = "parse"
               /\ pc' = [pc EXCEPT ![c] = "free"]
               /\ fetched' = [fetched EXCEPT ![c] = TRUE]
  <1>1. CASE blockingCurlCall(c) \/ CurlPerformed(c) \/ blockingLwsCall(c)
               \/ LwsLoopEnds(c) \/ LwsServiceFails(c)
    BY <1>1 DEF blockingCurlCall, CurlPerformed, blockingLwsCall, LwsLoopEnds,
                LwsServiceFails, StartCall, CallStep, Goto, Fail, CacheTypes
  <1>2. CASE writeCurlResponseCallback(c) \/ lwsIotCallbackRoutine(c)
    BY <1>2 DEF writeCurlResponseCallback, lwsIotCallbackRoutine, CallStep, CacheTypes
  <1>3. CASE parseIotResponse(c)
    <2>1. CASE \E t \in convertTimestampToEpoch : Rotate(c, t)
      BY <1>3, <2>1, RotatedTtl, TimestampsAreNat DEF parseIotResponse
    <2>2. CASE Fail(c) /\ UNCHANGED <<newTtl, fetched>>
      BY <1>3, <2>2 DEF parseIotResponse, Goto, Fail, CacheTypes
    <2> QED BY <1>3, <2>1, <2>2 DEF parseIotResponse
  <1> QED BY <1>1, <1>2, <1>3 DEF Fetches

(* The last steps of a call.                                               *)
LEMMA AnswerSteps ==
  ASSUME NEW c \in Callers, Answer(c)
  PROVE  /\ pc[c] \in {"report", "failed"}
         /\ pc' = [pc EXCEPT ![c] = "returned"]
         /\ UNCHANGED <<setup, life, cacheVars, got, fetched, newTtl, raced>>
  BY DEF Answer, getStreamingTokenIotFunc, getStreamingTokenFileFunc,
         getStreamingTokenStaticFunc, getStreamingTokenCredentialProviderFunc,
         getSecurityTokenIotFunc, getSecurityTokenFileFunc, getSecurityTokenStaticFunc,
         getSecurityTokenCredentialProviderFunc, StreamingTokenReported,
         StreamingTokenReturned, SecurityToken, Return, Goto

(***************************************************************************)
(* A look at the cache keeps the invariant: what is found good enough is   *)
(* the cached object, unless a thread is just replacing it, a race.        *)
(***************************************************************************)
LEMMA LooksKeepCacheInv ==
  ASSUME CacheInv, NEW c \in Threads, Looks(c)
  PROVE  CacheInv'
  <1>1. /\ CacheTypes /\ CallsWhenReady /\ FetchedFirst
        /\ Exclusive /\ CachedObject /\ FoundUsable
    BY LookSteps DEF CacheInv
  <1>2. provider' = provider /\ life' = life /\ pc[c] = "check"
    BY <1>1, LookSteps DEF provider
  <1>3. CacheTypes'
    BY <1>1, LookSteps DEF CacheTypes, Locations, cacheVars
  <1>4. c \in Callers => life = "ready"
    BY <1>1, <1>2 DEF CallsWhenReady
  <1>5. c = Owner => life = "provider"
    BY <1>1, <1>2 DEF CallsWhenReady
  <1>6. CallsWhenReady'
    BY <1>1, <1>2, <1>4, <1>5, LookSteps DEF CallsWhenReady, Threads, CacheTypes
  <1>7. FetchedFirst'
    BY <1>1, <1>2, LookSteps DEF FetchedFirst, CacheTypes
  <1>8. ASSUME ~raced'
        PROVE  Exclusive' /\ CachedObject' /\ FoundUsable'
    <2>1. CASE pc' = [pc EXCEPT ![c] = "read"] /\ fetched' = fetched /\ provider # "static"
      <3>1. ~NeedsRefresh /\ ~OthersAt(c, {"clear", "create"})
        BY <1>1, <1>2, <1>8, <2>1, LookSteps DEF CacheTypes
      <3>2. \A d \in Threads : pc[d] \notin {"clear", "create"}
        BY <1>2, <3>1 DEF OthersAt
      <3>3. pAwsCredentials \in live
        BY <1>1, <3>1, <3>2 DEF CachedObject, NeedsRefresh
      <3>4. ttl[pAwsCredentials] >= FETCH_GRACE_PERIOD /\ ttl[pAwsCredentials] >= 0
        BY <1>1, <3>1, <3>3, CredentialsAssumption DEF NeedsRefresh, CacheTypes
      <3>5. UNCHANGED <<pAwsCredentials, live, ttl, got>>
        BY <1>1, LookSteps DEF cacheVars
      <3>6. Exclusive' /\ CachedObject'
        BY <1>1, <1>2, <2>1, <3>2, <3>3, <3>5 DEF Exclusive, CachedObject, CacheTypes
      <3>7. FoundUsable'
        BY <1>1, <1>2, <2>1, <3>3, <3>4, <3>5 DEF FoundUsable, CacheTypes
      <3> QED BY <3>6, <3>7
    <2>2. CASE pc' = [pc EXCEPT ![c] = "read"] /\ fetched' = fetched /\ provider = "static"
      <3>1. UNCHANGED <<pAwsCredentials, live, ttl, got>>
        BY <1>1, LookSteps DEF cacheVars
      <3>2. c \in Callers /\ life = "ready"
        BY <1>1, <1>2, <1>4, <2>2 DEF CallsWhenReady, Threads
      <3>3. \A d \in Threads : pc[d] \notin {"clear", "create"}
        BY <1>1, <2>2, <3>2 DEF CallsWhenReady, Threads
      <3>4. pAwsCredentials \in live
        BY <1>1, <2>2, <3>2 DEF CachedObject
      <3>5. Exclusive' /\ CachedObject'
        BY <1>1, <1>2, <2>2, <3>1, <3>3, <3>4 DEF Exclusive, CachedObject, CacheTypes
      <3>6. FoundUsable'
        BY <1>1, <1>2, <2>2, <3>1, <3>4 DEF FoundUsable, CacheTypes
      <3> QED BY <3>5, <3>6
    <2>3. CASE \E l \in {"call", "failed", "free"} : pc' = [pc EXCEPT ![c] = l]
      <3>1. UNCHANGED <<pAwsCredentials, live, ttl, got>>
        BY <1>1, LookSteps DEF cacheVars
      <3>2. Exclusive' /\ CachedObject'
        BY <1>1, <1>2, <2>3, <3>1 DEF Exclusive, CachedObject, CacheTypes
      <3>3. \A d \in Threads : pc'[d] \in {"read", "report"} =>
              d # c /\ pc'[d] = pc[d] /\ fetched'[d] = fetched[d]
        BY <1>1, <2>3, LookSteps DEF CacheTypes
      <3>4. FoundUsable'
        BY <1>1, <1>2, <3>1, <3>3 DEF FoundUsable
      <3> QED BY <3>2, <3>4
    <2> QED BY <1>1, <2>1, <2>2, <2>3, LookSteps
  <1> QED BY <1>3, <1>6, <1>7, <1>8 DEF CacheInv

(***************************************************************************)
(* The service call keeps it: other threads are not concerned.             *)
(***************************************************************************)
LEMMA FetchesKeepCacheInv ==
  ASSUME CacheInv, NEW c \in Threads, Fetches(c)
  PROVE  CacheInv'
  <1>1. CacheTypes /\ CallsWhenReady /\ FetchedFirst
    BY DEF CacheInv
  <1>2. UNCHANGED <<setup, life, pAwsCredentials, live, ttl, got, raced>>
    BY <1>1, FetchSteps DEF cacheVars
  <1>3. provider' = provider
    BY <1>2 DEF provider
  <1>4. CacheTypes'
    BY <1>1, <1>2, FetchSteps DEF CacheTypes, Locations
  <1>5. CASE UNCHANGED <<pc, fetched>>
    BY <1>1, <1>2, <1>3, <1>4, <1>5
    DEF CacheInv, CallsWhenReady, FetchedFirst, Exclusive, CachedObject, FoundUsable
  <1>6. CASE /\ pc[c] \in {"call", "perform", "service", "parse"}
             /\ \E l \in {"perform", "service", "parse", "failed", "free"} :
                  pc' = [pc EXCEPT ![c] = l]
             /\ fetched' = fetched \/ fetched' = [fetched EXCEPT ![c] = TRUE]
             /\ pc'[c] = "free" => fetched'[c]
    <2>1. CallsWhenReady'
      <3>1. provider # "static"
        BY <1>1, <1>6 DEF CallsWhenReady, Threads
      <3> QED BY <1>1, <1>2, <1>3, <1>6, <3>1 DEF CallsWhenReady, Threads, CacheTypes
    <2>2. FetchedFirst'
      BY <1>1, <1>3, <1>6 DEF FetchedFirst, CacheTypes
    <2>3. ASSUME ~raced
          PROVE  Exclusive' /\ CachedObject' /\ FoundUsable'
      <3>1. Exclusive /\ CachedObject /\ FoundUsable
        BY <2>3 DEF CacheInv
      <3>2. \A d \in Threads : pc'[d] \in {"clear", "create", "read", "report"} =>
              d # c /\ pc'[d] = pc[d] /\ fetched'[d] = fetched[d]
        BY <1>1, <1>6 DEF CacheTypes
      <3>3. \A d \in Threads : pc[d] = "clear" => pc'[d] = "clear"
        BY <1>1, <1>6 DEF CacheTypes
      <3>4. Exclusive'
        BY <3>1, <3>2 DEF Exclusive
      <3>5. CachedObject'
        BY <1>2, <1>3, <3>1, <3>2, <3>3 DEF CachedObject
      <3>6. FoundUsable'
        BY <1>2, <1>3, <3>1, <3>2 DEF FoundUsable
      <3> QED BY <3>4, <3>5, <3>6
    <2> QED BY <1>2, <1>4, <2>1, <2>2, <2>3 DEF CacheInv
  <1>7. ASSUME pc' = [pc EXCEPT ![c] = "free"], fetched' = [fetched EXCEPT ![c] = TRUE]
        PROVE  fetched'[c]
    BY <1>1, <1>7 DEF CacheTypes
  <1>8. ASSUME NEW l \in {"perform", "service", "parse", "failed"},
               pc' = [pc EXCEPT ![c] = l]
        PROVE  pc'[c] # "free"
    BY <1>1, <1>8 DEF CacheTypes
  <1> QED BY <1>1, <1>5, <1>6, <1>7, <1>8, FetchSteps

(***************************************************************************)
(* The beginning and the end of a call keep it.                            *)
(***************************************************************************)
LEMMA CallsKeepCacheInv ==
  ASSUME CacheInv, NEW c \in Callers, Call(c) \/ Answer(c) \/ Returned(c)
  PROVE  CacheInv'
  <1>1. CacheTypes /\ CallsWhenReady /\ FetchedFirst
    BY DEF CacheInv
  <1>2. UNCHANGED <<setup, life, pAwsCredentials, live, ttl, newTtl, raced>>
    BY AnswerSteps DEF cacheVars, Call, Returned
  <1>3. provider' = provider
    BY <1>2 DEF provider
  <1>4. \E l \in {"check", "returned", "idle"} : pc' = [pc EXCEPT ![c] = l]
    BY AnswerSteps DEF Call, Returned, Goto
  <1>5. /\ pc[c] \in {"idle", "report", "failed", "returned"}
        /\ fetched' \in {fetched, [fetched EXCEPT ![c] = FALSE]}
        /\ got' \in {got, [got EXCEPT ![c] = NULL]}
    BY AnswerSteps DEF Call, Returned
  <1>6. life = "ready"
    BY <1>1, <1>5, AnswerSteps DEF Call, Returned, CallsWhenReady
  <1>7. c \in Threads /\ c # Owner
    BY CredentialsAssumption DEF Threads
  <1>8. CacheTypes'
    BY <1>1, <1>2, <1>4, <1>5, <1>7 DEF CacheTypes, Locations
  <1>9. CallsWhenReady'
    BY <1>1, <1>2, <1>3, <1>4, <1>6, <1>7 DEF CallsWhenReady, CacheTypes, Threads
  <1>10. \A d \in Threads :
            pc'[d] \in {"free", "clear", "create", "read", "report"} =>
              pc'[d] = pc[d] /\ fetched'[d] = fetched[d] /\ got'[d] = got[d]
    BY <1>1, <1>4, <1>5, <1>7 DEF CacheTypes
  <1>11. FetchedFirst'
    BY <1>1, <1>3, <1>10 DEF FetchedFirst
  <1>12. ASSUME ~raced
         PROVE  Exclusive' /\ CachedObject' /\ FoundUsable'
    <2>1. Exclusive /\ CachedObject /\ FoundUsable
      BY <1>12 DEF CacheInv
    <2>2. \A d \in Threads : pc[d] = "clear" => pc'[d] = "clear"
      BY <1>1, <1>4, <1>5, <1>7 DEF CacheTypes
    <2>3. Exclusive'
      BY <1>10, <2>1 DEF Exclusive
    <2>4. CachedObject'
      BY <1>2, <1>3, <1>10, <2>1, <2>2 DEF CachedObject
    <2>5. FoundUsable'
      BY <1>2, <1>3, <1>10, <2>1 DEF FoundUsable
    <2> QED BY <2>3, <2>4, <2>5
  <1> QED BY <1>2, <1>8, <1>9, <1>11, <1>12 DEF CacheInv

(***************************************************************************)
(* Replacing the object keeps it: a thread that begins while another one   *)
(* replaces or uses the object is a race; one that has begun is alone.     *)
(***************************************************************************)
LEMMA ReplacementKeepsCacheInv ==
  ASSUME CacheInv, NEW c \in Threads,
         freeAwsCredentials(c) \/ ClearPointer(c) \/ createAwsCredentials(c)
  PROVE  CacheInv'
  <1>1. /\ CacheTypes /\ CallsWhenReady /\ FetchedFirst /\ ~raced
        /\ Exclusive /\ CachedObject /\ FoundUsable
    BY DEF CacheInv, freeAwsCredentials, ClearPointer, createAwsCredentials, Goto, Fail
  <1>2. /\ UNCHANGED <<setup, life, got, fetched>>
        /\ pc[c] \in {"free", "clear", "create"}
        /\ \E l \in {"clear", "create", "read", "failed"} : pc' = [pc EXCEPT ![c] = l]
    BY DEF freeAwsCredentials, ClearPointer, createAwsCredentials, Goto, Fail
  <1>3. provider' = provider
    BY <1>2 DEF provider
  <1>4. CacheTypes'
    <2>1. CASE freeAwsCredentials(c)
      BY <1>1, <1>2, <2>1 DEF freeAwsCredentials, CacheTypes, Locations
    <2>2. CASE ClearPointer(c)
      BY <1>1, <1>2, <2>2 DEF ClearPointer, CacheTypes, Locations
    <2>3. CASE createAwsCredentials(c)
      <3>1. newTtl' \in [Threads -> Nat] /\ ttl' \in [Objects -> Int]
        BY <1>1, <2>3 DEF createAwsCredentials, CacheTypes
      <3>2. live' \in SUBSET Objects /\ pAwsCredentials' \in Objects \cup {NULL}
        BY <1>1, <2>3 DEF createAwsCredentials, CacheTypes
      <3>3. pc' \in [Threads -> Locations]
        BY <1>1, <1>2 DEF CacheTypes, Locations
      <3> QED BY <1>1, <1>2, <3>1, <3>2, <3>3 DEF CacheTypes
    <2> QED BY <2>1, <2>2, <2>3
  <1>5. provider = "static" => c = Owner /\ pc[c] = "create"
    BY <1>1, <1>2 DEF CallsWhenReady, Threads
  <1>6. CallsWhenReady'
    <2>1. c \in Callers => life = "ready" /\ c # Owner
      BY <1>1, <1>2, CredentialsAssumption DEF CallsWhenReady
    <2>2. c = Owner => life = "provider" /\ c \notin Callers
      BY <1>1, <1>2, CredentialsAssumption DEF CallsWhenReady
    <2>3. pc[c] = "create" => \E l \in {"read", "failed"} : pc' = [pc EXCEPT ![c] = l]
      BY DEF freeAwsCredentials, ClearPointer, createAwsCredentials, Goto, Fail
    <2> QED BY <1>1, <1>2, <1>3, <1>5, <2>1, <2>2, <2>3 DEF CallsWhenReady, CacheTypes, Threads
  <1>7. FetchedFirst'
    <2>1. \A d \in Threads : pc'[d] \in {"free", "clear", "create"}
                              => pc[d] \in {"free", "clear", "create"}
      BY <1>1, <1>2 DEF CacheTypes
    <2> QED BY <1>1, <1>2, <1>3, <2>1 DEF FetchedFirst
  <1>8. ASSUME ~raced'
        PROVE  Exclusive' /\ CachedObject' /\ FoundUsable'
    <2>1. \A d \in Threads \ {c} :
            pc[d] \notin {"clear", "create", "read", "report"} /\ pc'[d] = pc[d]
      <3>1. CASE freeAwsCredentials(c)
        BY <1>1, <1>2, <1>8, <3>1 DEF freeAwsCredentials, Replaces, OthersAt, CacheTypes
      <3>2. CASE ClearPointer(c) \/ createAwsCredentials(c)
        BY <1>1, <1>2, <3>2 DEF ClearPointer, createAwsCredentials, Exclusive, CacheTypes
      <3> QED BY <3>1, <3>2
    <2>2. Exclusive'
      BY <2>1 DEF Exclusive
    <2>3. CASE freeAwsCredentials(c)
      <3>1. live' = {} /\ pAwsCredentials' = pAwsCredentials
        BY <1>1, <2>3 DEF freeAwsCredentials, CachedObject
      <3>2. pc'[c] = IF pAwsCredentials = NULL THEN "create" ELSE "clear"
        BY <1>1, <2>3 DEF freeAwsCredentials, Goto, CacheTypes
      <3>3. provider # "static"
        BY <1>5, <2>3 DEF freeAwsCredentials
      <3>4. CachedObject'
        BY <1>3, <2>1, <3>1, <3>2, <3>3 DEF CachedObject
      <3>5. FoundUsable'
        BY <2>1, <3>2 DEF FoundUsable
      <3> QED BY <2>2, <3>4, <3>5
    <2>4. CASE ClearPointer(c)
      <3>1. live' = {} /\ pAwsCredentials' = NULL /\ pc'[c] = "create"
        BY <1>1, <2>4 DEF ClearPointer, CachedObject, Goto, CacheTypes
      <3>2. provider # "static"
        BY <1>5, <2>4 DEF ClearPointer
      <3>3. CachedObject'
        BY <1>3, <2>1, <3>1, <3>2 DEF CachedObject
      <3>4. FoundUsable'
        BY <2>1, <3>1 DEF FoundUsable
      <3> QED BY <2>2, <3>3, <3>4
    <2>5. CASE createAwsCredentials(c)
      <3>1. live = {} /\ pc[c] = "create"
        BY <1>1, <2>5 DEF createAwsCredentials, CachedObject
      <3>2. life \in {"provider", "ready"} /\ (provider = "static" => life = "provider")
        BY <1>1, <1>5, <3>1 DEF CallsWhenReady, Threads
      <3>3. CASE pAwsCredentials' = NULL /\ live' = live /\ Fail(c)
        <4>1. pc'[c] = "failed"
          BY <1>1, <3>3 DEF Fail, Goto, CacheTypes
        <4>2. CachedObject'
          BY <1>2, <1>3, <2>1, <3>1, <3>2, <3>3, <4>1 DEF CachedObject
        <4>3. FoundUsable'
          BY <2>1, <4>1 DEF FoundUsable
        <4> QED BY <2>2, <4>2, <4>3
      <3>4. CASE \E o \in Objects \ live :
                   /\ live' = live \cup {o}
                   /\ ttl' = [ttl EXCEPT ![o] = newTtl[c]]
                   /\ pAwsCredentials' = o
                   /\ Goto(c, "read")
        <4>1. PICK o \in Objects :
                   /\ live' = live \cup {o}
                   /\ ttl' = [ttl EXCEPT ![o] = newTtl[c]]
                   /\ pAwsCredentials' = o
                   /\ Goto(c, "read")
          BY <3>4
        <4>2. pc'[c] = "read" /\ live' = {o} /\ ttl'[o] \in Nat
          BY <1>1, <3>1, <4>1 DEF Goto, CacheTypes
        <4>3. CachedObject'
          BY <1>2, <1>3, <2>1, <3>2, <4>1, <4>2 DEF CachedObject
        <4>4. provider # "static" => fetched[c] = TRUE
          BY <1>1, <3>1 DEF FetchedFirst, CacheTypes
        <4>5. FoundUsable'
          BY <1>2, <1>3, <2>1, <4>1, <4>2, <4>4 DEF FoundUsable
        <4> QED BY <2>2, <4>3, <4>5
      <3> QED BY <2>5, <3>3, <3>4 DEF createAwsCredentials
    <2> QED BY <2>3, <2>4, <2>5
  <1> QED BY <1>4, <1>6, <1>7, <1>8 DEF CacheInv

(***************************************************************************)
(* Taking the pointer keeps it.                                            *)
(***************************************************************************)
LEMMA ReadingKeepsCacheInv ==
  ASSUME CacheInv, NEW c \in Threads, getCredentials(c)
  PROVE  CacheInv'
  <1>1. /\ CacheTypes /\ CallsWhenReady /\ FetchedFirst /\ ~raced
        /\ Exclusive /\ CachedObject /\ FoundUsable
    BY DEF CacheInv, getCredentials, Goto
  <1>2. /\ UNCHANGED <<setup, life, pAwsCredentials, live, ttl, fetched, newTtl>>
        /\ pc[c] = "read" /\ c \in Callers
        /\ pc' = [pc EXCEPT ![c] = "report"]
        /\ got' = [got EXCEPT ![c] = pAwsCredentials]
    BY DEF getCredentials, Goto, cacheVars
  <1>3. provider' = provider
    BY <1>2 DEF provider
  <1>4. CacheTypes'
    BY <1>1, <1>2 DEF CacheTypes, Locations
  <1>5. CallsWhenReady'
    BY <1>1, <1>2, <1>3, CredentialsAssumption DEF CallsWhenReady, CacheTypes, Threads
  <1>6. FetchedFirst'
    BY <1>1, <1>2, <1>3 DEF FetchedFirst, CacheTypes
  <1>7. Exclusive' /\ CachedObject'
    BY <1>1, <1>2, <1>3 DEF Exclusive, CachedObject, CacheTypes
  <1>8. FoundUsable'
    BY <1>1, <1>2, <1>3 DEF FoundUsable, CacheTypes
  <1> QED BY <1>4, <1>5, <1>6, <1>7, <1>8 DEF CacheInv

(***************************************************************************)
(* The owner's steps keep it: nobody calls meanwhile.                      *)
(***************************************************************************)
LEMMA OwnerKeepsCacheInv ==
  ASSUME CacheInv, Create \/ Free
  PROVE  CacheInv'
  <1>1. CacheTypes /\ CallsWhenReady /\ FetchedFirst
    BY DEF CacheInv
  <1>2. CASE createCredentialProvider
    <2>1. /\ life = "provider" /\ ~raced
          /\ UNCHANGED <<setup, ttl, got, newTtl, raced>>
          /\ pc' = [pc EXCEPT ![Owner] = "idle"]
          /\ fetched' = [fetched EXCEPT ![Owner] = FALSE]
      BY <1>2 DEF createCredentialProvider, Goto
    <2>2. \/ pc[Owner] = "read" /\ life' = "auth" /\ UNCHANGED <<pAwsCredentials, live>>
          \/ FreeProvider
      BY <1>2 DEF createCredentialProvider
    <2>3. provider' = provider
      BY <2>1 DEF provider
    <2>4. Exclusive /\ CachedObject /\ FoundUsable
      BY <2>1 DEF CacheInv
    <2>5. Owner \in Threads
      BY DEF Threads
    <2>6. CacheTypes'
      BY <1>1, <2>1, <2>2, <2>5 DEF CacheTypes, Locations, FreeProvider
    <2>7. \A d \in Threads : pc'[d] = "idle"
      BY <1>1, <2>1, <2>5 DEF CallsWhenReady, Threads, CacheTypes
    <2>8. CallsWhenReady' /\ FetchedFirst' /\ Exclusive' /\ FoundUsable'
      BY <2>5, <2>7 DEF CallsWhenReady, FetchedFirst, Exclusive, FoundUsable, Threads
    <2>9. CachedObject'
      <3>1. CASE FreeProvider
        BY <2>4, <2>7, <3>1 DEF FreeProvider, CachedObject
      <3>2. CASE pc[Owner] = "read" /\ life' = "auth" /\ UNCHANGED <<pAwsCredentials, live>>
        <4>1. pAwsCredentials \in live
          BY <2>4, <2>5, <3>2 DEF FoundUsable
        <4> QED BY <2>4, <2>7, <3>2, <4>1 DEF CachedObject
      <3> QED BY <2>2, <3>1, <3>2
    <2> QED BY <2>6, <2>8, <2>9 DEF CacheInv
  <1>3. ASSUME /\ UNCHANGED pc /\ OwnerStep
               /\ \A d \in Threads : pc[d] = "idle"
               /\ \/ life' \in {"ready", "authFreed"} /\ life \in {"auth", "ready"}
                     /\ UNCHANGED <<pAwsCredentials, live>>
                  \/ FreeProvider
        PROVE  CacheInv'
    <2>1. UNCHANGED <<pc, setup, ttl, got, fetched, newTtl, raced>>
      BY <1>3 DEF OwnerStep
    <2>2. provider' = provider /\ Owner \in Threads
      BY <2>1 DEF provider, Threads
    <2>3. CacheTypes'
      BY <1>1, <1>3, <2>1 DEF CacheTypes, FreeProvider
    <2>4. CallsWhenReady' /\ FetchedFirst' /\ Exclusive' /\ FoundUsable'
      BY <1>3, <2>1, <2>2 DEF CallsWhenReady, FetchedFirst, Exclusive, FoundUsable, Threads
    <2>5. ~raced => CachedObject'
      BY <1>3, <2>1, <2>2 DEF FreeProvider, CachedObject, CacheInv
    <2> QED BY <2>1, <2>3, <2>4, <2>5 DEF CacheInv
  <1>4. life \in {"auth", "authFreed"} => \A d \in Threads : pc[d] = "idle"
    BY <1>1 DEF CallsWhenReady, Threads
  <1>5. ASSUME NEW a, CreateAuthCallbacks(a) \/ FreeAuthCallbacks(a)
        PROVE  CacheInv'
    BY <1>3, <1>4, <1>5 DEF CreateAuthCallbacks, FreeAuthCallbacks, NobodyCalls
  <1>6. ASSUME NEW ps, FreeCredentialProvider(ps)
        PROVE  CacheInv'
    BY <1>3, <1>4, <1>6 DEF FreeCredentialProvider
  <1>7. CASE freeCredentialProviderAuthCallbacks
    BY <1>3, <1>7 DEF freeCredentialProviderAuthCallbacks, NobodyCalls
  <1>8. CASE Create
    BY <1>2, <1>5, <1>8
    DEF Create, createIotCredentialProviderWithTime, createFileCredentialProviderWithTime,
        createStaticCredentialProvider, createIotAuthCallbacks, createFileAuthCallbacks,
        createStaticAuthCallbacks, createCredentialProviderAuthCallbacks
  <1>9. CASE Free
    BY <1>5, <1>6, <1>7, <1>9
    DEF Free, freeIotAuthCallbacks, freeFileAuthCallbacks, freeStaticAuthCallbacks,
        freeIotCredentialProvider, freeFileCredentialProvider, freeStaticCredentialProvider
  <1> QED BY <1>8, <1>9

(***************************************************************************)
(* The clock moves only while nobody holds credentials.                    *)
(***************************************************************************)
LEMMA TickKeepsCacheInv == CacheInv /\ Tick => CacheInv'
  <1> SUFFICES ASSUME CacheInv, Tick
               PROVE  CacheInv'
    OBVIOUS
  <1>1. /\ CacheTypes /\ CallsWhenReady /\ FetchedFirst /\ ~raced
        /\ Exclusive /\ CachedObject
    BY DEF CacheInv, Tick
  <1>2. /\ UNCHANGED <<setup, life, pAwsCredentials, live, pc, got, fetched, newTtl, raced>>
        /\ \A c \in Threads : pc[c] \notin {"read", "report"}
    BY DEF Tick, Waiting
  <1>3. provider' = provider
    BY <1>2 DEF provider
  <1>4. ttl' \in [Objects -> Int]
    BY <1>1 DEF Tick, CacheTypes
  <1>5. CacheTypes'
    BY <1>1, <1>2, <1>4 DEF CacheTypes
  <1>6. CallsWhenReady' /\ FetchedFirst' /\ Exclusive' /\ CachedObject' /\ FoundUsable'
    BY <1>1, <1>2, <1>3 DEF CallsWhenReady, FetchedFirst, Exclusive, CachedObject, FoundUsable
  <1> QED BY <1>5, <1>6 DEF CacheInv

(***************************************************************************)
(* The invariant of the credentials cache.                                 *)
(***************************************************************************)
THEOREM CacheInvariance == Spec => []CacheInv
<1>1. Init => CacheInv
  <2> SUFFICES ASSUME Init
               PROVE  CacheInv
    OBVIOUS
  <2> USE CredentialsAssumption DEF Init
  <2>1. \A c \in Callers : c # Owner
    OBVIOUS
  <2>2. \A c \in Threads : pc[c] \in {"idle", "create", "check"}
                           /\ (pc[c] = "create" => c = Owner /\ provider = "static")
    BY DEF Threads
  <2>3. pc \in [Threads -> Locations]
    BY DEF Locations
  <2>4. CacheTypes
    BY <2>3 DEF CacheTypes
  <2>5. CallsWhenReady
    BY <2>1 DEF CallsWhenReady, Threads
  <2>6. FetchedFirst /\ Exclusive /\ CachedObject /\ FoundUsable
    BY <2>2 DEF FetchedFirst, Exclusive, CachedObject, FoundUsable
  <2> QED BY <2>4, <2>5, <2>6 DEF CacheInv
<1>2. CacheInv /\ [Next]_vars => CacheInv'
  <2> SUFFICES ASSUME CacheInv, [Next]_vars
               PROVE  CacheInv'
    OBVIOUS
  <2>1. ASSUME NEW c \in Threads,
               Refresh(c) \/ writeCurlResponseCallback(c) \/ lwsIotCallbackRoutine(c)
                 \/ LwsServiceFails(c)
        PROVE  CacheInv'
    BY <2>1, LooksKeepCacheInv, FetchesKeepCacheInv, ReplacementKeepsCacheInv,
       ReadingKeepsCacheInv
    DEF Refresh, Looks, Fetches
  <2>2. CASE UNCHANGED vars
    BY <2>2 DEF vars, CacheInv, CacheTypes, CallsWhenReady, FetchedFirst, Exclusive,
                CachedObject, FoundUsable, provider
  <2> QED
    BY <2>1, <2>2, CallsKeepCacheInv, OwnerKeepsCacheInv, TickKeepsCacheInv DEF Next
<1> QED
  BY <1>1, <1>2, PTL DEF Spec

(***************************************************************************)
(* Until rotations race, the token a call gives to PIC is allocated, has   *)
(* not expired, and lasts for the grace period unless it was fetched for   *)
(* this call, for any number of threads and every choice of the periods.   *)
(***************************************************************************)
THEOREM GivenTokensAreUsable == Spec => []TokensUsable
<1>1. CacheInv => TokensUsable
  BY DEF CacheInv, FoundUsable, TokensUsable, Threads
<1> QED
  BY <1>1, CacheInvariance, PTL

(* A thread in the middle of a call is the only one in any, if at most one *)
(* thread calls: the owner's creation ends before the first call begins.   *)
LEMMA OneAtATime ==
  ASSUME \A c, d \in Callers : c = d, CallsWhenReady,
         NEW c \in Threads, pc[c] # "idle", NEW d \in Threads \ {c}
  PROVE  pc[d] = "idle"
  BY DEF CallsWhenReady, Threads

(***************************************************************************)
(* A provider that only one thread calls owns one object at most, the      *)
(* cached one, hands out none that is freed and leaves none behind: the    *)
(* two threads of the counterexample to GivenIsAllocated are necessary.    *)
(* Nothing is assumed about races; that there are none is what is proved.  *)
(***************************************************************************)
THEOREM OneThreadIsSafe ==
  ASSUME \A c, d \in Callers : c = d
  PROVE  Spec => [](CacheOwns /\ GivenIsAllocated)
<1>1. Init => ~raced
  BY DEF Init
<1>2. CacheInv /\ ~raced /\ [Next]_vars => ~raced'
  <2> SUFFICES ASSUME CacheInv, ~raced, [Next]_vars
               PROVE  ~raced'
    OBVIOUS
  <2>1. CallsWhenReady
    BY DEF CacheInv
  <2>2. ASSUME NEW c \in Threads, pc[c] # "idle", Reads(c) \/ Replaces(c)
        PROVE  ~raced'
    <3>1. \A d \in Threads \ {c} : pc[d] = "idle"
      BY <2>1, <2>2, OneAtATime
    <3> QED BY <2>2, <3>1 DEF Reads, Replaces, OthersAt
  <2>3. ASSUME NEW c \in Threads, Refresh(c)
        PROVE  ~raced'
    BY <2>2, <2>3
    DEF Refresh, iotCurlHandler, readFileCredentials, getStaticCredentials, blockingCurlCall,
        CurlPerformed, blockingLwsCall, LwsLoopEnds, parseIotResponse, CallStep,
        freeAwsCredentials, ClearPointer, createAwsCredentials, getCredentials
  <2>4. ASSUME NEW c \in Threads,
               writeCurlResponseCallback(c) \/ lwsIotCallbackRoutine(c) \/ LwsServiceFails(c)
        PROVE  ~raced'
    BY <2>4 DEF writeCurlResponseCallback, lwsIotCallbackRoutine, LwsServiceFails, CallStep
  <2>5. ASSUME NEW c \in Callers, Call(c) \/ Answer(c) \/ Returned(c)
        PROVE  ~raced'
    BY <2>5
    DEF Call, Returned, Answer, Return, StreamingTokenReported, StreamingTokenReturned,
        SecurityToken, getStreamingTokenIotFunc, getStreamingTokenFileFunc,
        getStreamingTokenStaticFunc, getStreamingTokenCredentialProviderFunc,
        getSecurityTokenIotFunc, getSecurityTokenFileFunc, getSecurityTokenStaticFunc,
        getSecurityTokenCredentialProviderFunc
  <2>6. CASE Create
    BY <2>6
    DEF Create, createIotCredentialProviderWithTime, createFileCredentialProviderWithTime,
        createStaticCredentialProvider, createCredentialProvider, createIotAuthCallbacks,
        createFileAuthCallbacks, createStaticAuthCallbacks,
        createCredentialProviderAuthCallbacks, CreateAuthCallbacks, OwnerStep
  <2>7. CASE Free
    BY <2>7
    DEF Free, freeIotAuthCallbacks, freeFileAuthCallbacks, freeStaticAuthCallbacks,
        freeCredentialProviderAuthCallbacks, freeIotCredentialProvider,
        freeFileCredentialProvider, freeStaticCredentialProvider, FreeAuthCallbacks,
        FreeCredentialProvider, OwnerStep
  <2>8. CASE Tick \/ UNCHANGED vars
    BY <2>8 DEF Tick, vars
  <2> QED BY <2>3, <2>4, <2>5, <2>6, <2>7, <2>8 DEF Next
<1>3. CacheInv /\ ~raced => CacheOwns /\ GivenIsAllocated
  BY DEF CacheInv, CachedObject, FoundUsable, CacheOwns, GivenIsAllocated, Threads
<1> QED
  BY <1>1, <1>2, <1>3, CacheInvariance, PTL DEF Spec

=============================================================================
