----------------------- MODULE CallbacksProviderProofs -----------------------
(***************************************************************************)
(* Proofs about CallbacksProvider, for any capacity of the chains and any  *)
(* callbacks the application adds.                                         *)
(*                                                                         *)
(* ChainInOrder is about the results of a walk; it is inductive only with  *)
(* where the walk is (WalkInv) and with the fact that nobody changes a     *)
(* chain under a walk.  OwnedAreFreed follows from an account of all frees *)
(* (AccountOfFrees) that includes the second free of the auth callbacks in *)
(* a failed creation; it needs that a chain owns an object at most once    *)
(* (OwnedOncePerChain), that what is still to be appended is in no chain   *)
(* (NotAppendedYet), and that nothing is freed before the end (FreesInv).  *)
(***************************************************************************)
EXTENDS CallbacksProvider, FiniteSetTheorems, TLAPS

(* The default components' structures are callback structures.             *)
LEMMA DefaultEntries ==
  /\ \A k \in Kinds, own \in {"yes", "no"} :
       [object |-> "curl", fns |-> CurlFns[k], owned |-> own] \in Entries
  /\ [object |-> "auth", fns |-> AuthFns, owned |-> "yes"] \in Entries
  /\ [object |-> "retry", fns |-> RetryFns, owned |-> "yes"] \in Entries
  <1>1. AuthFns \in SUBSET Functions /\ RetryFns \in SUBSET Functions
    BY DEF Functions
  <1>2. \A k \in Kinds : CurlFns[k] \in SUBSET Functions
    BY DEF Functions
  <1> QED BY <1>1, <1>2 DEF Entries, Objects

(* Appending keeps the types and the capacity.                             *)
LEMMA AppendFits ==
  ASSUME ChainTypes, ChainsFit, NEW k \in Kinds, NEW e \in Entries, AppendEntry(k, e),
         callbackChainCount' = callbackChainCount
  PROVE  chain' \in [Kinds -> Seq(Entries)] /\ ChainsFit'
  <1>1. chain[k] \in Seq(Entries) /\ Len(chain[k]) < callbackChainCount
    BY DEF AppendEntry, Accepts, HasRoom, ChainTypes
  <1>2. Append(chain[k], e) \in Seq(Entries) /\ Len(Append(chain[k], e)) = Len(chain[k]) + 1
    BY <1>1
  <1>3. chain' = [chain EXCEPT ![k] = Append(chain[k], e)]
    BY DEF AppendEntry
  <1>4. Len(chain[k]) + 1 <= callbackChainCount
    BY <1>1 DEF ChainTypes
  <1> QED BY <1>2, <1>3, <1>4 DEF ChainTypes, ChainsFit

(***************************************************************************)
(* Every step keeps the invariant.                                         *)
(***************************************************************************)
LEMMA NextKeepsProviderInv == ProviderInv /\ [Next]_vars => ProviderInv'
  <1> SUFFICES ASSUME ProviderInv, [Next]_vars
               PROVE  ProviderInv'
    OBVIOUS
  <1>i. /\ ChainTypes /\ ChainsFit /\ WalkInv
        /\ AggregatesWereImplemented
    BY DEF ProviderInv
  <1>n. NoCall \in [kind : Kinds, fn : Functions \cup {"none"}, next : Nat]
    BY DEF NoCall, Kinds
  (* Steps between walks that leave the platform callbacks alone. *)
  <1>a. ASSUME call = NoCall, UNCHANGED <<callVars, platformVars, callbackChainCount>>,
               chain' \in [Kinds -> Seq(Entries)], ChainsFit',
               life # "aborted", life' # "aborted",
               life' \in {"creating", "auth", "retry", "ready", "freed", "failed"}
        PROVE  ProviderInv'
    <2>1. ChainTypes' /\ WalkInv'
      BY <1>i, <1>a DEF ChainTypes, WalkInv, callVars
    <2>2. AggregatesWereImplemented'
      BY <1>i, <1>a DEF AggregatesWereImplemented, platformVars
    <2> QED BY <1>a, <2>1, <2>2 DEF ProviderInv
  <1>b. life \notin {"ready", "aborted"} => call = NoCall
    BY <1>i DEF WalkInv
  <1>1. ASSUME NEW k \in Kinds, AddCallbacks(k)
        PROVE  ProviderInv'
    <2>1. PICK a \in AppCallbacks : AppendEntry(k, a.entry)
      BY <1>1 DEF AddCallbacks
    <2>2. a.entry \in Entries
      BY ProviderAssumption
    <2>3. chain' \in [Kinds -> Seq(Entries)] /\ ChainsFit'
      BY <1>i, <1>1, <2>1, <2>2, AppendFits DEF AddCallbacks
    <2> QED BY <1>a, <1>1, <2>3 DEF AddCallbacks
  <1>2. CASE createAbstractDefaultCallbacksProvider
    <2>1. CASE callbackChainCount > 0
      <3>1. \A k \in Kinds : createCurlApiCallbacks[k] \in Seq(Entries)
                             /\ Len(createCurlApiCallbacks[k]) <= 1
        <4> SUFFICES ASSUME NEW k \in Kinds
                     PROVE  createCurlApiCallbacks[k] \in Seq(Entries)
                            /\ Len(createCurlApiCallbacks[k]) <= 1
          OBVIOUS
        <4>1. CASE k = "auth"
          BY <4>1 DEF createCurlApiCallbacks
        <4>2. CASE k # "auth"
          <5> DEFINE e == [object |-> "curl", fns |-> CurlFns[k],
                           owned |-> IF k = "api" THEN "yes" ELSE "no"]
          <5>1. e \in Entries
            BY DefaultEntries
          <5>2. createCurlApiCallbacks[k] = <<e>>
            BY <4>2 DEF createCurlApiCallbacks
          <5> HIDE DEF e
          <5> QED BY <5>1, <5>2
        <4> QED BY <4>1, <4>2
      <3>2. chain' = createCurlApiCallbacks /\ life' = "auth"
        BY <1>2, <2>1 DEF createAbstractDefaultCallbacksProvider
      <3>3. createCurlApiCallbacks = [k \in Kinds |-> createCurlApiCallbacks[k]]
        BY DEF createCurlApiCallbacks
      <3>4. chain' \in [Kinds -> Seq(Entries)]
        BY <3>1, <3>2, <3>3
      <3>5. callbackChainCount' = callbackChainCount /\ 1 <= callbackChainCount
        BY <1>i, <1>2, <2>1 DEF createAbstractDefaultCallbacksProvider, ChainTypes
      <3>6. \A k \in Kinds : Len(chain'[k]) \in Nat /\ Len(chain'[k]) <= 1
        BY <3>1, <3>2
      <3>7. ChainsFit'
        BY <1>i, <3>5, <3>6 DEF ChainsFit, ChainTypes
      <3> QED BY <1>a, <1>b, <1>2, <3>2, <3>4, <3>7
              DEF createAbstractDefaultCallbacksProvider
    <2>2. CASE ~(callbackChainCount > 0)
      BY <1>a, <1>b, <1>i, <1>2, <2>2
      DEF createAbstractDefaultCallbacksProvider, ChainTypes, ChainsFit
    <2> QED BY <2>1, <2>2
  <1>3. ASSUME NEW creators, NEW mine, AppendAuth(creators, mine)
        PROVE  ProviderInv'
    <2>1. chain' \in [Kinds -> Seq(Entries)] /\ ChainsFit'
      BY <1>i, <1>3, DefaultEntries, AppendFits DEF AppendAuth, Kinds
    <2> QED BY <1>a, <1>b, <1>3, <2>1 DEF AppendAuth
  <1>4. CASE createContinuousRetryStreamCallbacks
    <2>1. chain' \in [Kinds -> Seq(Entries)] /\ ChainsFit'
      BY <1>i, <1>4, DefaultEntries, AppendFits DEF createContinuousRetryStreamCallbacks, Kinds
    <2> QED BY <1>a, <1>b, <1>4, <2>1 DEF createContinuousRetryStreamCallbacks
  <1>5. CASE createDefaultCallbacksProviderFails
    BY <1>a, <1>b, <1>i, <1>5
    DEF createDefaultCallbacksProviderFails, CreationFails, ChainTypes, ChainsFit
  <1>6. CASE freeCallbacksProvider
    BY <1>a, <1>i, <1>6 DEF freeCallbacksProvider, ChainTypes, ChainsFit
  <1>7. ASSUME NEW k \in Kinds, Aggregate(k)
        PROVE  ProviderInv'
    <2>1. UNCHANGED <<life, callbackChainCount, chain, platform, platformAggregates, replaced>>
      BY <1>7 DEF Aggregate, platformVars
    <2>2. ChainsFit' /\ AggregatesWereImplemented'
      BY <1>i, <2>1 DEF ChainsFit, AggregatesWereImplemented
    <2>3. CASE BeginAggregate(k)
      <3>1. PICK f \in Functions : call' = [kind |-> k, fn |-> f, next |-> 1]
        BY <2>3 DEF BeginAggregate
      <3>2. life = "ready" /\ returned' = [i \in DOMAIN chain[k] |-> "notCalled"]
        BY <2>3 DEF BeginAggregate
      <3>3. ChainTypes'
        BY <1>i, <2>1, <3>1 DEF ChainTypes
      <3>4. \A i \in DOMAIN chain[k] : i \in Nat /\ ~(i < 1)
        BY <1>i DEF ChainTypes
      <3>5. WalkInv'
        BY <2>1, <3>1, <3>2, <3>4 DEF WalkInv, Implementers
      <3> QED BY <1>i, <2>1, <2>2, <3>3, <3>5 DEF ProviderInv
    <2>4. CASE call' = NoCall
      BY <1>i, <1>n, <2>1, <2>2, <2>4 DEF ProviderInv, ChainTypes, WalkInv
    <2>5. CASE CallNext(k) /\ call' # NoCall
      <3>1. /\ call # NoCall /\ call.kind = k /\ call.next \in DOMAIN chain[k]
            /\ call' = [kind |-> call.kind, fn |-> call.fn, next |-> call.next + 1]
        BY <2>5 DEF CallNext, WalkOn
      <3>2. ChainTypes'
        BY <1>i, <2>1, <3>1 DEF ChainTypes
      <3>3. call.next \in Nat /\ \A i \in DOMAIN chain[k] : i \in Nat
        BY <1>i DEF ChainTypes
      <3>4. /\ life \in {"ready", "aborted"}
            /\ DOMAIN returned = DOMAIN chain[k]
            /\ \A i \in Implementers(k, call.fn) :
                 returned[i] = IF i < call.next THEN "success" ELSE "notCalled"
        BY <1>i, <3>1 DEF WalkInv
      <3>5. DOMAIN returned' = DOMAIN chain[k]
        BY <2>5, <3>4 DEF CallNext
      <3>6. \A i \in Implementers(k, call.fn) :
              returned'[i] = IF i < call.next + 1 THEN "success" ELSE "notCalled"
        <4>1. CASE call.next \in Implementers(k, call.fn)
          <5>1. PICK status \in Answers(chain[k][call.next].object) :
                  /\ returned' = [returned EXCEPT ![call.next] = status]
                  /\ IF WalkEnds(status) THEN call' = NoCall ELSE WalkOn
            BY <2>5, <3>1, <4>1 DEF CallNext
          <5>2. returned' = [returned EXCEPT ![call.next] = "success"]
            BY <2>5, <5>1 DEF WalkEnds
          <5> QED BY <3>3, <3>4, <5>2 DEF Implementers
        <4>2. CASE call.next \notin Implementers(k, call.fn)
          <5>1. returned' = returned
            BY <2>5, <3>1, <4>2 DEF CallNext
          <5> QED BY <3>3, <3>4, <4>2, <5>1 DEF Implementers
        <4> QED BY <4>1, <4>2
      <3>7. WalkInv'
        BY <2>1, <3>1, <3>4, <3>5, <3>6 DEF WalkInv, Implementers
      <3> QED BY <1>i, <2>1, <2>2, <3>2, <3>7 DEF ProviderInv
    <2> QED BY <1>7, <2>3, <2>4, <2>5 DEF Aggregate, CallNext, EndOfChain
  <1>8. ASSUME NEW p, setPlatformCallbacks(p)
        PROVE  ProviderInv'
    <2>1. ChainTypes' /\ ChainsFit' /\ WalkInv'
      BY <1>i, <1>8 DEF setPlatformCallbacks, ChainTypes, ChainsFit, WalkInv, Implementers,
                        callVars
    <2>2. AggregatesWereImplemented'
      BY <1>i, <1>8 DEF setPlatformCallbacks, AggregatesOf, AggregatesWereImplemented
    <2> QED BY <2>1, <2>2 DEF ProviderInv
  <1>9. CASE platformAggregate
    BY <1>i, <1>9 DEF platformAggregate, ProviderInv, ChainTypes, ChainsFit, WalkInv,
                      Implementers, AggregatesWereImplemented, callVars, platformVars
  <1>10. CASE UNCHANGED vars
    BY <1>i, <1>10 DEF vars, ProviderInv, ChainTypes, ChainsFit, WalkInv, Implementers,
                       AggregatesWereImplemented
  <1> QED
    BY <1>1, <1>2, <1>3, <1>4, <1>5, <1>6, <1>7, <1>8, <1>9, <1>10
    DEF Next, createDefaultCallbacksProvider, createStaticAuthCallbacks,
        createIotAuthCallbacks, createIotAuthCallbacksWithTimeouts, createFileAuthCallbacks,
        addGivenAuthCallbacks, addProducerCallbacks, addStreamCallbacks, addAuthCallbacks,
        addApiCallbacks, authAggregate, producerAggregate, apiAggregate, streamAggregate,
        addFileLoggerPlatformCallbacksProvider,
        addFileLoggerWithFilteringPlatformCallbacksProvider, Kinds

(***************************************************************************)
(* The invariant of the callbacks provider.                                *)
(***************************************************************************)
THEOREM ProviderInvariance == Spec => []ProviderInv
<1>1. Init => ProviderInv
  <2> SUFFICES ASSUME Init
               PROVE  ProviderInv
    OBVIOUS
  <2>1. callbackChainCount \in Nat
    BY ProviderAssumption DEF Init
  <2>2. chain \in [Kinds -> Seq(Entries)] /\ \A k \in Kinds : Len(chain[k]) = 0
    BY DEF Init
  <2>3. call = NoCall /\ NoCall \in [kind : Kinds, fn : Functions \cup {"none"}, next : Nat]
    BY DEF Init, NoCall, Kinds
  <2>4. ChainsFit
    BY <2>1, <2>2 DEF ChainsFit
  <2>5. ChainTypes /\ WalkInv
    BY <2>1, <2>2, <2>3 DEF ChainTypes, WalkInv, Init
  <2> QED BY <2>4, <2>5 DEF ProviderInv, AggregatesWereImplemented, Init, setDefaultPlatformCallbacks
<1> QED
  BY <1>1, NextKeepsProviderInv, PTL DEF Spec

(***************************************************************************)
(* No chain outgrows its memory, for any capacity and any order of         *)
(* additions.                                                              *)
(***************************************************************************)
THEOREM ChainsNeverOverflow == Spec => []ChainsFit
<1>1. ProviderInv => ChainsFit
  BY DEF ProviderInv
<1> QED
  BY <1>1, ProviderInvariance, PTL

(***************************************************************************)
(* In every walk of every chain, a callback is called only when all        *)
(* implementers before it succeeded.                                       *)
(***************************************************************************)
THEOREM WalksAreInOrder == Spec => []ChainInOrder
<1>1. ProviderInv => ChainInOrder
  <2> SUFFICES ASSUME ProviderInv, call # NoCall,
                      NEW i \in Implementers(call.kind, call.fn),
                      NEW j \in Implementers(call.kind, call.fn),
                      i < j, returned[j] # "notCalled"
               PROVE  returned[i] = "success"
    BY DEF ChainInOrder
  <2>1. call.kind \in Kinds /\ call.next \in Nat
    BY DEF ProviderInv, ChainTypes
  <2>2. i \in Nat /\ j \in Nat
    BY <2>1 DEF Implementers, ProviderInv, ChainTypes
  <2>3. j < call.next
    BY DEF ProviderInv, WalkInv
  <2>4. i < call.next
    BY <2>1, <2>2, <2>3
  <2> QED BY <2>4 DEF ProviderInv, WalkInv
<1> QED
  BY <1>1, ProviderInvariance, PTL

(***************************************************************************)
(* The function of every installed platform aggregate is in the structure, *)
(* or was in one that the application has replaced since.                  *)
(***************************************************************************)
THEOREM AggregatesHadTheirFunctions == Spec => []AggregatesWereImplemented
<1>1. ProviderInv => AggregatesWereImplemented
  BY DEF ProviderInv
<1> QED
  BY <1>1, ProviderInvariance, PTL

-----------------------------------------------------------------------------
(* A set of chains has as many elements as the four chains are in it.      *)
LEMMA CountChains ==
  ASSUME NEW S \in SUBSET Kinds
  PROVE  Cardinality(S) = (IF "producer" \in S THEN 1 ELSE 0)
                            + (IF "stream" \in S THEN 1 ELSE 0)
                            + (IF "auth" \in S THEN 1 ELSE 0)
                            + (IF "api" \in S THEN 1 ELSE 0)
  <1> DEFINE C(k) == IF k \in S THEN 1 ELSE 0
             T1 == S \cap {"producer"}
             T2 == S \cap {"producer", "stream"}
             T3 == S \cap {"producer", "stream", "auth"}
  <1>1. \A T, x : IsFiniteSet(T) /\ x \notin T => 
                  /\ IsFiniteSet(T \cup {x})
                  /\ Cardinality(T \cup {x}) = Cardinality(T) + 1
    BY FS_AddElement
  <1>2. IsFiniteSet(T1) /\ Cardinality(T1) = C("producer")
    <2>1. CASE "producer" \in S
      <3>1. T1 = {"producer"}
        BY <2>1
      <3> QED BY <2>1, <3>1, FS_Singleton
    <2>2. CASE "producer" \notin S
      <3>1. T1 = {}
        BY <2>2
      <3> QED BY <2>2, <3>1, FS_EmptySet
    <2> QED BY <2>1, <2>2
  <1>3. IsFiniteSet(T2) /\ Cardinality(T2) = C("producer") + C("stream")
    <2>1. CASE "stream" \in S
      <3>1. T2 = T1 \cup {"stream"} /\ "stream" \notin T1
        BY <2>1
      <3> HIDE DEF T1, T2
      <3> QED BY <1>1, <1>2, <2>1, <3>1
    <2>2. CASE "stream" \notin S
      <3>1. T2 = T1
        BY <2>2
      <3> HIDE DEF T1, T2
      <3> QED BY <1>2, <2>2, <3>1
    <2> QED BY <2>1, <2>2
  <1>4. IsFiniteSet(T3) /\ Cardinality(T3) = C("producer") + C("stream") + C("auth")
    <2>1. CASE "auth" \in S
      <3>1. T3 = T2 \cup {"auth"} /\ "auth" \notin T2
        BY <2>1
      <3> HIDE DEF T2, T3
      <3> QED BY <1>1, <1>3, <2>1, <3>1
    <2>2. CASE "auth" \notin S
      <3>1. T3 = T2
        BY <2>2
      <3> HIDE DEF T2, T3
      <3> QED BY <1>3, <2>2, <3>1
    <2> QED BY <2>1, <2>2
  <1>5. CASE "api" \in S
    <2>1. S = T3 \cup {"api"} /\ "api" \notin T3
      BY <1>5 DEF Kinds
    <2>2. Cardinality(S) = Cardinality(T3) + 1
      BY <1>1, <1>4, <2>1
    <2> HIDE DEF T3
    <2> QED BY <1>4, <1>5, <2>2
  <1>6. CASE "api" \notin S
    <2>1. S = T3
      BY <1>6 DEF Kinds
    <2>2. Cardinality(S) = Cardinality(T3)
      BY <2>1
    <2> HIDE DEF T3
    <2> QED BY <1>4, <1>6, <2>2
  <1> QED BY <1>5, <1>6

(* Freeing the chains calls the free function of an object once for each   *)
(* chain that owns it.                                                     *)
LEMMA FreesPerChain ==
  ASSUME OwnedOncePerChain, NEW o \in Objects
  PROVE  OwnedCount(o) = Cardinality(OwningChains(o)) /\ OwnedCount(o) \in Nat
  <1>1. \A k \in Kinds : Cardinality(Owned(k, o)) = IF k \in OwningChains(o) THEN 1 ELSE 0
    <2> SUFFICES ASSUME NEW k \in Kinds
                 PROVE  Cardinality(Owned(k, o)) = IF k \in OwningChains(o) THEN 1 ELSE 0
      OBVIOUS
    <2>1. CASE Owned(k, o) = {}
      BY <2>1, FS_EmptySet DEF OwningChains
    <2>2. CASE Owned(k, o) # {}
      <3>1. PICK i : i \in Owned(k, o)
        BY <2>2
      <3>2. Owned(k, o) = {i}
        BY <3>1 DEF OwnedOncePerChain
      <3> QED BY <2>2, <3>2, FS_Singleton DEF OwningChains
    <2> QED BY <2>1, <2>2
  <1>2. OwningChains(o) \in SUBSET Kinds
    BY DEF OwningChains
  <1>3. "producer" \in Kinds /\ "stream" \in Kinds /\ "auth" \in Kinds /\ "api" \in Kinds
    BY DEF Kinds
  <1> QED BY <1>1, <1>2, <1>3, CountChains DEF OwnedCount

(* An appended entry owns its object in its chain, where nobody did; all   *)
(* other ownership is as before.                                           *)
LEMMA AppendOwns ==
  ASSUME ChainTypes, NEW k \in Kinds, NEW e \in Entries, AppendEntry(k, e)
  PROVE  /\ \A q \in Kinds, o \in Objects :
              ~(q = k /\ o = e.object /\ e.owned = "yes") => Owned(q, o)' = Owned(q, o)
         /\ e.owned = "yes" => Owned(k, e.object) = {}
                               /\ Owned(k, e.object)' = {Len(chain[k]) + 1}
  <1>1. chain[k] \in Seq(Entries) /\ chain \in [Kinds -> Seq(Entries)]
    BY DEF ChainTypes
  <1>2. chain'[k] = Append(chain[k], e) /\ \A q \in Kinds \ {k} : chain'[q] = chain[q]
    BY <1>1 DEF AppendEntry
  <1>3. /\ DOMAIN chain[k] = 1..Len(chain[k]) /\ Len(chain[k]) \in Nat
        /\ DOMAIN chain'[k] = 1..(Len(chain[k]) + 1)
        /\ \A i \in DOMAIN chain[k] : chain'[k][i] = chain[k][i]
        /\ chain'[k][Len(chain[k]) + 1] = e
    BY <1>1, <1>2
  <1>4. \A i : i \in DOMAIN chain'[k] <=> i \in DOMAIN chain[k] \/ i = Len(chain[k]) + 1
    BY <1>3
  <1>5. Len(chain[k]) + 1 \notin DOMAIN chain[k]
    BY <1>3
  <1>6. ASSUME NEW q \in Kinds, NEW o \in Objects, ~(q = k /\ o = e.object /\ e.owned = "yes")
        PROVE  Owned(q, o)' = Owned(q, o)
    <2>1. CASE q # k
      BY <1>2, <2>1 DEF Owned
    <2>2. CASE q = k
      BY <1>3, <1>4, <1>5, <1>6, <2>2 DEF Owned
    <2> QED BY <2>1, <2>2
  <1>7. ASSUME e.owned = "yes"
        PROVE  Owned(k, e.object) = {}
    BY <1>7 DEF AppendEntry, Accepts, IsDuplicate, Owned
  <1>8. ASSUME e.owned = "yes"
        PROVE  Owned(k, e.object)' = {Len(chain[k]) + 1}
    <2>1. \A i \in DOMAIN chain[k] : ~(chain[k][i].object = e.object /\ chain[k][i].owned = "yes")
      BY <1>7, <1>8 DEF Owned
    <2> QED BY <1>3, <1>4, <1>5, <1>8, <2>1 DEF Owned
  <1> QED BY <1>6, <1>7, <1>8

(***************************************************************************)
(* Every step keeps the account of what is freed.                          *)
(***************************************************************************)
LEMMA NextKeepsFreesInv == ProviderInv /\ FreesInv /\ [Next]_vars => FreesInv'
  <1> SUFFICES ASSUME ProviderInv, FreesInv, [Next]_vars
               PROVE  FreesInv'
    OBVIOUS
  <1>i. /\ ChainTypes /\ frees \in [Objects -> Nat] /\ OwnedOncePerChain
        /\ NotAppendedYet /\ AccountOfFrees
        /\ life \notin {"freed", "failed"} => \A o \in Objects : frees[o] = 0
    BY DEF ProviderInv, FreesInv
  (* An entry is appended and nothing is freed. *)
  <1>a. ASSUME NEW k \in Kinds, NEW e \in Entries, AppendEntry(k, e), UNCHANGED frees,
               life \notin {"freed", "failed"}, life' \in {"retry", "ready"},
               life' = "retry" => /\ OwningChains("retry") = {} /\ e.object # "retry"
                                  /\ platform' = NoPlatform
        PROVE  FreesInv'
    <2>1. OwnedOncePerChain'
      <3> SUFFICES ASSUME NEW q \in Kinds, NEW o \in Objects,
                          NEW i \in Owned(q, o)', NEW j \in Owned(q, o)'
                   PROVE  i = j
        BY DEF OwnedOncePerChain
      <3>1. CASE q = k /\ o = e.object /\ e.owned = "yes"
        <4>1. Owned(k, e.object)' = {Len(chain[k]) + 1}
          BY <1>i, <1>a, <3>1, AppendOwns
        <4>2. i \in Owned(k, e.object)' /\ j \in Owned(k, e.object)'
          BY <3>1
        <4> QED BY <4>1, <4>2
      <3>2. CASE ~(q = k /\ o = e.object /\ e.owned = "yes")
        BY <1>i, <1>a, <3>2, AppendOwns DEF OwnedOncePerChain
      <3> QED BY <3>1, <3>2
    <2>2. ASSUME life' = "retry"
          PROVE  OwningChains("retry")' = {}
      <3>1. "retry" \in Objects
        BY DEF Objects
      <3>2. \A q \in Kinds : Owned(q, "retry")' = Owned(q, "retry")
        BY <1>i, <1>a, <2>2, <3>1, AppendOwns
      <3> QED BY <1>a, <2>2, <3>2 DEF OwningChains
    <2>3. NotAppendedYet'
      BY <1>i, <1>a, <2>2 DEF NotAppendedYet
    <2>4. AccountOfFrees'
      BY <1>a DEF AccountOfFrees
    <2> QED BY <1>i, <1>a, <2>1, <2>3, <2>4 DEF FreesInv
  (* A step that changes neither a chain nor what is freed, from an alive provider. *)
  <1>b. ASSUME UNCHANGED <<chain, frees>>, life \in {"ready", "aborted"},
               life' \in {"ready", "aborted"}
        PROVE  FreesInv'
    <2>1. OwnedOncePerChain' /\ NotAppendedYet' /\ AccountOfFrees'
      BY <1>i, <1>b DEF OwnedOncePerChain, Owned, NotAppendedYet, AccountOfFrees
    <2> QED BY <1>i, <1>b, <2>1 DEF FreesInv
  (* The chains are freed, and once more what is in "also" and not yet appended
     or held. *)
  <1>c. ASSUME NEW also, FreeAll(also), UNCHANGED <<chain, platform>>,
               life \notin {"freed", "failed"}, life' \in {"freed", "failed"},
               \A o \in also : Owners(o) # {} => life' = "failed" /\ o \in held',
               life' = "failed" => held' \subseteq also
        PROVE  FreesInv'
    <2>1. \A o \in Objects : /\ OwningChains(o)' = OwningChains(o)
                             /\ Owners(o)' = Owners(o)
                             /\ PlatformOwns(o)' = PlatformOwns(o)
      BY <1>c DEF OwningChains, Owned, Owners, PlatformOwns
    <2>2. \A o \in Objects :
            /\ frees'[o] = (IF PlatformOwns(o) THEN 1 ELSE 0)
                             + Cardinality(OwningChains(o)) + (IF o \in also THEN 1 ELSE 0)
            /\ Cardinality(OwningChains(o)) \in Nat
      BY <1>i, <1>c, FreesPerChain DEF FreeAll
    <2>3. frees' \in [Objects -> Nat]
      <3>1. frees' = [o \in Objects |-> frees'[o]]
        BY <1>c DEF FreeAll
      <3> QED BY <2>2, <3>1
    <2>4. AccountOfFrees'
      BY <1>c, <2>1, <2>2 DEF AccountOfFrees
    <2>5. OwnedOncePerChain' /\ NotAppendedYet'
      BY <1>i, <1>c DEF OwnedOncePerChain, Owned, NotAppendedYet
    <2> QED BY <1>c, <2>3, <2>4, <2>5 DEF FreesInv
  <1>1. ASSUME NEW k \in Kinds, AddCallbacks(k)
        PROVE  FreesInv'
    <2>1. PICK a \in AppCallbacks : AppendEntry(k, a.entry)
      BY <1>1 DEF AddCallbacks
    <2>2. a.entry \in Entries
      BY ProviderAssumption
    <2> QED BY <1>a, <1>1, <2>1, <2>2 DEF AddCallbacks
  <1>2. CASE createAbstractDefaultCallbacksProvider
    <2>1. CASE callbackChainCount > 0
      <3>1. /\ chain' = createCurlApiCallbacks /\ life' = "auth" /\ life = "creating"
            /\ UNCHANGED <<frees, held, platform>>
        BY <1>2, <2>1 DEF createAbstractDefaultCallbacksProvider, platformVars
      <3>2. \A q \in Kinds : \A i \in DOMAIN createCurlApiCallbacks[q] :
              i = 1 /\ createCurlApiCallbacks[q][i].object = "curl"
        BY DEF createCurlApiCallbacks
      <3>3. OwnedOncePerChain'
        BY <3>1, <3>2 DEF OwnedOncePerChain, Owned
      <3>4. OwningChains("auth")' = {} /\ OwningChains("retry")' = {}
        BY <3>1, <3>2 DEF OwningChains, Owned
      <3>5. NotAppendedYet'
        BY <1>i, <3>1, <3>4 DEF NotAppendedYet
      <3>6. AccountOfFrees'
        BY <3>1 DEF AccountOfFrees
      <3> QED BY <1>i, <3>1, <3>3, <3>5, <3>6 DEF FreesInv
    <2>2. CASE ~(callbackChainCount > 0)
      <3>1. /\ UNCHANGED <<chain, platform>> /\ life = "creating" /\ life' = "failed"
            /\ frees' = [frees EXCEPT !["curl"] = 1]
        BY <1>2, <2>2 DEF createAbstractDefaultCallbacksProvider, platformVars
      <3>2. \A q \in Kinds : chain'[q] = <<>>
        BY <1>i, <3>1 DEF NotAppendedYet
      <3>3. \A q \in Kinds, o \in Objects : Owned(q, o)' = {}
        BY <3>2 DEF Owned
      <3>a. \A o : ~PlatformOwns(o)'
        BY <1>i, <3>1 DEF NotAppendedYet, PlatformOwns, NoPlatform
      <3>4. OwnedOncePerChain' /\ AccountOfFrees'
        BY <3>3, <3>a DEF OwnedOncePerChain, AccountOfFrees, OwningChains, Owners
      <3>5. NotAppendedYet' /\ frees' \in [Objects -> Nat]
        BY <1>i, <3>1 DEF NotAppendedYet
      <3> QED BY <3>1, <3>4, <3>5 DEF FreesInv
    <2> QED BY <2>1, <2>2
  <1>3. ASSUME NEW creators, NEW mine, AppendAuth(creators, mine)
        PROVE  FreesInv'
    <2>1. "auth" \in Kinds
      BY DEF Kinds
    <2>2. life' \in {"retry", "ready"} /\ life = "auth" /\ UNCHANGED frees
      BY <1>3 DEF AppendAuth
    <2>3. OwningChains("retry") = {} /\ platform' = NoPlatform
      BY <1>i, <1>3, <2>2 DEF NotAppendedYet, AppendAuth, platformVars
    <2> QED BY <1>a, <1>3, <2>1, <2>2, <2>3, DefaultEntries DEF AppendAuth
  <1>4. CASE createContinuousRetryStreamCallbacks
    BY <1>a, <1>4, DefaultEntries DEF createContinuousRetryStreamCallbacks, Kinds
  <1>5. CASE createDefaultCallbacksProviderFails
    <2>a. ASSUME life \in {"auth", "retry"}, NEW o
          PROVE  Owners(o) = OwningChains(o)
      BY <1>i, <2>a DEF NotAppendedYet, Owners, PlatformOwns, NoPlatform
    <2>1. CASE life = "auth" /\ CreationFails({"auth"})
      BY <1>c, <1>i, <2>a, <2>1 DEF CreationFails, NotAppendedYet, platformVars
    <2>2. CASE life = "retry" /\ CreationFails({"retry"})
      BY <1>c, <1>i, <2>a, <2>2 DEF CreationFails, NotAppendedYet, platformVars
    <2> QED BY <1>5, <2>1, <2>2 DEF createDefaultCallbacksProviderFails
  <1>6. CASE freeCallbacksProvider
    BY <1>c, <1>6 DEF freeCallbacksProvider, platformVars
  <1>7. ASSUME NEW k \in Kinds, Aggregate(k)
        PROVE  FreesInv'
    <2>1. life \in {"ready", "aborted"}
      BY <1>7 DEF ProviderInv, WalkInv, Aggregate, BeginAggregate, CallNext, EndOfChain
    <2> QED BY <1>b, <1>7, <2>1 DEF Aggregate
  <1>8. ASSUME NEW p, setPlatformCallbacks(p)
        PROVE  FreesInv'
    BY <1>b, <1>8 DEF setPlatformCallbacks
  <1>9. CASE platformAggregate
    BY <1>b, <1>9 DEF platformAggregate
  <1>10. CASE UNCHANGED vars
    <2>1. UNCHANGED <<chain, life, held, frees, platform>>
      BY <1>10 DEF vars
    <2>2. /\ OwnedOncePerChain'
          /\ \A o : /\ OwningChains(o)' = OwningChains(o)
                    /\ Owners(o)' = Owners(o) /\ PlatformOwns(o)' = PlatformOwns(o)
      BY <1>i, <2>1 DEF OwnedOncePerChain, Owned, OwningChains, Owners, PlatformOwns
    <2>3. NotAppendedYet'
      BY <1>i, <2>1, <2>2 DEF NotAppendedYet
    <2>4. AccountOfFrees'
      BY <1>i, <2>1, <2>2 DEF AccountOfFrees
    <2> QED BY <1>i, <2>1, <2>2, <2>3, <2>4 DEF FreesInv
  <1> QED
    BY <1>1, <1>2, <1>3, <1>4, <1>5, <1>6, <1>7, <1>8, <1>9, <1>10
    DEF Next, createDefaultCallbacksProvider, createStaticAuthCallbacks,
        createIotAuthCallbacks, createIotAuthCallbacksWithTimeouts, createFileAuthCallbacks,
        addGivenAuthCallbacks, addProducerCallbacks, addStreamCallbacks, addAuthCallbacks,
        addApiCallbacks, authAggregate, producerAggregate, apiAggregate, streamAggregate,
        addFileLoggerPlatformCallbacksProvider,
        addFileLoggerWithFilteringPlatformCallbacksProvider, Kinds

(***************************************************************************)
(* However the provider ends, what it owns is freed, and by                *)
(* freeCallbacksProvider exactly once when it has one owner.               *)
(***************************************************************************)
THEOREM OwnedObjectsAreFreed == Spec => []OwnedAreFreed
<1>1. Init => FreesInv
  <2> SUFFICES ASSUME Init
               PROVE  FreesInv
    OBVIOUS
  <2>1. \A q \in Kinds : chain[q] = <<>>
    BY DEF Init
  <2>2. \A o : \A q \in Kinds : Owned(q, o) = {}
    BY <2>1 DEF Owned
  <2>3. OwnedOncePerChain /\ \A o : OwningChains(o) = {}
    BY <2>2 DEF OwnedOncePerChain, OwningChains
  <2>4. NotAppendedYet /\ AccountOfFrees
    BY <2>1, <2>3 DEF Init, NotAppendedYet, AccountOfFrees, setDefaultPlatformCallbacks
  <2> QED BY <2>3, <2>4 DEF Init, FreesInv
<1>2. FreesInv => OwnedAreFreed
  <2> SUFFICES ASSUME FreesInv, NEW o \in Objects, Owners(o) # {},
                      life \in {"freed", "failed"}
               PROVE  /\ frees[o] >= 1
                      /\ life = "freed" /\ Cardinality(Owners(o)) = 1 => frees[o] = 1
    <3>1. \A o \in Objects : Cardinality(Owners(o)) = 1 => Owners(o) # {}
      BY FS_EmptySet
    <3> QED BY <3>1 DEF OwnedAreFreed
  <2>1. IsFiniteSet(OwningChains(o)) /\ Cardinality(OwningChains(o)) \in Nat
        /\ (Cardinality(OwningChains(o)) = 0 <=> OwningChains(o) = {})
    <3>1. IsFiniteSet(Kinds) /\ OwningChains(o) \subseteq Kinds
      <4>1. Kinds = {"producer"} \cup {"stream"} \cup {"auth"} \cup {"api"}
        BY DEF Kinds
      <4>2. IsFiniteSet({"producer"} \cup {"stream"})
        BY FS_Singleton, FS_AddElement
      <4>3. IsFiniteSet({"producer"} \cup {"stream"} \cup {"auth"})
        BY <4>2, FS_AddElement
      <4>4. IsFiniteSet({"producer"} \cup {"stream"} \cup {"auth"} \cup {"api"})
        BY <4>3, FS_AddElement
      <4> QED BY <4>1, <4>4 DEF OwningChains
    <3>2. IsFiniteSet(OwningChains(o))
      BY <3>1, FS_Subset
    <3> QED BY <3>2, FS_CardinalityType, FS_EmptySet
  <2>2. "platform" \notin OwningChains(o)
    BY DEF OwningChains, Kinds
  <2>3. CASE PlatformOwns(o)
    <3>1. Owners(o) = OwningChains(o) \cup {"platform"}
      BY <2>3 DEF Owners
    <3>2. Cardinality(Owners(o)) = Cardinality(OwningChains(o)) + 1
      BY <2>1, <2>2, <3>1, FS_AddElement
    <3> QED BY <2>1, <2>3, <3>2 DEF FreesInv, AccountOfFrees
  <2>4. CASE ~PlatformOwns(o)
    <3>1. Owners(o) = OwningChains(o)
      BY <2>4 DEF Owners
    <3>2. Cardinality(OwningChains(o)) >= 1
      BY <2>1, <3>1
    <3> QED BY <2>1, <2>4, <3>1, <3>2 DEF FreesInv, AccountOfFrees
  <2> QED BY <2>3, <2>4
<1> QED
  BY <1>1, <1>2, NextKeepsFreesInv, ProviderInvariance, PTL DEF Spec

=============================================================================
