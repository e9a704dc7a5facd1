------------------------ MODULE ClaimReconcilerProofs ------------------------
(***************************************************************************)
(* Proofs about ClaimReconciler: its types, and that it uses the Infoblox  *)
(* client as InfobloxClient specifies, so that everything proved about the *)
(* client holds for the claim controller.                                  *)
(***************************************************************************)
EXTENDS ClaimReconciler, InfobloxClientProofs

\* An idle reconciliation has the right type.
LEMMA NoRecType == NoRec \in RecType /\ RecOK(NoRec)
BY DEF NoRec, RecType, RecOK, ReadyReasons, Phases

\* The part of ClaimTypeOK about the reconciliations.
RecsOK == rec \in [Workers -> RecType] /\ \A w \in Workers : RecOK(rec[w])

\* Replacing one reconciliation by a well-typed one.
LEMMA RecFacts ==
    ASSUME RecsOK, NEW w \in Workers, NEW r \in RecType, RecOK(r), Rec(w, r)
    PROVE  RecsOK'
<1>1. rec' = [rec EXCEPT ![w] = r] /\ Workers' = Workers
  BY DEF Rec, Workers
<1> QED BY <1>1 DEF RecsOK

\* The counter of failures of the Kubernetes side stays within its bound.
LEMMA ApiFaultsBounded ==
    ASSUME ClaimTypeOK, apiFaults' = apiFaults \/ ApiFault
    PROVE  apiFaults' \in 0 .. MaxApiFaults
<1>1. MaxApiFaults \in Nat /\ apiFaults \in 0 .. MaxApiFaults
  BY ClaimAssumption DEF ClaimAssumption, ClaimTypeOK
<1>2. apiFaults' = apiFaults \/ (apiFaults < MaxApiFaults /\ apiFaults' = apiFaults + 1)
  BY DEF ApiFault
<1> QED BY <1>1, <1>2

\* getHostname returns a host name or an error.
LEMMA HostnameType ==
    ASSUME NEW r \in RecType, r.claim \in Claims
    PROVE  GetHostname(r) \in Hosts \cup {None}
BY ClaimAssumption DEF GetHostname, RecType, ClaimAssumption

-----------------------------------------------------------------------------
(* Types of the reconciliations, one lemma per group of actions *)

\* Start hands the claim to an idle worker.
LEMMA RecsStart ==
    ASSUME ClaimTypeOK, RecsOK, NEW w \in Workers, NEW c \in Claims, Start(w, c)
    PROVE  RecsOK'
<1> DEFINE r == [NoRec EXCEPT !.step = "fetchPool", !.claim = c,
                              !.phase = claims[c].phase,
                              !.finalizer = TRUE,
                              !.hostname = claims[c].hostname,
                              !.ready = claims[c].ready]
<1>1. /\ claims[c].phase \in Phases /\ claims[c].ready \in ReadyReasons
      /\ claims[c].hostname \in Hosts \cup {None}
  BY DEF ClaimTypeOK, ClaimType
<1>2. r \in RecType
  BY <1>1, NoRecType DEF RecType
<1>3. RecOK(r)
  BY DEF RecOK, NoRec
<1>4. Rec(w, r)
  BY DEF Start
<1> HIDE DEF r
<1> QED BY <1>2, <1>3, <1>4, RecFacts

\* The steps of the handler keep the types of the reconciliations.
LEMMA RecsHandler ==
    ASSUME ClaimTypeOK, RecsOK, NEW w \in Workers, HandlerStep(w)
    PROVE  RecsOK'
<1> DEFINE r == rec[w]
           ok(d) == d \in RecType /\ RecOK(d)
<1>0. r \in RecType /\ RecOK(r)
  BY DEF RecsOK
<1>1. r.claim \in Claims
  BY <1>0 DEF RecOK, HandlerStep, FetchPool, EnsureHostname, ReleaseHostname, SkipSubnet,
              CallClient, InLoop, AllocateReturns, ReleaseReturns, LoopEnds, WriteAddress,
              DeleteAddress, PatchClaim
<1>2. ASSUME NEW d, ok(d), Rec(w, d)
      PROVE  RecsOK'
  BY <1>2, RecFacts
<1>3. /\ ok([r EXCEPT !.step = "patch"])
      /\ ok([r EXCEPT !.step = "hostname"])
      /\ ok([r EXCEPT !.step = "deleteAddress"])
      /\ ok([r EXCEPT !.step = "patch", !.finalizer = FALSE])
      /\ ok([r EXCEPT !.step = "patch", !.ready = "PoolNotReady"])
      /\ ok([r EXCEPT !.step = "patch", !.ready = "AllocationFailed"])
  <2>1. /\ ok([r EXCEPT !.step = "patch"])
        /\ ok([r EXCEPT !.step = "hostname"])
        /\ ok([r EXCEPT !.step = "deleteAddress"])
    BY <1>0, <1>1 DEF RecType, RecOK
  <2>2. ok([r EXCEPT !.step = "patch", !.finalizer = FALSE])
    BY <1>0, <1>1 DEF RecType, RecOK
  <2>3. /\ ok([r EXCEPT !.step = "patch", !.ready = "PoolNotReady"])
        /\ ok([r EXCEPT !.step = "patch", !.ready = "AllocationFailed"])
    BY <1>0, <1>1 DEF RecType, RecOK, ReadyReasons
  <2> QED BY <2>1, <2>2, <2>3
<1>4. r.step \in {"loop", "call"} =>
        /\ ok([r EXCEPT !.i = r.i + 1])
        /\ ok([r EXCEPT !.step = "call"])
        /\ ok([r EXCEPT !.step = "loop", !.i = r.i + 1])
  <2>1. r.i + 1 \in Nat \ {0}
    BY <1>0 DEF RecType
  <2>2. PICK j \in Nat \ {0} : j = r.i + 1
    BY <2>1
  <2>3. r.step \in {"loop", "call"} =>
          /\ ok([r EXCEPT !.i = j])
          /\ ok([r EXCEPT !.step = "call"])
          /\ ok([r EXCEPT !.step = "loop", !.i = j])
    BY <1>0 DEF RecType, RecOK
  <2> QED BY <2>2, <2>3
<1> DEFINE h == GetHostname(r)
<1>5. h \in Hosts \cup {None}
  BY <1>0, <1>1, HostnameType
<1>6. h # None => /\ ok([r EXCEPT !.hostname = h, !.host = h, !.step = "loop"])
                  /\ ok([r EXCEPT !.hostname = h, !.host = h, !.step = "patch"])
                  /\ ok([r EXCEPT !.host = h, !.step = "loop"])
  BY <1>0, <1>1, <1>5 DEF RecType, RecOK
<1>7. ok([r EXCEPT !.host = h, !.step = "patch"])
  BY <1>0, <1>1, <1>5 DEF RecType, RecOK
<1> HIDE DEF h, ok
<1>8. CASE FetchPool(w)
  BY <1>2, <1>3, <1>8 DEF FetchPool
<1>9. CASE EnsureHostname(w)
  BY <1>2, <1>3, <1>6, <1>9 DEF EnsureHostname, h
<1>10. CASE ReleaseHostname(w)
  <2>1. CASE Rec(w, [r EXCEPT !.host = h, !.step = "patch"])
    BY <1>2, <1>7, <2>1
  <2>2. CASE h # None /\ Rec(w, [r EXCEPT !.host = h, !.step = "loop"])
    BY <1>2, <1>6, <2>2
  <2> QED BY <1>2, <1>3, <1>10, <2>1, <2>2 DEF ReleaseHostname, h
<1>11. CASE SkipSubnet(w)
  BY <1>2, <1>4, <1>11 DEF SkipSubnet, InLoop
<1>12. CASE CallClient(w)
  BY <1>2, <1>4, <1>12 DEF CallClient, InLoop
<1>13. CASE AllocateReturns(w)
  <2>1. call[w].addr \in Addrs \cup {None}
    BY DEF ClaimTypeOK, TypeOK, CallType
  <2>2. ok([r EXCEPT !.step = "writeAddress", !.addr = call[w].addr,
                     !.ready = "AddressAllocated"])
    BY <1>0, <1>1, <2>1 DEF ok, RecType, RecOK, ReadyReasons
  <2> QED BY <1>2, <1>4, <1>13, <2>2 DEF AllocateReturns
<1>14. CASE ReleaseReturns(w)
  BY <1>2, <1>4, <1>14 DEF ReleaseReturns
<1>15. CASE LoopEnds(w)
  BY <1>2, <1>3, <1>15 DEF LoopEnds
<1>16. CASE WriteAddress(w) \/ DeleteAddress(w)
  BY <1>2, <1>3, <1>16 DEF WriteAddress, DeleteAddress
<1>17. CASE PatchClaim(w)
  BY <1>2, <1>17, NoRecType DEF PatchClaim, ok
<1> QED BY <1>8, <1>9, <1>10, <1>11, <1>12, <1>13, <1>14, <1>15, <1>16, <1>17 DEF HandlerStep

-----------------------------------------------------------------------------
(* The client is used as it is specified *)

\* CallClient passes the client a view, a host and a subnet.
LEMMA CallIsBegin ==
    ASSUME ClaimTypeOK, NEW w \in Workers, CallClient(w)
    PROVE  BeginCall(w)
<1> DEFINE r == rec[w]
<1>1. r.claim \in Claims /\ r.host \in Hosts
  BY DEF ClaimTypeOK, RecOK, CallClient, InLoop
<1>2. PoolView[Pool(w)] \in NetworkViews \cup {None}
  BY <1>1, ClaimAssumption DEF Pool, ClaimAssumption
<1>3. PICK op \in {"allocate", "release"} :
          Begin(w, op, PoolView[Pool(w)], r.host, SubnetsOf(w)[r.i])
  BY DEF CallClient
<1>4. SubnetsOf(w)[r.i] \in Subnets /\ UNCHANGED <<hostRecords, foreign, faults>>
  BY DEF CallClient
<1> QED BY <1>1, <1>2, <1>3, <1>4 DEF BeginCall

\* Every step of the claim controller and of its environment is a step of the
\* client or leaves the client and Infoblox alone.
LEMMA ClientUse ==
    ASSUME ClaimTypeOK, [ClaimNext]_claimVars
    PROVE  [ClientNext]_clientVars
<1>1. ASSUME NEW w \in Workers, HandlerStep(w)
      PROVE  ClientNext \/ UNCHANGED clientVars
  <2>1. CASE CallClient(w)
    BY <2>1, CallIsBegin DEF ClientNext
  <2>2. CASE AllocateReturns(w) \/ ReleaseReturns(w)
    BY <2>2 DEF AllocateReturns, ReleaseReturns, ClientNext
  <2>3. CASE UNCHANGED clientVars
    BY <2>3
  <2> QED BY <1>1, <2>1, <2>2, <2>3
          DEF HandlerStep, FetchPool, EnsureHostname, ReleaseHostname, SkipSubnet, LoopEnds,
              WriteAddress, DeleteAddress, PatchClaim
<1>2. ASSUME NEW w \in Workers, InfobloxStep(w)
      PROVE  ClientNext
  BY <1>2 DEF InfobloxStep, ClientNext
<1>3. ASSUME NEW w \in Workers, NEW c \in Claims, Start(w, c)
      PROVE  UNCHANGED clientVars
  BY <1>3 DEF Start
<1>4. CASE Crash \/ Foreigners
  BY <1>4 DEF Crash, Foreigners, ClientNext
<1>5. ASSUME NEW c \in Claims,
             (\E h \in Presets \cup {None} : CreateClaim(c, h)) \/ DeleteClaim(c)
                \/ OwnerChainBreaks(c)
      PROVE  UNCHANGED clientVars
  BY <1>5 DEF CreateClaim, DeleteClaim, OwnerChainBreaks
<1>6. ASSUME NEW p \in Pools, PoolRecovers(p) \/ PoolDegrades(p) \/ PoolGoes(p)
      PROVE  UNCHANGED clientVars
  BY <1>6 DEF PoolRecovers, PoolDegrades, PoolGoes, SetPool
<1>7. CASE UNCHANGED claimVars
  BY <1>7 DEF claimVars
<1> QED BY <1>1, <1>2, <1>3, <1>4, <1>5, <1>6, <1>7 DEF ClaimNext

-----------------------------------------------------------------------------
(* Types *)

\* What PatchClaim stores is a claim.
LEMMA PatchedType ==
    ASSUME ClaimTypeOK, NEW r \in RecType, r.claim \in Claims,
           NEW m \in BOOLEAN, NEW k \in BOOLEAN
    PROVE  Patched(r, m, k) \in ClaimType
<1>1. claims[r.claim] \in ClaimType
  BY DEF ClaimTypeOK
<1>2. "released" \in Phases
  BY DEF Phases
<1> QED BY <1>1, <1>2 DEF Patched, ClaimType, RecType

\* The stored objects keep their types in the steps of the handler.
LEMMA ObjectsHandler ==
    ASSUME ClaimTypeOK, NEW w \in Workers, HandlerStep(w)
    PROVE  /\ claims' \in [Claims -> ClaimType]
           /\ ipAddress' \in [Claims -> Addrs \cup {None}]
           /\ UNCHANGED <<pools, ownerChain>>
           /\ swallowed' \subseteq Claims
           /\ apiFaults' = apiFaults \/ ApiFault
<1> DEFINE r == rec[w]
<1>0. r \in RecType /\ RecOK(r)
  BY DEF ClaimTypeOK
<1>1. CASE FetchPool(w) \/ EnsureHostname(w) \/ SkipSubnet(w) \/ CallClient(w)
           \/ AllocateReturns(w) \/ LoopEnds(w)
  BY <1>1 DEF FetchPool, EnsureHostname, ResolverFails, SkipSubnet, CallClient,
              AllocateReturns, LoopEnds, k8sVars, ClaimTypeOK
<1>2. CASE ReleaseHostname(w)
  BY <1>2 DEF ReleaseHostname, ResolverFails, k8sVars, ClaimTypeOK
<1>3. CASE ReleaseReturns(w)
  <2>1. r.claim \in Claims
    BY <1>0, <1>3 DEF ReleaseReturns, RecOK
  <2> QED BY <1>3, <2>1 DEF ReleaseReturns, k8sVars, ClaimTypeOK
<1>4. CASE WriteAddress(w) \/ DeleteAddress(w)
  <2>1. r.claim \in Claims /\ r.addr \in Addrs \cup {None}
    BY <1>0, <1>4 DEF WriteAddress, DeleteAddress, RecOK, RecType
  <2> QED BY <1>4, <2>1 DEF WriteAddress, DeleteAddress, ClaimTypeOK
<1>5. CASE PatchClaim(w)
  <2>1. r.claim \in Claims
    BY <1>0, <1>5 DEF PatchClaim, RecOK
  <2>2. \A m, k \in BOOLEAN : Patched(r, m, k) \in ClaimType
    BY <1>0, <2>1, PatchedType
  <2>3. claims' \in [Claims -> ClaimType]
    <3>1. CASE UNCHANGED claims
      BY <3>1 DEF ClaimTypeOK
    <3>2. ASSUME NEW m \in BOOLEAN, NEW k \in BOOLEAN,
                 claims' = [claims EXCEPT ![r.claim] = Patched(r, m, k)]
          PROVE  claims' \in [Claims -> ClaimType]
      BY <2>1, <2>2, <3>2 DEF ClaimTypeOK
    <3> QED BY <1>5, <3>1, <3>2 DEF PatchClaim
  <2> QED BY <1>5, <2>3 DEF PatchClaim, ClaimTypeOK
<1> QED BY <1>1, <1>2, <1>3, <1>4, <1>5 DEF HandlerStep

\* One step keeps the types.
LEMMA ClaimTypeStep ==
    ASSUME ClaimTypeOK, [ClaimNext]_claimVars
    PROVE  ClaimTypeOK'
<1>0. TypeOK' /\ RecsOK /\ Workers' = Workers
  BY ClientUse, TypeStep DEF ClaimTypeOK, RecsOK, Workers
<1>1. ASSUME NEW w \in Workers, HandlerStep(w)
      PROVE  ClaimTypeOK'
  <2>1. apiFaults' \in 0 .. MaxApiFaults
    BY <1>1, ObjectsHandler, ApiFaultsBounded
  <2> QED BY <1>0, <1>1, <2>1, ObjectsHandler, RecsHandler DEF ClaimTypeOK, RecsOK
<1>2. ASSUME NEW w \in Workers, InfobloxStep(w) \/ \E c \in Claims : Start(w, c)
      PROVE  ClaimTypeOK'
  <2>1. UNCHANGED <<claims, ipAddress, pools, ownerChain, swallowed, apiFaults>>
    BY <1>2 DEF InfobloxStep, Start, k8sVars
  <2>2. RecsOK'
    BY <1>0, <1>2, RecsStart DEF InfobloxStep, RecsOK
  <2> QED BY <1>0, <2>1, <2>2 DEF ClaimTypeOK, RecsOK
<1>3. CASE Crash \/ Foreigners
  BY <1>0, <1>3, NoRecType DEF Crash, Foreigners, k8sVars, ClaimTypeOK, RecsOK
<1>4. ASSUME NEW c \in Claims,
             (\E h \in Presets \cup {None} : CreateClaim(c, h)) \/ DeleteClaim(c)
                \/ OwnerChainBreaks(c)
      PROVE  ClaimTypeOK'
  <2>1. claims[c] \in ClaimType /\ Presets \subseteq Hosts
    BY ClaimAssumption DEF ClaimTypeOK, ClaimAssumption
  <2>2. claims' \in [Claims -> ClaimType] /\ ownerChain' \in [Claims -> BOOLEAN]
    <3>1. \A h \in Presets \cup {None} :
              [claims[c] EXCEPT !.phase = "live", !.hostname = h] \in ClaimType
      BY <2>1 DEF ClaimType, Phases
    <3>2. /\ [claims[c] EXCEPT !.phase = "deleting"] \in ClaimType
          /\ [claims[c] EXCEPT !.phase = "vanished"] \in ClaimType
      BY <2>1 DEF ClaimType, Phases
    <3>3. CASE \E h \in Presets \cup {None} : CreateClaim(c, h)
      BY <3>1, <3>3 DEF CreateClaim, ClaimTypeOK
    <3>4. CASE DeleteClaim(c)
      BY <3>2, <3>4 DEF DeleteClaim, ClaimTypeOK
    <3>5. CASE OwnerChainBreaks(c)
      BY <3>5 DEF OwnerChainBreaks, ClaimTypeOK
    <3> QED BY <1>4, <3>3, <3>4, <3>5
  <2>3. UNCHANGED <<ipAddress, pools, rec, swallowed, apiFaults>>
    BY <1>4 DEF CreateClaim, DeleteClaim, OwnerChainBreaks
  <2> QED BY <1>0, <2>2, <2>3 DEF ClaimTypeOK
<1>5. ASSUME NEW p \in Pools, PoolRecovers(p) \/ PoolDegrades(p) \/ PoolGoes(p)
      PROVE  ClaimTypeOK'
  <2>1. UNCHANGED <<claims, ipAddress, ownerChain, rec, swallowed>>
    BY <1>5 DEF PoolRecovers, PoolDegrades, PoolGoes, SetPool
  <2>2. apiFaults' = apiFaults \/ ApiFault
    BY <1>5 DEF PoolRecovers, PoolDegrades, PoolGoes
  <2>3. pools' \in [Pools -> PoolType]
    <3>1. pools[p] \in PoolType
      BY DEF ClaimTypeOK
    <3>2. /\ [present |-> TRUE, ready |-> "True", paused |-> FALSE] \in PoolType
          /\ [present |-> FALSE, ready |-> "Unknown", paused |-> FALSE] \in PoolType
          /\ [pools[p] EXCEPT !.ready = "False"] \in PoolType
          /\ [pools[p] EXCEPT !.paused = TRUE] \in PoolType
      BY <3>1 DEF PoolType
    <3>3. ASSUME NEW pool \in PoolType, SetPool(p, pool)
          PROVE  pools' \in [Pools -> PoolType]
      BY <3>3 DEF SetPool, ClaimTypeOK
    <3> QED BY <1>5, <3>2, <3>3 DEF PoolRecovers, PoolDegrades, PoolGoes
  <2> QED BY <1>0, <2>1, <2>2, <2>3, ApiFaultsBounded DEF ClaimTypeOK
<1>6. CASE UNCHANGED claimVars
  BY <1>0, <1>6 DEF claimVars, k8sVars, ClaimTypeOK
<1> QED BY <1>1, <1>2, <1>3, <1>4, <1>5, <1>6 DEF ClaimNext

\* The initial state is of the right type.
LEMMA ClaimTypeInit == ClaimInit => ClaimTypeOK
<1> SUFFICES ASSUME ClaimInit PROVE ClaimTypeOK
  OBVIOUS
<1>1. TypeOK
  BY TypeInit DEF ClaimInit
<1>2. apiFaults \in 0 .. MaxApiFaults
  BY ClaimAssumption DEF ClaimInit, ClaimAssumption
<1>3. claims \in [Claims -> ClaimType] /\ pools \in [Pools -> PoolType]
  BY DEF ClaimInit, ClaimType, PoolType, Phases, ReadyReasons
<1> QED BY <1>1, <1>2, <1>3, NoRecType DEF ClaimInit, ClaimTypeOK

\* The claim controller's state has its types in every reachable state: while
\* the loops of EnsureAddress and ReleaseAddress run there is a claim and a
\* host name, whatever crashes and failures came before.
THEOREM ClaimTypeCorrect == ClaimSpec => []ClaimTypeOK
BY ClaimTypeInit, ClaimTypeStep, PTL DEF ClaimSpec

-----------------------------------------------------------------------------
(* What the claim controller inherits from the client *)

\* The claim controller, with all its environment, uses the client within the
\* client's specification.
THEOREM ClaimImplementsClient == ClaimSpec => ImplementsClient
<1>1. ClaimInit => ClientInit
  BY DEF ClaimInit
<1>2. ClaimTypeOK /\ [ClaimNext]_claimVars => [ClientNext]_clientVars
  BY ClientUse
<1>3. ClaimSpec => ClientSpec
  BY <1>1, <1>2, ClaimTypeCorrect, PTL DEF ClaimSpec, ClientSpec
<1> QED BY <1>3 DEF ImplementsClient

\* In particular every write of the claim controller to Infoblox is based on a
\* fresh read, and what it does to Infoblox is what the ledger allows.
THEOREM ClaimImplementsLedger == ClaimSpec => []SnapshotFresh /\ ImplementsLedger
BY ClaimImplementsClient, NeverStale, ClientImplementsLedger, PTL DEF ImplementsClient
=============================================================================
