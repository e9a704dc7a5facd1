------------------------ MODULE InfobloxIPPoolProofs ------------------------
(***************************************************************************)
(* TLAPS proofs about InfobloxIPPool: type correctness, and that a pool    *)
(* with a stored finalizer outlives the claims that existed before its     *)
(* deletion, although the finalizer is removed two steps after the claims  *)
(* were listed and claims may be created in between.  Then that an         *)
(* explicit network view strands no address, although the pool controller  *)
(* writes the view back from a copy and every claim is served and released *)
(* with the view that was read before.                                     *)
(***************************************************************************)
EXTENDS InfobloxIPPool, TLAPS

\* Every action keeps the types.
LEMMA TypeStep ==
    ASSUME TypeOK, [Next]_vars
    PROVE  TypeOK'
<1> USE PoolAssumption
<1>f. Fault => faults' \in 0 .. MaxFaults
  BY DEF TypeOK, Fault
<1>a. NoRec \in RecType /\ NoPool \in PoolType /\ NoClaimRec \in ClaimRecType
  BY DEF NoRec, RecType, NoPool, PoolType, NoClaimRec, ClaimRecType, NotReady
<1>r. ASSUME NEW s \in {"client", "networkView", "dnsView", "network", "listClaims",
                        "patchConditions", "patchSpec"},
             NEW n \in PoolType, PoolRec(s, n)
      PROVE  prec' \in RecType
  BY <1>r DEF TypeOK, PoolRec, RecType
<1>1. CASE Reconcile
  <2> DEFINE add == pool.phase = "live" /\ ~pool.finalizer
             step == IF add THEN "patchConditions"
                     ELSE IF pool.phase = "deleting" THEN "listClaims" ELSE "client"
             fin == IF add THEN TRUE ELSE pool.finalizer
             new == [pool EXCEPT !.finalizer = fin]
  <2>1. prec' = [step |-> step, old |-> pool, new |-> new]
    BY <1>1 DEF Reconcile
  <2>2. pool \in PoolType /\ fin \in BOOLEAN
    BY DEF TypeOK, PoolType
  <2>3. new \in PoolType
    <3> HIDE DEF fin
    <3> QED BY <2>2 DEF PoolType
  <2>4. step \in {"client", "listClaims", "patchConditions"}
    OBVIOUS
  <2> HIDE DEF new, step
  <2>5. prec' \in RecType
    BY <2>1, <2>2, <2>3, <2>4 DEF RecType
  <2> QED BY <1>1, <2>5 DEF Reconcile, TypeOK, claimVars
<1>2. CASE PoolStep
  <2>1. ASSUME PoolStep PROVE prec' \in RecType /\ pool' \in PoolType /\ faults' \in 0 .. MaxFaults
    <3>n. prec \in RecType /\ prec.new \in PoolType /\ pool \in PoolType
      BY DEF TypeOK, RecType
    <3>r. \A r \in {"True"} \cup NotReady : [prec.new EXCEPT !.ready = r] \in PoolType
      BY <3>n DEF PoolType, NotReady
    <3>1. CASE ListClaims
      <4>1. [prec.new EXCEPT !.finalizer = FALSE] \in PoolType
        BY <3>n DEF PoolType
      <4>2. prec' \in RecType
        BY <3>1, <3>n, <4>1, <1>r DEF ListClaims
      <4> QED BY <3>1, <3>n, <4>2, <1>f DEF ListClaims, TypeOK
    <3>2. CASE CheckClient
      <4>1. ResolveView(prec.new.view) \in NetworkViews \cup {None}
        BY <3>n DEF ResolveView, PoolType
      <4>2. [prec.new EXCEPT !.ready = "AuthenticationFailed"] \in PoolType
        BY <3>r DEF NotReady
      <4>3. [prec.new EXCEPT !.view = ResolveView(@)] \in PoolType
        <5> DEFINE v == ResolveView(prec.new.view)
        <5> HIDE DEF v
        <5>1. [prec.new EXCEPT !.view = v] \in PoolType
          BY <3>n, <4>1 DEF PoolType, v
        <5> QED BY <5>1 DEF v
      <4>4. prec' \in RecType
        BY <3>2, <4>2, <4>3, <1>r DEF CheckClient, CheckFails, CheckPasses
      <4> QED BY <3>2, <3>n, <4>4 DEF CheckClient, TypeOK
    <3>3. CASE CheckNetworkView
      <4>1. prec' \in RecType
        BY <3>3, <3>n, <3>r, <1>r DEF CheckNetworkView, CheckFails, CheckPasses, NotReady
      <4> QED BY <3>3, <3>n, <4>1 DEF CheckNetworkView, TypeOK
    <3>4. CASE CheckDNSView
      <4>1. prec' \in RecType
        BY <3>4, <3>n, <3>r, <1>r DEF CheckDNSView, CheckFails, CheckPasses, NotReady
      <4> QED BY <3>4, <3>n, <4>1 DEF CheckDNSView, TypeOK
    <3>5. CASE CheckNetworks
      <4>1. [prec.new EXCEPT !.ready = prec.new.ready] = prec.new
        BY <3>n DEF PoolType
      <4>2. prec' \in RecType
        BY <3>5, <3>n, <3>r, <4>1, <1>r DEF CheckNetworks, CheckFails, CheckPasses, NotReady
      <4> QED BY <3>5, <3>n, <4>2 DEF CheckNetworks, TypeOK
    <3>6. CASE PatchConditions
      BY <3>6, <3>n, <1>f DEF PatchConditions, TypeOK, PoolType, RecType
    <3>7. CASE PatchSpec
      <4>0. prec.old \in PoolType
        BY <3>n DEF RecType
      <4>1. Merged \in PoolType
        <5>1. PICK f \in BOOLEAN, v \in NetworkViews \cup {None} :
                 Merged = [pool EXCEPT !.finalizer = f, !.view = v]
          <6> DEFINE f == IF prec.old.finalizer # prec.new.finalizer
                          THEN prec.new.finalizer ELSE pool.finalizer
                     v == IF prec.old.view # prec.new.view THEN prec.new.view ELSE pool.view
          <6>1. f \in BOOLEAN /\ v \in NetworkViews \cup {None}
            BY <3>n DEF PoolType
          <6>2. Merged = [pool EXCEPT !.finalizer = f, !.view = v]
            BY DEF Merged
          <6> QED BY <6>1, <6>2
        <5> QED BY <3>n, <5>1 DEF PoolType
      <4>2. [Merged EXCEPT !.phase = IF @ = "deleting" /\ ~Merged.finalizer THEN "gone" ELSE @] \in PoolType
        BY <4>1 DEF PoolType
      <4> QED BY <3>7, <3>n, <4>2, <1>a, <1>f DEF PatchSpec, TypeOK
    <3> QED BY <2>1, <3>1, <3>2, <3>3, <3>4, <3>5, <3>6, <3>7 DEF PoolStep
  <2>2. UNCHANGED <<edits, broken, troubles, claimVars>>
    BY <1>2 DEF PoolStep, ListClaims, CheckClient, CheckNetworkView, CheckDNSView,
                CheckNetworks, PatchConditions, PatchSpec
  <2> QED BY <1>2, <2>1, <2>2 DEF TypeOK, claimVars
<1>3. CASE EnsureAddress
  <2>1. crec.claim \in Claims
    BY <1>3 DEF EnsureAddress, TypeOK
  <2>2. ViewOf(crec.view) \in NetworkViews
    BY DEF ViewOf, TypeOK, ClaimRecType
  <2>3. held' \in [Claims -> SUBSET NetworkViews]
    BY <1>3, <2>1, <2>2 DEF EnsureAddress, TypeOK
  <2>4. crec' \in ClaimRecType /\ crec'.claim \in Claims
    BY <1>3, <2>1 DEF EnsureAddress, TypeOK, ClaimRecType
  <2> QED BY <1>3, <1>f, <2>3, <2>4 DEF EnsureAddress, TypeOK, poolVars
<1>4. CASE ReleaseAddress
  <2>1. crec.claim \in Claims
    BY <1>4 DEF ReleaseAddress, TypeOK
  <2>2. held' \in [Claims -> SUBSET NetworkViews] /\ swallowed' \subseteq Claims
    BY <1>4, <2>1 DEF ReleaseAddress, TypeOK
  <2>3. crec' \in ClaimRecType /\ crec'.claim \in Claims
    BY <1>4, <2>1 DEF ReleaseAddress, TypeOK, ClaimRecType
  <2> QED BY <1>4, <1>f, <2>2, <2>3 DEF ReleaseAddress, TypeOK, poolVars
<1>5. CASE StoreClaim
  <2>1. crec.claim \in Claims /\ crec.release \in BOOLEAN /\ crec.ok \in BOOLEAN
    BY <1>5 DEF StoreClaim, TypeOK, ClaimRecType
  <2>2. ASSUME NEW k \in ClaimType PROVE Stored(k) \in ClaimType
    BY <2>1 DEF Stored, ClaimType
  <2>3. claims[crec.claim] \in ClaimType
    BY <2>1 DEF TypeOK
  <2>4. Stored(claims[crec.claim]) \in ClaimType
    BY <2>2, <2>3
  <2>5. claims' \in [Claims -> ClaimType]
    <3>1. PICK k \in ClaimType :
             k = IF claims[crec.claim].phase = "vanished" THEN claims[crec.claim]
                 ELSE Stored(claims[crec.claim])
      BY <2>3, <2>4
    <3>2. claims' = [claims EXCEPT ![crec.claim] = k] \/ claims' = claims
      BY <1>5, <2>1, <3>1 DEF StoreClaim, TypeOK
    <3> QED BY <2>1, <3>2 DEF TypeOK
  <2> QED BY <1>5, <1>a, <1>f, <2>5 DEF StoreClaim, TypeOK, poolVars, NoClaimRec
<1>6. ASSUME NEW c \in Claims, FetchPool(c) PROVE TypeOK'
  <2>1. pool.view \in NetworkViews \cup {None}
    BY DEF TypeOK, PoolType
  <2>2. PICK b \in BOOLEAN : b = (claims[c].phase = "deleting")
    OBVIOUS
  <2>3. \/ crec' = [step |-> "infoblox", claim |-> c, release |-> b, view |-> pool.view,
                    ok |-> FALSE]
        \/ crec' = [NoClaimRec EXCEPT !.step = "store", !.claim = c]
    BY <1>6, <2>2, Zenon DEF FetchPool
  <2>4. crec' \in ClaimRecType /\ crec'.claim \in Claims
    <3>1. [step |-> "infoblox", claim |-> c, release |-> b, view |-> pool.view, ok |-> FALSE]
             \in ClaimRecType
      BY <2>1 DEF ClaimRecType
    <3>2. [NoClaimRec EXCEPT !.step = "store", !.claim = c] \in ClaimRecType
      BY DEF ClaimRecType, NoClaimRec
    <3>3. [NoClaimRec EXCEPT !.step = "store", !.claim = c].claim = c
      BY DEF NoClaimRec
    <3>4. [step |-> "infoblox", claim |-> c, release |-> b, view |-> pool.view,
           ok |-> FALSE].claim = c
      OBVIOUS
    <3> QED BY <2>3, <3>1, <3>2, <3>3, <3>4, Zenon
  <2> QED BY <1>6, <2>4 DEF FetchPool, TypeOK, poolVars
<1>7. ASSUME NEW c \in Claims, CreateClaim(c) \/ DeleteClaim(c) PROVE TypeOK'
  <2>1. claims' \in [Claims -> ClaimType]
    <3>1. (pool.phase \in {"deleting", "gone"}) \in BOOLEAN /\ claims[c] \in ClaimType
      BY DEF TypeOK
    <3> QED BY <1>7, <3>1 DEF CreateClaim, DeleteClaim, TypeOK, ClaimType
  <2> QED BY <1>7, <2>1 DEF CreateClaim, DeleteClaim, TypeOK, poolVars
<1>8. ASSUME NEW v \in SpecViews, CreatePool(v) PROVE TypeOK'
  BY <1>8, <1>a DEF CreatePool, TypeOK, PoolType, claimVars
<1>9. ASSUME NEW v \in NetworkViews, EditView(v) PROVE TypeOK'
  <2>1. pool' \in PoolType
    BY <1>9 DEF EditView, TypeOK, PoolType
  <2>2. edits' \in 0 .. MaxEdits
    BY <1>9 DEF EditView, TypeOK
  <2> QED BY <1>9, <2>1, <2>2 DEF EditView, TypeOK, claimVars
<1>10. ASSUME NEW skip \in BOOLEAN, DeletePool(skip) PROVE TypeOK'
  BY <1>10 DEF DeletePool, TypeOK, PoolType, claimVars
<1>11. ASSUME NEW x \in Checks, Break(x) \/ Repair(x) PROVE TypeOK'
  BY <1>11 DEF Break, Repair, TypeOK, poolVars, claimVars
<1>12. CASE Crash
  BY <1>12, <1>a, <1>f DEF Crash, TypeOK, NoClaimRec
<1>13. CASE UNCHANGED vars
  BY <1>13 DEF vars, poolVars, claimVars, TypeOK
<1> QED
  BY <1>1, <1>2, <1>3, <1>4, <1>5, <1>6, <1>7, <1>8, <1>9, <1>10, <1>11, <1>12, <1>13
     DEF Next, ClaimStep
----------------------------------------------------------------------------
(* The finalizer *)

\* Only a deleted pool loses its finalizer.  A reconciliation that will remove
\* it has seen the pool deleted, and every claim that exists by then, or is
\* created until it does so, is a late one: claims created before were listed.
FinalizerInv ==
    /\ pool.phase = "deleting" => pool.finalizer
    /\ prec.old.phase = "deleting" => pool.phase \in {"deleting", "gone"}
    /\ prec.step = "listClaims" => prec.old.phase = "deleting"
    /\ prec.old.finalizer /\ ~prec.new.finalizer =>
           /\ prec.old.phase = "deleting"
           /\ \A c \in Claims : Exists(c) => claims[c].late

PoolInv == TypeOK /\ FinalizerInv

LEMMA InitInv == Init => PoolInv
<1> SUFFICES ASSUME Init PROVE PoolInv
  OBVIOUS
<1> USE PoolAssumption
<1>1. TypeOK
  BY DEF Init, TypeOK, NoPool, PoolType, NoRec, RecType, NoClaimRec, ClaimRecType,
         ClaimType, NotReady
<1>2. FinalizerInv
  BY DEF Init, FinalizerInv, NoPool, NoRec
<1> QED BY <1>1, <1>2 DEF PoolInv

\* Steps that leave the pool and its reconciliation alone may only create late
\* claims once the pool is deleted.
LEMMA ClaimsKeepFinalizerInv ==
    ASSUME FinalizerInv, UNCHANGED <<pool, prec>>,
           pool.phase \in {"deleting", "gone"} =>
               \A c \in Claims : Exists(c)' => claims'[c].late \/ (Exists(c) /\ claims'[c].late = claims[c].late)
    PROVE  FinalizerInv'
BY DEF FinalizerInv

LEMMA InvStep ==
    ASSUME PoolInv, [Next]_vars
    PROVE  PoolInv'
<1> USE PoolAssumption
<1>t. TypeOK /\ TypeOK' /\ FinalizerInv
  BY TypeStep DEF PoolInv
<1>y. pool \in PoolType /\ prec \in RecType /\ prec.new \in PoolType /\ prec.old \in PoolType
  BY <1>t DEF TypeOK, RecType
<1>e. ASSUME UNCHANGED claims PROVE \A c \in Claims : Exists(c)' = Exists(c)
  BY <1>e DEF Exists
<1>1. CASE Reconcile
  <2>1. UNCHANGED <<pool, claims>>
    BY <1>1 DEF Reconcile, claimVars
  <2>2. prec'.old = pool /\ (pool.finalizer => prec'.new.finalizer)
    BY <1>1, <1>y DEF Reconcile, PoolType
  <2>3. prec'.step = "listClaims" => pool.phase = "deleting"
    BY <1>1 DEF Reconcile
  <2> QED BY <1>t, <2>1, <2>2, <2>3 DEF PoolInv, FinalizerInv
<1>2. CASE PoolStep
  <2>1. UNCHANGED claims
    BY <1>2 DEF PoolStep, ListClaims, CheckClient, CheckNetworkView, CheckDNSView,
                CheckNetworks, PatchConditions, PatchSpec, claimVars
  <2>2. CASE ListClaims
    <3>1. pool' = pool /\ prec'.old = prec.old /\ prec'.step = "patchConditions"
      BY <2>2, <1>y DEF ListClaims, PoolRec, RecType
    <3>2. prec'.new.finalizer = prec.new.finalizer \/ \A c \in Claims : ~Exists(c)
      BY <2>2, <1>y DEF ListClaims, PoolRec, RecType
    <3>3. prec.old.phase = "deleting"
      BY <2>2, <1>t DEF ListClaims, FinalizerInv
    <3> QED BY <1>t, <1>e, <2>1, <3>1, <3>2, <3>3 DEF PoolInv, FinalizerInv
  <2>3. CASE CheckClient \/ CheckNetworkView \/ CheckDNSView \/ CheckNetworks
    <3>1. pool' = pool
      BY <2>3 DEF CheckClient, CheckNetworkView, CheckDNSView, CheckNetworks
    <3>2. PICK s \in {"networkView", "dnsView", "network", "patchConditions"}, n \in PoolType :
             PoolRec(s, n) /\ n.finalizer = prec.new.finalizer
      <4>1. CASE CheckClient
        <5>1. ResolveView(prec.new.view) \in NetworkViews \cup {None}
          BY <1>y DEF ResolveView, PoolType
        <5> QED BY <4>1, <5>1, <1>y DEF CheckClient, CheckFails, CheckPasses, PoolType, NotReady
      <4>2. CASE CheckNetworkView
        BY <4>2, <1>y DEF CheckNetworkView, CheckFails, CheckPasses, PoolType, NotReady
      <4>3. CASE CheckDNSView
        BY <4>3, <1>y DEF CheckDNSView, CheckFails, CheckPasses, PoolType, NotReady
      <4>4. CASE CheckNetworks
        BY <4>4, <1>y DEF CheckNetworks, CheckFails, CheckPasses, PoolType, NotReady
      <4> QED BY <2>3, <4>1, <4>2, <4>3, <4>4
    <3>3. /\ prec'.old = prec.old /\ prec'.step # "listClaims"
          /\ prec'.new.finalizer = prec.new.finalizer
      BY <3>2, <1>y DEF PoolRec, RecType
    <3> QED BY <1>t, <1>e, <2>1, <3>1, <3>3 DEF PoolInv, FinalizerInv
  <2>4. CASE PatchConditions
    <3>1. pool'.phase = pool.phase /\ pool'.finalizer = pool.finalizer
      BY <2>4, <1>y DEF PatchConditions, PoolType
    <3>2. prec'.old = prec.old /\ prec'.new = prec.new /\ prec'.step = "patchSpec"
      BY <2>4, <1>y DEF PatchConditions, RecType
    <3> QED BY <1>t, <1>e, <2>1, <3>1, <3>2 DEF PoolInv, FinalizerInv
  <2>5. CASE PatchSpec
    <3>1. prec' = NoRec
      BY <2>5 DEF PatchSpec
    <3>2. pool'.phase = "deleting" => pool'.finalizer
      <4>1. CASE pool' = pool
        BY <4>1, <1>t DEF FinalizerInv
      <4>2. CASE pool' = [Merged EXCEPT !.phase = IF @ = "deleting" /\ ~Merged.finalizer
                                                  THEN "gone" ELSE @]
        <5>1. Merged \in PoolType
          BY <1>y DEF Merged, PoolType
        <5>2. PICK q \in PoolType : q = Merged
          BY <5>1
        <5>3. pool' = [q EXCEPT !.phase = IF q.phase = "deleting" /\ ~q.finalizer
                                          THEN "gone" ELSE q.phase]
          BY <4>2, <5>2
        <5> QED BY <5>3 DEF PoolType
      <4> QED BY <2>5, <4>1, <4>2 DEF PatchSpec
    <3> QED BY <1>t, <3>1, <3>2 DEF PoolInv, FinalizerInv, NoRec, NoPool
  <2> QED BY <1>2, <2>2, <2>3, <2>4, <2>5 DEF PoolStep
<1>3. CASE EnsureAddress \/ ReleaseAddress
  <2>1. UNCHANGED <<pool, prec, claims>>
    BY <1>3 DEF EnsureAddress, ReleaseAddress, poolVars
  <2> QED BY <1>t, <1>e, <2>1, ClaimsKeepFinalizerInv DEF PoolInv
<1>4. CASE StoreClaim
  <2>1. crec.claim \in Claims /\ UNCHANGED <<pool, prec>>
    BY <1>4, <1>t DEF StoreClaim, TypeOK, poolVars
  <2>2. ASSUME NEW c \in Claims PROVE claims'[c].late = claims[c].late /\ (Exists(c)' => Exists(c))
    <3>1. claims \in [Claims -> ClaimType] /\ claims[c] \in ClaimType
      BY <1>t DEF TypeOK
    <3>2. CASE claims'[c] = claims[c]
      BY <3>2 DEF Exists
    <3>3. CASE claims'[c] = Stored(claims[c])
      BY <3>1, <3>3 DEF Stored, ClaimType, Exists
    <3> QED BY <1>4, <2>1, <3>1, <3>2, <3>3 DEF StoreClaim
  <2> QED BY <1>t, <2>1, <2>2, ClaimsKeepFinalizerInv DEF PoolInv
<1>5. ASSUME NEW c \in Claims, FetchPool(c) PROVE PoolInv'
  <2>1. UNCHANGED <<pool, prec, claims>>
    BY <1>5 DEF FetchPool, poolVars
  <2> QED BY <1>t, <1>e, <2>1, ClaimsKeepFinalizerInv DEF PoolInv
<1>6. ASSUME NEW c \in Claims, CreateClaim(c) \/ DeleteClaim(c) PROVE PoolInv'
  <2>1. UNCHANGED <<pool, prec>>
    BY <1>6 DEF CreateClaim, DeleteClaim, poolVars
  <2>2. ASSUME NEW d \in Claims, pool.phase \in {"deleting", "gone"}, Exists(d)'
        PROVE  claims'[d].late \/ (Exists(d) /\ claims'[d].late = claims[d].late)
    <3>1. claims \in [Claims -> ClaimType] /\ claims[d] \in ClaimType /\ claims[c] \in ClaimType
      BY <1>t DEF TypeOK
    <3>2. CASE CreateClaim(c)
      BY <3>1, <3>2, <2>2 DEF CreateClaim, Exists, ClaimType
    <3>3. CASE DeleteClaim(c)
      BY <3>1, <3>3, <2>2 DEF DeleteClaim, Exists, ClaimType
    <3> QED BY <1>6, <3>2, <3>3
  <2> QED BY <1>t, <2>1, <2>2, ClaimsKeepFinalizerInv DEF PoolInv
<1>7. ASSUME NEW v \in SpecViews, CreatePool(v) PROVE PoolInv'
  <2>1. UNCHANGED <<prec, claims>> /\ pool.phase = "absent" /\ pool'.phase = "live"
    BY <1>7 DEF CreatePool, claimVars, NoPool
  <2> QED BY <1>t, <1>e, <2>1 DEF PoolInv, FinalizerInv
<1>8. ASSUME NEW v \in NetworkViews, EditView(v) PROVE PoolInv'
  <2>1. UNCHANGED <<prec, claims>> /\ pool'.phase = pool.phase /\ pool'.finalizer = pool.finalizer
    BY <1>8, <1>y DEF EditView, claimVars, PoolType
  <2> QED BY <1>t, <1>e, <2>1 DEF PoolInv, FinalizerInv
<1>9. ASSUME NEW skip \in BOOLEAN, DeletePool(skip) PROVE PoolInv'
  <2>1. /\ UNCHANGED <<prec, claims>>
        /\ pool'.phase \in {"deleting", "gone"}
        /\ pool'.phase = "deleting" => pool'.finalizer
    BY <1>9, <1>y DEF DeletePool, claimVars, PoolType
  <2> QED BY <1>t, <1>e, <2>1 DEF PoolInv, FinalizerInv
<1>10. ASSUME NEW x \in Checks, Break(x) \/ Repair(x) PROVE PoolInv'
  <2>1. UNCHANGED <<pool, prec, claims>>
    BY <1>10 DEF Break, Repair, poolVars, claimVars
  <2> QED BY <1>t, <1>e, <2>1, ClaimsKeepFinalizerInv DEF PoolInv
<1>11. CASE Crash
  <2>1. UNCHANGED <<pool, claims>> /\ prec' = NoRec
    BY <1>11 DEF Crash
  <2> QED BY <1>t, <2>1 DEF PoolInv, FinalizerInv, NoRec, NoPool
<1>12. CASE UNCHANGED vars
  <2>1. UNCHANGED <<pool, prec, claims>>
    BY <1>12 DEF vars, poolVars, claimVars
  <2> QED BY <1>t, <1>e, <2>1, ClaimsKeepFinalizerInv DEF PoolInv
<1> QED
  BY <1>1, <1>2, <1>3, <1>4, <1>5, <1>6, <1>7, <1>8, <1>9, <1>10, <1>11, <1>12
     DEF Next, ClaimStep

\* The pool disappears only in the write that removes its finalizer.
LEMMA GoneStep ==
    ASSUME PoolInv, [Next]_vars, pool.phase = "deleting", pool'.phase = "gone"
    PROVE  \A c \in Claims : Exists(c) => claims[c].late
<1>t. pool \in PoolType /\ prec \in RecType /\ prec.new \in PoolType /\ prec.old \in PoolType
      /\ FinalizerInv
  BY DEF PoolInv, TypeOK, RecType
<1>1. pool' # pool
  OBVIOUS
<1>2. CASE PatchSpec
  <2>1. pool' = [Merged EXCEPT !.phase = IF @ = "deleting" /\ ~Merged.finalizer
                                         THEN "gone" ELSE @]
    BY <1>1, <1>2 DEF PatchSpec
  <2>2. Merged \in PoolType /\ Merged.phase = pool.phase
    BY <1>t DEF Merged, PoolType
  <2>3. ~Merged.finalizer
    BY <2>1, <2>2 DEF PoolType
  <2>4. pool.finalizer
    BY <1>t DEF FinalizerInv
  <2>5. prec.old.finalizer /\ ~prec.new.finalizer
    BY <1>t, <2>3, <2>4 DEF Merged, PoolType
  <2> QED BY <1>t, <2>5 DEF FinalizerInv
<1>3. CASE PatchConditions
  BY <1>3, <1>t DEF PatchConditions, PoolType
<1>4. CASE Reconcile \/ ListClaims \/ CheckClient \/ CheckNetworkView \/ CheckDNSView
           \/ CheckNetworks \/ ClaimStep \/ Crash
  BY <1>1, <1>4 DEF Reconcile, ListClaims, CheckClient, CheckNetworkView, CheckDNSView,
       CheckNetworks, ClaimStep, EnsureAddress, ReleaseAddress, StoreClaim, Crash, poolVars
<1>5. ASSUME NEW c \in Claims, FetchPool(c) \/ CreateClaim(c) \/ DeleteClaim(c) PROVE FALSE
  BY <1>1, <1>5 DEF FetchPool, CreateClaim, DeleteClaim, poolVars
<1>6. ASSUME NEW x \in Checks, Break(x) \/ Repair(x) PROVE FALSE
  BY <1>1, <1>6 DEF Break, Repair, poolVars
<1>7. \A x : ~DeletePool(x) /\ ~EditView(x) /\ ~CreatePool(x)
  BY DEF DeletePool, EditView, CreatePool
<1>8. ~UNCHANGED vars
  BY <1>1 DEF vars, poolVars
<1> QED BY <1>2, <1>3, <1>4, <1>5, <1>6, <1>7, <1>8 DEF Next, PoolStep

\* The pool controller, the webhook, the claims and their users keep the types.
THEOREM PoolTypeCorrect == Spec => []TypeOK
<1>1. TypeOK /\ [Next]_vars => TypeOK'
  BY TypeStep
<1>2. Init => TypeOK
  BY InitInv DEF PoolInv
<1> QED BY <1>1, <1>2, PTL DEF Spec

\* For any number of claims, users and failures: a pool that had its finalizer
\* when it was deleted outlives every claim created before.
THEOREM PoolOutlivesItsClaims == Spec => NoOrphanedClaim
<1>1. PoolInv /\ [Next]_vars => PoolInv'
  BY InvStep
<1>2. PoolInv /\ [Next]_vars =>
        [pool.phase = "deleting" /\ pool'.phase = "gone" =>
            \A c \in Claims : Exists(c) => claims[c].late]_vars
  BY GoneStep
<1> QED BY <1>1, <1>2, InitInv, PTL DEF Spec, NoOrphanedClaim

----------------------------------------------------------------------------
(* Explicit views *)

\* The user who created the pool named its network view, and nobody changed it.
Explicit == pool.explicit # None /\ edits = 0

\* The view of such a pool is the same wherever it is stored or kept in memory, so
\* that addresses are only taken in it, and ReleaseAddress finds what
\* EnsureAddress took.  Nothing happens before the pool exists.
ViewInv ==
    /\ pool.phase = "absent" =>
           /\ pool.explicit = None /\ prec.step = "idle" /\ crec.step # "infoblox"
           /\ \A c \in Claims : held[c] = {}
    /\ crec.step # "idle" => claims[crec.claim].phase # "released"
    /\ Explicit =>
           /\ pool.view = pool.explicit
           /\ prec.step # "idle" => /\ prec.old.view = pool.explicit
                                    /\ prec.new.view = pool.explicit
           /\ crec.step = "infoblox" => crec.view = pool.explicit
           /\ crec.step = "store" /\ crec.release /\ crec.claim \notin swallowed =>
                  held[crec.claim] = {}
           /\ \A c \in Claims : held[c] \subseteq {pool.explicit}
           /\ \A c \in Claims : claims[c].phase = "released" /\ c \notin swallowed => held[c] = {}

\* Initially there is no pool, and nothing is held.
LEMMA ViewInit == Init => ViewInv
BY DEF Init, ViewInv, NoPool, NoRec, NoClaimRec, Explicit

----------------------------------------------------------------------------
(* The pool controller *)

\* What a step of the pool controller must respect.
PoolSide ==
    /\ UNCHANGED <<claimVars, edits>>
    /\ pool'.explicit = pool.explicit
    /\ pool.phase # "absent" /\ pool'.phase # "absent"
    /\ Explicit => /\ pool'.view = pool.explicit
                   /\ prec'.step # "idle" => /\ prec'.old.view = pool.explicit
                                             /\ prec'.new.view = pool.explicit

\* Then the invariant is preserved, since the claims are left alone.
LEMMA PoolSideKeeps ==
    ASSUME ViewInv, PoolSide
    PROVE  ViewInv'
<1>1. Explicit' = Explicit
  BY DEF PoolSide, Explicit
<1>2. UNCHANGED <<claims, held, crec, swallowed>>
  BY DEF PoolSide, claimVars
<1> QED BY <1>1, <1>2 DEF PoolSide, ViewInv

\* Reconcile reads the view, the checks do not change an explicit one, and the
\* patch writes it back only if it differs.
LEMMA PoolStepViews ==
    ASSUME TypeOK, ViewInv, Reconcile \/ PoolStep
    PROVE  PoolSide
<1> USE PoolAssumption
<1>y. pool \in PoolType /\ prec \in RecType /\ prec.new \in PoolType /\ prec.old \in PoolType
  BY DEF TypeOK, RecType
<1>r. \A s, n : PoolRec(s, n) => prec'.old = prec.old /\ prec'.new = n
  BY <1>y DEF PoolRec, RecType
<1>n. \A r : [prec.new EXCEPT !.ready = r].view = prec.new.view
  BY <1>y DEF PoolType
<1>1. CASE Reconcile
  <2>1. UNCHANGED <<claimVars, edits, pool>> /\ pool.phase # "absent"
    BY <1>1 DEF Reconcile
  <2>2. prec'.old = pool /\ prec'.new.view = pool.view
    BY <1>1, <1>y DEF Reconcile, PoolType
  <2> QED BY <2>1, <2>2 DEF PoolSide, ViewInv
<1>2. CASE PoolStep
  <2>1. UNCHANGED <<claimVars, edits>>
    BY <1>2 DEF PoolStep, ListClaims, CheckClient, CheckNetworkView, CheckDNSView,
                CheckNetworks, PatchConditions, PatchSpec
  <2>2. prec.step # "idle"
    BY <1>2 DEF PoolStep, ListClaims, CheckClient, CheckNetworkView, CheckDNSView,
                CheckNetworks, PatchConditions, PatchSpec
  <2>3. /\ pool.phase # "absent"
        /\ Explicit => /\ pool.view = pool.explicit /\ prec.old.view = pool.explicit
                       /\ prec.new.view = pool.explicit
    BY <2>2 DEF ViewInv
  <2>4. CASE ListClaims
    <3>1. pool' = pool
      BY <2>4 DEF ListClaims
    <3>2. \/ PoolRec("patchConditions", [prec.new EXCEPT !.finalizer = FALSE])
          \/ PoolRec("patchConditions", prec.new)
      BY <2>4, Zenon DEF ListClaims
    <3>3. [prec.new EXCEPT !.finalizer = FALSE].view = prec.new.view
      BY <1>y DEF PoolType
    <3>4. prec'.old = prec.old /\ prec'.new.view = prec.new.view
      BY <3>2, <3>3, <1>r
    <3> QED BY <2>1, <2>3, <3>1, <3>4 DEF PoolSide
  <2>5. CASE CheckClient
    <3> DEFINE v == ResolveView(prec.new.view)
    <3>1. pool' = pool
      BY <2>5 DEF CheckClient
    <3>2. \/ PoolRec("patchConditions", [prec.new EXCEPT !.ready = "AuthenticationFailed"])
          \/ PoolRec("networkView", [prec.new EXCEPT !.view = v])
      BY <2>5 DEF CheckClient, CheckFails, CheckPasses
    <3>3. Explicit => v = prec.new.view
      BY <2>3 DEF ResolveView, Explicit
    <3> HIDE DEF v
    <3>4. [prec.new EXCEPT !.view = v].view = v
      BY <1>y DEF PoolType
    <3>5. prec'.old = prec.old /\ prec'.new.view \in {prec.new.view, v}
      <4>1. CASE PoolRec("patchConditions", [prec.new EXCEPT !.ready = "AuthenticationFailed"])
        <5>1. /\ prec'.old = prec.old
              /\ prec'.new = [prec.new EXCEPT !.ready = "AuthenticationFailed"]
          BY <4>1, <1>r
        <5> QED BY <5>1, <1>n
      <4>2. CASE PoolRec("networkView", [prec.new EXCEPT !.view = v])
        <5>1. prec'.old = prec.old /\ prec'.new = [prec.new EXCEPT !.view = v]
          BY <4>2, <1>r
        <5> QED BY <5>1, <3>4
      <4> QED BY <3>2, <4>1, <4>2
    <3> QED BY <2>1, <2>3, <3>1, <3>3, <3>5 DEF PoolSide
  <2>6. CASE CheckNetworkView
    <3>1. pool' = pool
      BY <2>6 DEF CheckNetworkView
    <3>2. \E s, r : PoolRec(s, prec.new) \/ PoolRec(s, [prec.new EXCEPT !.ready = r])
      BY <2>6, Zenon DEF CheckNetworkView, CheckFails, CheckPasses
    <3>3. prec'.old = prec.old /\ prec'.new.view = prec.new.view
      BY <3>2, <1>r, <1>n
    <3> QED BY <2>1, <2>3, <3>1, <3>3 DEF PoolSide
  <2>7. CASE CheckDNSView
    <3>1. pool' = pool
      BY <2>7 DEF CheckDNSView
    <3>2. \E s, r : PoolRec(s, prec.new) \/ PoolRec(s, [prec.new EXCEPT !.ready = r])
      BY <2>7, Zenon DEF CheckDNSView, CheckFails, CheckPasses
    <3>3. prec'.old = prec.old /\ prec'.new.view = prec.new.view
      BY <3>2, <1>r, <1>n
    <3> QED BY <2>1, <2>3, <3>1, <3>3 DEF PoolSide
  <2>8. CASE CheckNetworks
    <3>1. pool' = pool
      BY <2>8 DEF CheckNetworks
    <3>2. \E s, r : PoolRec(s, prec.new) \/ PoolRec(s, [prec.new EXCEPT !.ready = r])
      BY <2>8, Zenon DEF CheckNetworks, CheckFails, CheckPasses
    <3>3. prec'.old = prec.old /\ prec'.new.view = prec.new.view
      BY <3>2, <1>r, <1>n
    <3> QED BY <2>1, <2>3, <3>1, <3>3 DEF PoolSide
  <2>9. CASE PatchConditions
    <3>1. pool'.phase = pool.phase /\ pool'.view = pool.view /\ pool'.explicit = pool.explicit
      BY <2>9, <1>y DEF PatchConditions, PoolType
    <3>2. prec'.old = prec.old /\ prec'.new = prec.new
      BY <2>9, <1>y DEF PatchConditions, RecType
    <3> QED BY <2>1, <2>3, <3>1, <3>2 DEF PoolSide
  <2>10. CASE PatchSpec
    <3>1. prec'.step = "idle"
      BY <2>10 DEF PatchSpec, NoRec
    <3>2. /\ Merged.phase = pool.phase /\ Merged.explicit = pool.explicit
          /\ Merged.view = IF prec.old.view # prec.new.view THEN prec.new.view ELSE pool.view
      BY <1>y DEF Merged, PoolType
    <3>3. DOMAIN Merged = {"phase", "finalizer", "view", "ready", "explicit"}
      BY <1>y DEF Merged, PoolType
    <3>4. \/ pool' = pool
          \/ pool' = [Merged EXCEPT !.phase = IF @ = "deleting" /\ ~Merged.finalizer
                                              THEN "gone" ELSE @]
      BY <2>10 DEF PatchSpec
    <3>5. /\ pool'.explicit = pool.explicit /\ pool'.phase \in {"gone", pool.phase}
          /\ pool'.view \in {pool.view, Merged.view}
      BY <3>2, <3>3, <3>4
    <3> QED BY <2>1, <2>3, <3>1, <3>2, <3>5 DEF PoolSide
  <2> QED BY <1>2, <2>4, <2>5, <2>6, <2>7, <2>8, <2>9, <2>10 DEF PoolStep
<1> QED BY <1>1, <1>2

----------------------------------------------------------------------------
(* The claim controller *)

\* An address is only taken in the view of the pool.
LEMMA EnsureViews ==
    ASSUME TypeOK, ViewInv, EnsureAddress
    PROVE  ViewInv'
<1> USE PoolAssumption
<1>1. crec.claim \in Claims /\ crec \in ClaimRecType /\ held \in [Claims -> SUBSET NetworkViews]
  BY DEF EnsureAddress, TypeOK
<1>2. UNCHANGED <<pool, prec, edits, claims, swallowed>>
  BY DEF EnsureAddress, poolVars
<1>3. crec.step = "infoblox" /\ ~crec.release /\ claims[crec.claim].phase # "released"
  BY DEF EnsureAddress, ViewInv
<1>4. crec'.step = "store" /\ crec'.claim = crec.claim /\ ~crec'.release
  BY <1>1, <1>3 DEF EnsureAddress, ClaimRecType
<1>5. pool.phase # "absent"
  BY <1>3 DEF ViewInv
<1>6. ASSUME Explicit, NEW c \in Claims
      PROVE  /\ held'[c] \subseteq {pool.explicit}
             /\ claims[c].phase = "released" => held'[c] = held[c]
  <2>1. ViewOf(crec.view) = pool.explicit
    BY <1>3, <1>6 DEF ViewInv, ViewOf, Explicit
  <2>2. held' = held \/ held' = [held EXCEPT ![crec.claim] = @ \cup {pool.explicit}]
                     \/ held' = [held EXCEPT ![crec.claim] = @]
    BY <2>1 DEF EnsureAddress
  <2>3. held[c] \subseteq {pool.explicit}
    BY <1>6 DEF ViewInv
  <2> QED BY <1>1, <1>3, <2>2, <2>3
<1>7. Explicit' = Explicit
  BY <1>2 DEF Explicit
<1> QED BY <1>2, <1>3, <1>4, <1>5, <1>6, <1>7 DEF ViewInv

\* Unless an error is dropped, everything the claim holds is found and freed.
LEMMA ReleaseViews ==
    ASSUME TypeOK, ViewInv, ReleaseAddress
    PROVE  ViewInv'
<1> USE PoolAssumption
<1>1. crec.claim \in Claims /\ crec \in ClaimRecType /\ held \in [Claims -> SUBSET NetworkViews]
  BY DEF ReleaseAddress, TypeOK
<1>2. UNCHANGED <<pool, prec, edits, claims>>
  BY DEF ReleaseAddress, poolVars
<1>3. crec.step = "infoblox" /\ claims[crec.claim].phase # "released"
  BY DEF ReleaseAddress, ViewInv
<1>4. crec'.step = "store" /\ crec'.claim = crec.claim
  BY <1>1 DEF ReleaseAddress, ClaimRecType
<1>5. pool.phase # "absent"
  BY <1>3 DEF ViewInv
<1>6. \A c \in Claims : c # crec.claim => held'[c] = held[c] /\ (c \in swallowed' <=> c \in swallowed)
  BY <1>1 DEF ReleaseAddress
<1>7. ASSUME Explicit
      PROVE  /\ held'[crec.claim] \subseteq {pool.explicit}
             /\ crec.claim \notin swallowed' => held'[crec.claim] = {}
  <2>1. crec.view = pool.explicit /\ crec.view # None
    BY <1>3, <1>7 DEF ViewInv, Explicit
  <2>2. held[crec.claim] \subseteq {pool.explicit}
    BY <1>1, <1>7 DEF ViewInv
  <2>3. Matching(crec.view, crec.claim) = held[crec.claim]
    BY <2>1, <2>2 DEF Matching
  <2>4. \/ held' = [held EXCEPT ![crec.claim] = @ \ held[crec.claim]]
        \/ held' = held /\ crec.claim \in swallowed'
    BY <2>3 DEF ReleaseAddress
  <2> QED BY <1>1, <2>2, <2>4
<1>8. Explicit' = Explicit
  BY <1>2 DEF Explicit
<1> QED BY <1>1, <1>2, <1>3, <1>4, <1>5, <1>6, <1>7, <1>8 DEF ViewInv

\* A claim that is stored as released holds nothing.
LEMMA StoreViews ==
    ASSUME TypeOK, ViewInv, StoreClaim
    PROVE  ViewInv'
<1> USE PoolAssumption
<1>1. crec.claim \in Claims /\ claims \in [Claims -> ClaimType] /\ crec.step = "store"
  BY DEF StoreClaim, TypeOK
<1>2. UNCHANGED <<pool, prec, edits, held, swallowed>> /\ crec'.step = "idle"
  BY DEF StoreClaim, poolVars, NoClaimRec
<1>3. ASSUME NEW c \in Claims, claims'[c].phase = "released"
      PROVE  claims[c].phase = "released" \/ (c = crec.claim /\ crec.release)
  <2>1. claims[c] \in ClaimType /\ claims[crec.claim] \in ClaimType
    BY <1>1
  <2>2. Stored(claims[crec.claim]).phase = IF crec.release THEN "released"
                                           ELSE claims[crec.claim].phase
    BY <2>1 DEF Stored, ClaimType
  <2>3. claims'[c] \in {claims[c], Stored(claims[crec.claim])} /\ (c # crec.claim => claims'[c] = claims[c])
    BY <1>1 DEF StoreClaim
  <2> QED BY <1>3, <2>2, <2>3
<1>4. Explicit' = Explicit
  BY <1>2 DEF Explicit
<1> QED BY <1>1, <1>2, <1>3, <1>4 DEF ViewInv

\* A claim is served, or released, with the view that its pool has.
LEMMA FetchViews ==
    ASSUME TypeOK, ViewInv, NEW c \in Claims, FetchPool(c)
    PROVE  ViewInv'
<1>1. UNCHANGED <<pool, prec, edits, claims, held, swallowed>>
  BY DEF FetchPool, poolVars
<1>2. claims[c].phase # "released"
  BY DEF FetchPool, Exists
<1>3. PICK b : b = (claims[c].phase = "deleting")
  OBVIOUS
<1>4. \/ /\ pool.phase # "absent"
         /\ crec' = [step |-> "infoblox", claim |-> c, release |-> b, view |-> pool.view,
                     ok |-> FALSE]
      \/ crec' = [NoClaimRec EXCEPT !.step = "store", !.claim = c]
  BY <1>3, Zenon DEF FetchPool, FetchPoolPasses
<1>5. /\ crec'.claim = c /\ crec'.step \in {"infoblox", "store"}
      /\ crec'.step = "store" => ~crec'.release
      /\ crec'.step = "infoblox" => crec'.view = pool.view /\ pool.phase # "absent"
  <2>1. CASE /\ pool.phase # "absent"
             /\ crec' = [step |-> "infoblox", claim |-> c, release |-> b, view |-> pool.view,
                         ok |-> FALSE]
    BY <2>1
  <2>2. CASE crec' = [NoClaimRec EXCEPT !.step = "store", !.claim = c]
    BY <2>2 DEF NoClaimRec
  <2> QED BY <1>4, <2>1, <2>2
<1>6. Explicit' = Explicit
  BY <1>1 DEF Explicit
<1> QED BY <1>1, <1>2, <1>5, <1>6 DEF ViewInv

----------------------------------------------------------------------------
(* Users, and the result *)

\* Every step preserves the invariant.
LEMMA ViewStep ==
    ASSUME TypeOK, ViewInv, [Next]_vars
    PROVE  ViewInv'
<1> USE PoolAssumption
<1>y. pool \in PoolType /\ claims \in [Claims -> ClaimType] /\ edits \in Nat
  BY DEF TypeOK
<1>1. CASE Reconcile \/ PoolStep
  BY <1>1, PoolStepViews, PoolSideKeeps
<1>2. CASE ClaimStep
  BY <1>2, EnsureViews, ReleaseViews, StoreViews DEF ClaimStep
<1>3. ASSUME NEW c \in Claims, FetchPool(c) PROVE ViewInv'
  BY <1>3, FetchViews
<1>4. ASSUME NEW c \in Claims, CreateClaim(c) \/ DeleteClaim(c) PROVE ViewInv'
  <2>1. UNCHANGED <<pool, prec, edits, held, crec, swallowed>>
    BY <1>4 DEF CreateClaim, DeleteClaim, poolVars
  <2>2. \A d \in Claims : claims'[d].phase = "released" => claims[d].phase = "released"
    <3>1. \A d \in Claims : claims[d] \in ClaimType
      BY <1>y
    <3>2. CASE CreateClaim(c)
      BY <1>y, <3>1, <3>2 DEF CreateClaim, ClaimType
    <3>3. CASE DeleteClaim(c)
      BY <1>y, <3>1, <3>3 DEF DeleteClaim, ClaimType
    <3> QED BY <1>4, <3>2, <3>3
  <2>3. crec.step # "idle" => crec.claim \in Claims
    BY DEF TypeOK
  <2>4. Explicit' = Explicit
    BY <2>1 DEF Explicit
  <2> QED BY <2>1, <2>2, <2>3, <2>4 DEF ViewInv
<1>5. ASSUME NEW v \in SpecViews, CreatePool(v) PROVE ViewInv'
  <2>1. UNCHANGED <<prec, edits, claims, held, crec, swallowed>> /\ pool.phase = "absent"
    BY <1>5 DEF CreatePool, claimVars
  <2>2. pool'.phase = "live" /\ pool'.view = v /\ pool'.explicit = v
    BY <1>5 DEF CreatePool, NoPool
  <2>3. crec.step # "idle" => crec.claim \in Claims
    BY DEF TypeOK
  <2> QED BY <2>1, <2>2, <2>3 DEF ViewInv
<1>6. ASSUME NEW v \in NetworkViews, EditView(v) PROVE ViewInv'
  <2>1. UNCHANGED <<prec, claims, held, crec, swallowed>> /\ pool.phase = "live"
    BY <1>6 DEF EditView, claimVars
  <2>2. pool'.phase = "live"
    BY <1>6, <1>y DEF EditView, PoolType
  <2>3. ~Explicit'
    BY <1>6, <1>y DEF EditView, Explicit
  <2> QED BY <2>1, <2>2, <2>3 DEF ViewInv
<1>7. ASSUME NEW skip \in BOOLEAN, DeletePool(skip) PROVE ViewInv'
  <2>1. UNCHANGED <<prec, edits, claimVars>> /\ pool.phase = "live"
    BY <1>7 DEF DeletePool
  <2>2. pool'.phase # "absent" /\ pool'.view = pool.view /\ pool'.explicit = pool.explicit
    BY <1>7, <1>y DEF DeletePool, PoolType
  <2> QED BY <2>1, <2>2, PoolSideKeeps DEF PoolSide, ViewInv
<1>8. ASSUME NEW x \in Checks, Break(x) \/ Repair(x) PROVE ViewInv'
  <2>1. UNCHANGED <<pool, prec, edits, claims, held, crec, swallowed>>
    BY <1>8 DEF Break, Repair, poolVars, claimVars
  <2> QED BY <2>1 DEF ViewInv, Explicit
<1>9. CASE Crash
  <2>1. UNCHANGED <<pool, edits, claims, held, swallowed>> /\ prec'.step = "idle" /\ crec'.step = "idle"
    BY <1>9 DEF Crash, NoRec, NoClaimRec
  <2> QED BY <2>1 DEF ViewInv, Explicit
<1>10. CASE UNCHANGED vars
  <2>1. UNCHANGED <<pool, prec, edits, claims, held, crec, swallowed>>
    BY <1>10 DEF vars, poolVars, claimVars
  <2> QED BY <2>1 DEF ViewInv, Explicit
<1> QED
  BY <1>1, <1>2, <1>3, <1>4, <1>5, <1>6, <1>7, <1>8, <1>9, <1>10 DEF Next

\* For any number of claims and views, whatever fails: a claim of a pool whose
\* user named the view and left it alone is released where it was served.
THEOREM ExplicitViewIsSafe == Spec => []ExplicitViewNeverStrands
<1>1. TypeOK /\ ViewInv /\ [Next]_vars => ViewInv'
  BY ViewStep
<1>2. ViewInv => ExplicitViewNeverStrands
  BY DEF ViewInv, ExplicitViewNeverStrands, Explicit
<1> QED BY <1>1, <1>2, ViewInit, PoolTypeCorrect, PTL DEF Spec
=============================================================================
