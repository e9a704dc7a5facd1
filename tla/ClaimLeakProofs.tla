--------------------------- MODULE ClaimLeakProofs ---------------------------
(***************************************************************************)
(* Proof that a claim which was released, and of which no error was        *)
(* dropped, has left no address in Infoblox, as long as no other claim     *)
(* competes for the same addresses of the same host record.                *)
(***************************************************************************)
EXTENDS ClaimHeldProofs

-----------------------------------------------------------------------------
(* The inductive invariant *)

\* The subnets that the loop of ReleaseAddress has left behind hold nothing.
Freed(r) ==
    LET subnets == PoolSubnets[PoolOf[r.claim]] IN
    \A j \in 1 .. Len(subnets) :
        j < r.i /\ subnets[j] \in Subnets => Holds(r.claim) \cap AddrsIn[subnets[j]] = {}

\* The last release loop of claim c is one to rely on.
Reliable(c) == Unrivalled(c) /\ c \notin swallowed

\* A reconciliation drops the finalizer of a deleted claim only, after its loop.
LeakRec(r) ==
    r.step # "idle" =>
        /\ claims[r.claim].phase # "released"
        /\ r.step \in {"fetchPool", "hostname"} => r.i = 1
        /\ ~r.finalizer => Deleting(r) /\ r.step = "patch"
        /\ r.step = "deleteAddress" => Deleting(r)
        /\ Deleting(r) /\ Reliable(r.claim) =>
              /\ r.step \in {"loop", "call"} => Freed(r)
              /\ r.step = "deleteAddress" \/ ~r.finalizer => Holds(r.claim) = {}

\* The call under way is about the subnet the loop has come to.
LeakCall(r, k) == k.step # "idle" => k.subnet = PoolSubnets[PoolOf[r.claim]][r.i]

LeakStored(c) == claims[c].phase = "released" /\ Reliable(c) => Holds(c) = {}

LeakInv ==
    /\ \A w \in Workers : LeakRec(rec[w]) /\ LeakCall(rec[w], call[w])
    /\ \A c \in Claims : LeakStored(c)

-----------------------------------------------------------------------------
(* Steps that write host records *)

\* A request adds at most addresses of the subnet it was asked for, to a record
\* in the view it was asked for, and only if it is to allocate.
LEMMA WapiAdds ==
    ASSUME ClientInv, NEW w \in Workers, WapiStep(w), NEW v \in NetworkViews, NEW h \in Hosts
    PROVE  \A a \in hostRecords'[v][h] :
              \/ a \in hostRecords[v][h]
              \/ /\ call[w].op = "allocate"
                 /\ h = call[w].host
                 /\ call[w].view = None \/ call[w].view = v
                 /\ a \in AddrsIn[call[w].subnet]
<1> DEFINE k == call[w]
<1>0. TypeOK /\ SnapshotFresh /\ k \in CallType
  BY DEF ClientInv, TypeOK
<1>1. CASE hostRecords' = hostRecords
  BY <1>1
<1>2. CASE RequestFails(w) \/ Rejected(w) \/ Lookup(w) \/ Refetch(w)
  <2>1. hostRecords' = hostRecords
    BY <1>0, <1>2, FailureFacts DEF Lookup, Refetch, RequestFails, Rejected
  <2> QED BY <1>1, <2>1
<1>4. CASE k.step = "write" /\ k.op = "allocate" /\ CreateObject(w)
  <2>1. PICK a \in NextAvailable(k.view, k.subnet) :
            hostRecords' = [hostRecords EXCEPT ![ViewOf(k.view)][k.host] = {a}]
    BY <1>4 DEF CreateObject, Store
  <2>2. a \in AddrsIn[k.subnet] /\ (k.view = None \/ k.view = ViewOf(k.view))
    BY <2>1 DEF NextAvailable, ViewOf
  <2> QED BY <1>0, <1>4, <2>1, <2>2 DEF TypeOK
<1>5. CASE k.step = "write" /\ k.op = "allocate" /\ UpdateObject(w)
  <2>1. PICK a \in NextAvailable(k.view, k.subnet) :
            hostRecords' = [hostRecords EXCEPT ![k.ref][k.host] = k.hr \cup {a}]
    BY <1>5 DEF UpdateObject, Store
  <2>2. k.hr = hostRecords[k.ref][k.host] /\ Matching(k.view, k.host) = {k.ref}
    BY <1>0, <1>5 DEF UpdateObject, SnapshotFresh
  <2>3. a \in AddrsIn[k.subnet] /\ (k.view = None \/ k.view = k.ref)
    BY <2>1, <2>2 DEF NextAvailable, Matching
  <2> QED BY <1>0, <1>5, <2>1, <2>2, <2>3 DEF TypeOK
<1>6. CASE k.step = "write" /\ k.op = "release" /\ WriteRelease(w) /\ ~RequestFails(w) /\ ~Rejected(w)
  <2>1. hostRecords' = [hostRecords EXCEPT ![k.ref][k.host] = k.hr]
    BY <1>6 DEF WriteRelease, Store
  <2>2. k.ref # None
    BY <1>0, <1>6, ClientAssumption DEF TypeOK, ArgsOK, ClientAssumption
  <2>3. k.hr \subseteq hostRecords[k.ref][k.host]
    BY <1>0, <1>6, <2>2 DEF SnapshotFresh
  <2> QED BY <1>0, <2>1, <2>3 DEF TypeOK
<1> QED BY <1>2, <1>4, <1>5, <1>6 DEF WapiStep, WriteHostRecord, WriteRelease

\* What a claim holds does not grow, except by allocations made for it or for a
\* rival.
Settled(c) ==
    /\ Known(c) /\ Unrivalled(c)
    /\ \A w \in Workers : rec[w].step # "idle" /\ rec[w].claim = c => Deleting(rec[w])

HoldsShrink == \A c \in Claims : Settled(c) => Holds(c)' \subseteq Holds(c)

LEMMA WapiShrinks ==
    ASSUME ClientInv, ClaimTypeOK, HeldInv, NEW w \in Workers, InfobloxStep(w)
    PROVE  HoldsShrink
<1> DEFINE k == call[w]
           d == rec[w].claim
<1> SUFFICES ASSUME NEW c \in Claims, Settled(c), NEW a \in Holds(c)', a \notin Holds(c)
             PROVE  FALSE
  BY DEF HoldsShrink
<1> DEFINE h == HostOf(c)
           view(e) == PoolView[PoolOf[e]]
<1>1. WapiStep(w) /\ UNCHANGED claims /\ h' = h
  BY DEF InfobloxStep, k8sVars, HostOf
<1>2. h \in Hosts
  BY ClaimAssumption DEF ClaimTypeOK, ClaimType, HostOf, ClaimAssumption
<1>3. a \in PoolAddrs(PoolOf[c])
  BY DEF Holds, PoolAddrs, ValidSubnets
<1>4. PICK v \in Matching(view(c), h)' : a \in hostRecords'[v][h]
  BY <1>1 DEF Holds
<1>5. v \in NetworkViews /\ (view(c) = None \/ view(c) = v)
  BY <1>4 DEF Matching
<1>6. a \notin hostRecords[v][h]
  <2>1. SUFFICES ASSUME a \in hostRecords[v][h] PROVE FALSE
    OBVIOUS
  <2>2. v \in Matching(view(c), h)
    BY <1>5, <2>1 DEF Matching
  <2> QED BY <1>3, <2>1, <2>2 DEF Holds
<1>7. /\ k.op = "allocate"
      /\ h = k.host
      /\ k.view = None \/ k.view = v
      /\ a \in AddrsIn[k.subnet]
  BY <1>1, <1>2, <1>4, <1>5, <1>6, WapiAdds
<1>8. k.step # "idle"
  BY <1>1, WapiArgs DEF ClientInv
<1>9. /\ rec[w].step = "call" /\ ~Deleting(rec[w])
      /\ k.view = view(d) /\ k.host = rec[w].host
      /\ k.subnet \in ValidSubnets(PoolOf[d])
  BY <1>7, <1>8 DEF HeldInv, CallInv
<1>10. AboutClaim(rec[w]) /\ d \in Claims
  BY <1>9 DEF HeldInv, RecInv, ClaimTypeOK, RecOK
<1>11. Known(d) /\ k.host = HostOf(d)
  BY <1>9, <1>10 DEF AboutClaim
<1>12. d # c
  BY <1>9 DEF Settled
<1>13. PICK s \in ValidSubnets(PoolOf[c]) : a \in AddrsIn[s]
  BY <1>3 DEF PoolAddrs
<1>14. s = k.subnet
  BY <1>7, <1>9, <1>13, SubnetsDisjoint DEF ValidSubnets, SubnetsDisjoint
<1>15. view(d) = None \/ view(d) = v
  BY <1>7, <1>9
<1>16. Rivals(c, d)
  BY <1>5, <1>7, <1>9, <1>11, <1>13, <1>14, <1>15 DEF Rivals
<1> QED BY <1>10, <1>11, <1>12, <1>16 DEF Settled, Unrivalled

\* The other steps do not write host records.
LEMMA StepsShrink ==
    ASSUME ClientInv, ClaimTypeOK, HeldInv, [ClaimNext]_claimVars
    PROVE  HoldsShrink
<1>1. CASE hostRecords' = hostRecords
  <2>1. \A c \in Claims : Known(c) => HostOf(c)' = HostOf(c)
    BY StepsGo DEF ClaimsGo
  <2> QED BY <1>1, <2>1, HoldsSame DEF HoldsShrink, Settled
<1>2. ASSUME NEW w \in Workers, InfobloxStep(w)
      PROVE  HoldsShrink
  BY <1>2, WapiShrinks
<1>3. CASE \A w \in Workers : ~InfobloxStep(w)
  <2>1. hostRecords' = hostRecords
    BY <1>3 DEF ClaimNext, HandlerStep, FetchPool, EnsureHostname, ReleaseHostname, SkipSubnet,
                CallClient, AllocateReturns, ReleaseReturns, EndCall, LoopEnds, WriteAddress,
                DeleteAddress, PatchClaim, Start, Crash, CrashClient, Foreigners, ForeignStep,
                ForeignTake, ForeignFree, CreateClaim, DeleteClaim, OwnerChainBreaks,
                PoolRecovers, PoolDegrades, PoolGoes, SetPool, claimVars, clientVars
  <2> QED BY <1>1, <2>1
<1> QED BY <1>2, <1>3

-----------------------------------------------------------------------------
(* What carries the invariant over a step *)

\* A fixed reconciliation record, in a step that does not write host records.
LEMMA LeakRecNext ==
    ASSUME UNCHANGED <<claims, hostRecords>>, NEW d, d.claim \in Claims,
           claims[d.claim].phase # "released",
           d.step \in {"fetchPool", "hostname"} => d.i = 1,
           ~d.finalizer => Deleting(d) /\ d.step = "patch",
           d.step = "deleteAddress" => Deleting(d),
           Deleting(d) /\ Unrivalled(d.claim) /\ d.claim \notin swallowed' =>
              /\ d.step \in {"loop", "call"} => Freed(d)
              /\ d.step = "deleteAddress" \/ ~d.finalizer => Holds(d.claim) = {}
    PROVE  LeakRec(d)'
<1>1. PICK c \in Claims : c = d.claim
  OBVIOUS
<1>2. Holds(c)' = Holds(c) /\ (Unrivalled(c)' <=> Unrivalled(c))
  BY SameState
<1>3. Freed(d)' <=> Freed(d)
  BY <1>1, <1>2 DEF Freed
<1> QED BY <1>1, <1>2, <1>3 DEF LeakRec, Deleting, Reliable

\* A fixed reconciliation record, in a step of somebody else.
LEMMA LeakRecGo ==
    ASSUME ClaimsGo, HoldsShrink, NEW d, LeakRec(d),
           d.step # "idle" => d.claim \in Claims /\ Known(d.claim),
           \A w \in Workers : rec[w] = d,
           \A c \in Claims : claims'[c].phase = "released" => claims[c].phase = "released",
           swallowed' = swallowed
    PROVE  LeakRec(d)'
<1>1. CASE d.step = "idle"
  BY <1>1 DEF LeakRec
<1>2. CASE d.step # "idle"
  <2>1. PICK c \in Claims : c = d.claim /\ Known(c)
    BY <1>2
  <2>2. Unrivalled(c)' => Unrivalled(c)
    BY <2>1, ServedBefore
  <2>3. Deleting(d) /\ Reliable(c)' => Reliable(c) /\ Holds(c)' \subseteq Holds(c)
    BY <2>1, <2>2 DEF HoldsShrink, Settled, Reliable
  <2>4. /\ Deleting(d) /\ Reliable(c)' /\ Freed(d) => Freed(d)'
        /\ Deleting(d) /\ Reliable(c)' /\ Holds(c) = {} => Holds(c)' = {}
    BY <2>1, <2>3 DEF Freed
  <2> QED BY <1>2, <2>1, <2>3, <2>4 DEF LeakRec, Deleting
<1> QED BY <1>1, <1>2

\* With the one worker's record and call, and all stored claims, the invariant is
\* complete.
LEMMA LeakFrom ==
    ASSUME NEW w \in Workers, NEW d, rec'[w] = d, LeakRec(d)', LeakCall(d, call[w])',
           \A c \in Claims : LeakStored(c)'
    PROVE  LeakInv'
<1>1. Workers = {w} /\ Workers' = {w}
  BY OneWorker DEF Workers
<1>2. LeakRec(rec[w])'
  BY DEF LeakRec, Reliable, Deleting, Freed
<1>3. LeakCall(rec[w], call[w])'
  BY DEF LeakCall
<1> QED BY <1>1, <1>2, <1>3 DEF LeakInv

\* A claim that was released before the step.
LEMMA LeakStoredKept ==
    ASSUME ClaimsGo, HoldsShrink, LeakInv, NEW c \in Claims,
           claims'[c].phase = "released" => claims[c].phase = "released",
           claims[c].phase = "released" /\ c \in swallowed => c \in swallowed'
    PROVE  LeakStored(c)'
<1> SUFFICES ASSUME claims'[c].phase = "released", Reliable(c)'
             PROVE  Holds(c)' = {}
  BY DEF LeakStored
<1>1. claims[c].phase = "released" /\ Known(c)
  BY DEF Known
<1>2. Reliable(c)
  BY <1>1, ServedBefore DEF Reliable
<1>3. Settled(c)
  BY <1>1, <1>2 DEF Settled, Reliable, LeakInv, LeakRec
<1> QED BY <1>1, <1>2, <1>3 DEF HoldsShrink, LeakInv, LeakStored

\* Only the final patch releases a claim.
LEMMA ReleasedBefore ==
    ASSUME ClaimTypeOK, [ClaimNext]_claimVars, \A w \in Workers : ~PatchClaim(w)
    PROVE  \A c \in Claims : claims'[c].phase = "released" => claims[c].phase = "released"
<1>0. claims \in [Claims -> ClaimType]
  BY DEF ClaimTypeOK
<1>1. CASE claims' = claims
  BY <1>1
<1>2. ASSUME NEW c \in Claims, NEW h \in Presets \cup {None}, CreateClaim(c, h)
      PROVE  \A d \in Claims : claims'[d].phase = "released" => claims[d].phase = "released"
  <2>1. claims' = [claims EXCEPT ![c] = [claims[c] EXCEPT !.phase = "live", !.hostname = h]]
    BY <1>2 DEF CreateClaim
  <2>2. [claims[c] EXCEPT !.phase = "live", !.hostname = h].phase = "live"
    BY <1>0 DEF ClaimType
  <2> QED BY <1>0, <2>1, <2>2
<1>3. ASSUME NEW c \in Claims, DeleteClaim(c)
      PROVE  \A d \in Claims : claims'[d].phase = "released" => claims[d].phase = "released"
  <2>1. PICK p \in {"deleting", "vanished"} : claims' = [claims EXCEPT ![c] = [claims[c] EXCEPT !.phase = p]]
    BY <1>3 DEF DeleteClaim
  <2>2. [claims[c] EXCEPT !.phase = p].phase = p
    BY <1>0 DEF ClaimType
  <2> QED BY <1>0, <2>1, <2>2
<1>4. CASE /\ ~\E c \in Claims, h \in Presets \cup {None} : CreateClaim(c, h)
           /\ ~\E c \in Claims : DeleteClaim(c)
  <2>1. claims' = claims
    BY <1>4 DEF ClaimNext, HandlerStep, InfobloxStep, FetchPool, EnsureHostname, ReleaseHostname,
                SkipSubnet, CallClient, AllocateReturns, ReleaseReturns, LoopEnds, WriteAddress,
                DeleteAddress, Start, Crash, Foreigners, OwnerChainBreaks, PoolRecovers,
                PoolDegrades, PoolGoes, SetPool, claimVars, k8sVars
  <2> QED BY <1>1, <2>1
<1> QED BY <1>2, <1>3, <1>4

-----------------------------------------------------------------------------
(* Steps of the reconciliation *)

\* A release call that has succeeded leaves nothing of its subnet.
LEMMA ReturnedIsFree ==
    ASSUME ClientInv, HeldInv, LeakInv, NEW w \in Workers, ReleaseReturns(w), ~call[w].err
    PROVE  LET r == rec[w] IN
           Holds(r.claim) \cap AddrsIn[PoolSubnets[PoolOf[r.claim]][r.i]] = {}
<1> DEFINE k == call[w]
           r == rec[w]
<1>1. k.step = "returned" /\ r.step = "call" /\ Deleting(r)
  BY DEF ReleaseReturns, EndCall
<1>2. /\ k.op = "release"
      /\ k.view = PoolView[PoolOf[r.claim]]
      /\ k.host = HostOf(r.claim)
      /\ k.subnet = PoolSubnets[PoolOf[r.claim]][r.i]
  BY <1>1 DEF HeldInv, CallInv, RecInv, AboutClaim, LeakInv, LeakCall
<1>3. \A u \in Matching(k.view, k.host) : hostRecords[u][k.host] \cap AddrsIn[k.subnet] = {}
  BY <1>1, <1>2 DEF ClientInv, ReleaseContract
<1> QED BY <1>2, <1>3 DEF Holds

\* After the last subnet the claim holds nothing.
LEMMA AllFreed ==
    ASSUME NEW r \in RecType, r.claim \in Claims, Freed(r),
           r.i > Len(PoolSubnets[PoolOf[r.claim]])
    PROVE  Holds(r.claim) = {}
<1> DEFINE subnets == PoolSubnets[PoolOf[r.claim]]
<1>1. Len(subnets) \in Nat /\ r.i \in Nat
  <2>1. subnets \in Seq(Subnets \cup InvalidCIDRs)
    BY ClaimAssumption DEF ClaimAssumption
  <2> QED BY <2>1 DEF RecType
<1> SUFFICES ASSUME NEW a \in Holds(r.claim) PROVE FALSE
  OBVIOUS
<1>2. PICK s \in ValidSubnets(PoolOf[r.claim]) : a \in AddrsIn[s]
  BY DEF Holds, PoolAddrs
<1>3. PICK j \in 1 .. Len(subnets) : s = subnets[j] /\ s \in Subnets
  BY <1>2 DEF ValidSubnets
<1>4. j < r.i
  BY <1>1, <1>3
<1> QED BY <1>2, <1>3, <1>4 DEF Freed

\* One more subnet is free.
LEMMA FreedNext ==
    ASSUME NEW r \in RecType, r.claim \in Claims, Freed(r), NEW d,
           d.claim = r.claim, d.i = r.i + 1,
           LET s == PoolSubnets[PoolOf[r.claim]][r.i] IN
               s \in Subnets => Holds(r.claim) \cap AddrsIn[s] = {}
    PROVE  Freed(d)
<1> DEFINE subnets == PoolSubnets[PoolOf[r.claim]]
<1>1. Len(subnets) \in Nat /\ r.i \in Nat
  <2>1. subnets \in Seq(Subnets \cup InvalidCIDRs)
    BY ClaimAssumption DEF ClaimAssumption
  <2> QED BY <2>1 DEF RecType
<1>2. ASSUME NEW j \in 1 .. Len(subnets), j < d.i, subnets[j] \in Subnets
      PROVE  Holds(r.claim) \cap AddrsIn[subnets[j]] = {}
  <2>1. j < r.i \/ j = r.i
    BY <1>1, <1>2
  <2> QED BY <1>2, <2>1 DEF Freed
<1> QED BY <1>2 DEF Freed

\* The record and the call after a step of the handler, before the final patch.
LEMMA LeakHandler ==
    ASSUME ClientInv, ClaimTypeOK, HeldInv, LeakInv,
           NEW w \in Workers, HandlerStep(w), ~PatchClaim(w)
    PROVE  \E d : /\ rec'[w] = d
                  /\ LeakRec(d)'
                  /\ LeakCall(d, call'[w])
<1> DEFINE r == rec[w]
           k == call[w]
           goal == \E d : rec'[w] = d /\ LeakRec(d)' /\ LeakCall(d, call'[w])
<1>0. r \in RecType /\ r.step # "idle" /\ rec \in [Workers -> RecType]
  BY DEF ClaimTypeOK, HandlerStep, FetchPool, EnsureHostname, ReleaseHostname, InLoop,
         SkipSubnet, CallClient, AllocateReturns, ReleaseReturns, LoopEnds, WriteAddress,
         DeleteAddress
<1>1. r.claim \in Claims /\ LeakRec(r)
  BY <1>0 DEF ClaimTypeOK, RecOK, LeakInv
<1>2. UNCHANGED <<claims, hostRecords>>
  BY DEF HandlerStep, FetchPool, EnsureHostname, ReleaseHostname, SkipSubnet, CallClient,
         AllocateReturns, ReleaseReturns, EndCall, LoopEnds, WriteAddress, DeleteAddress,
         k8sVars, clientVars
<1>3. k.step # "idle" => r.step = "call"
  BY DEF HeldInv, CallInv
<1>4. call \in [Workers -> CallType]
  BY DEF ClaimTypeOK, TypeOK
<1> SUFFICES goal
  OBVIOUS
\* Whatever record the action stores, this is what to show of it.
<1>g. ASSUME NEW d, Rec(w, d), d.claim = r.claim, LeakCall(d, call'[w]),
             d.step \in {"fetchPool", "hostname"} => d.i = 1,
             ~d.finalizer => Deleting(d) /\ d.step = "patch",
             d.step = "deleteAddress" => Deleting(d),
             Deleting(d) /\ Unrivalled(r.claim) /\ r.claim \notin swallowed' =>
                /\ d.step \in {"loop", "call"} => Freed(d)
                /\ d.step = "deleteAddress" \/ ~d.finalizer => Holds(r.claim) = {}
      PROVE  goal
  <2>1. rec'[w] = d
    BY <1>0, <1>g DEF Rec
  <2>2. LeakRec(d)'
    BY <1>0, <1>1, <1>2, <1>g, LeakRecNext DEF LeakRec
  <2> QED BY <1>g, <2>1, <2>2
\* Of most records there is nothing to show.
<1>5. ASSUME NEW d, Rec(w, d), call'[w].step = "idle",
             d.claim = r.claim, d.finalizer,
             d.step \in {"patch", "hostname", "loop", "writeAddress"},
             d.step = "hostname" => d.i = 1,
             d.step = "loop" /\ Deleting(d) /\ Unrivalled(r.claim) /\ r.claim \notin swallowed'
                => Freed(d)
      PROVE  goal
  <2>1. LeakCall(d, call'[w])
    BY <1>5 DEF LeakCall
  <2> HIDE DEF goal
  <2> QED BY <1>5, <2>1, <1>g
<1>6. CASE FetchPool(w)
  <2>1. r.step = "fetchPool" /\ call'[w].step = "idle" /\ r.finalizer /\ r.i = 1
    BY <1>0, <1>1, <1>3, <1>6 DEF FetchPool, clientVars, LeakRec
  <2>2. ASSUME NEW s \in {"patch", "hostname"}, Rec(w, [r EXCEPT !.step = s])
        PROVE  goal
    <3> DEFINE d == [r EXCEPT !.step = s]
    <3>1. d.claim = r.claim /\ d.finalizer = r.finalizer /\ d.step = s /\ d.i = r.i
      BY <1>0 DEF RecType
    <3> HIDE DEF d
    <3> QED BY <1>5, <2>1, <2>2, <3>1 DEF d
  <2>3. ASSUME Rec(w, [r EXCEPT !.step = "patch", !.ready = "PoolNotReady"])
        PROVE  goal
    <3> DEFINE d == [r EXCEPT !.step = "patch", !.ready = "PoolNotReady"]
    <3>1. d.claim = r.claim /\ d.finalizer = r.finalizer /\ d.step = "patch"
      BY <1>0 DEF RecType
    <3> HIDE DEF d
    <3> QED BY <1>5, <2>1, <2>3, <3>1 DEF d
  <2> HIDE DEF goal
  <2> QED BY <1>6, <2>2, <2>3 DEF FetchPool
<1>7. CASE EnsureHostname(w)
  <2> DEFINE h == GetHostname(r)
  <2>1. /\ r.step = "hostname" /\ call'[w].step = "idle" /\ r.finalizer /\ ~Deleting(r)
    BY <1>0, <1>1, <1>3, <1>7 DEF EnsureHostname, clientVars, LeakRec
  <2>2. ASSUME Rec(w, [r EXCEPT !.step = "patch"])
        PROVE  goal
    <3> DEFINE d == [r EXCEPT !.step = "patch"]
    <3>1. d.claim = r.claim /\ d.finalizer = r.finalizer /\ d.step = "patch"
      BY <1>0 DEF RecType
    <3> HIDE DEF d
    <3> QED BY <1>5, <2>1, <2>2, <3>1 DEF d
  <2>3. ASSUME NEW s \in {"loop", "patch"},
               Rec(w, [r EXCEPT !.hostname = h, !.host = h, !.step = s])
        PROVE  goal
    <3> DEFINE d == [r EXCEPT !.hostname = h, !.host = h, !.step = s]
    <3>1. d.claim = r.claim /\ d.finalizer = r.finalizer /\ d.step = s /\ d.phase = r.phase
      BY <1>0 DEF RecType
    <3> HIDE DEF d
    <3> QED BY <1>5, <2>1, <2>3, <3>1 DEF d, Deleting
  <2> HIDE DEF goal
  <2> QED BY <1>7, <2>2, <2>3 DEF EnsureHostname
<1>8. CASE ReleaseHostname(w)
  <2> DEFINE h == GetHostname(r)
  <2>1. /\ r.step = "hostname" /\ call'[w].step = "idle" /\ r.finalizer /\ r.i = 1
    BY <1>0, <1>1, <1>3, <1>8 DEF ReleaseHostname, clientVars, LeakRec
  <2>2. ASSUME Rec(w, [r EXCEPT !.step = "patch"])
        PROVE  goal
    <3> DEFINE d == [r EXCEPT !.step = "patch"]
    <3>1. d.claim = r.claim /\ d.finalizer = r.finalizer /\ d.step = "patch"
      BY <1>0 DEF RecType
    <3> HIDE DEF d
    <3> QED BY <1>5, <2>1, <2>2, <3>1 DEF d
  <2>3. ASSUME NEW s \in {"loop", "patch"}, Rec(w, [r EXCEPT !.host = h, !.step = s])
        PROVE  goal
    <3> DEFINE d == [r EXCEPT !.host = h, !.step = s]
    <3>1. d.claim = r.claim /\ d.finalizer = r.finalizer /\ d.step = s /\ d.i = r.i
      BY <1>0 DEF RecType
    <3> HIDE DEF d
    <3>2. Freed(d)
      BY <2>1, <3>1 DEF Freed
    <3> QED BY <1>5, <2>1, <2>3, <3>1, <3>2 DEF d
  <2> HIDE DEF goal
  <2> QED BY <1>8, <2>2, <2>3 DEF ReleaseHostname
<1>9. CASE SkipSubnet(w)
  <2> DEFINE d == [r EXCEPT !.i = @ + 1]
             s == PoolSubnets[PoolOf[r.claim]][r.i]
  <2>1. /\ r.step = "loop" /\ call'[w].step = "idle" /\ r.finalizer /\ swallowed' = swallowed
        /\ Rec(w, d) /\ s \notin Subnets
    BY <1>0, <1>1, <1>3, <1>9, ClaimAssumption
       DEF SkipSubnet, InLoop, SubnetsOf, Pool, clientVars, LeakRec, ClaimAssumption
  <2>2. /\ d.claim = r.claim /\ d.finalizer = r.finalizer /\ d.step = "loop"
        /\ d.phase = r.phase /\ d.i = r.i + 1
    BY <1>0, <2>1 DEF RecType
  <2> HIDE DEF d
  <2>3. Freed(r) => Freed(d)
    BY <1>0, <1>1, <2>1, <2>2, FreedNext
  <2>4. Deleting(d) /\ Unrivalled(r.claim) /\ r.claim \notin swallowed' => Freed(d)
    BY <1>1, <1>0, <2>1, <2>2, <2>3 DEF LeakRec, Deleting, Reliable
  <2> QED BY <1>5, <2>1, <2>2, <2>4
<1>10. CASE CallClient(w)
  <2> DEFINE d == [r EXCEPT !.step = "call"]
             s == PoolSubnets[PoolOf[r.claim]][r.i]
  <2>1. /\ r.step = "loop" /\ r.finalizer /\ swallowed' = swallowed /\ Rec(w, d)
        /\ \E op, v, h : Begin(w, op, v, h, s)
    BY <1>0, <1>1, <1>10 DEF CallClient, InLoop, SubnetsOf, Pool, LeakRec
  <2>2. /\ d.claim = r.claim /\ d.finalizer = r.finalizer /\ d.step = "call"
        /\ d.phase = r.phase /\ d.i = r.i
    BY <1>0 DEF RecType
  <2>3. call'[w].subnet = s
    BY <1>4, <2>1 DEF Begin, NoCall
  <2> HIDE DEF d
  <2>5. Freed(r) => Freed(d)
    BY <2>2 DEF Freed
  <2>6. Deleting(d) /\ Unrivalled(r.claim) /\ r.claim \notin swallowed' => Freed(d)
    BY <1>0, <1>1, <2>1, <2>2, <2>5 DEF LeakRec, Deleting, Reliable
  <2>7. LeakCall(d, call'[w])
    BY <2>2, <2>3 DEF LeakCall
  <2> HIDE DEF goal
  <2> QED BY <1>g, <2>1, <2>2, <2>6, <2>7
<1>11. CASE AllocateReturns(w)
  <2>1. r.step = "call" /\ call'[w].step = "idle" /\ r.finalizer /\ ~Deleting(r)
    BY <1>0, <1>1, <1>4, <1>11 DEF AllocateReturns, EndCall, NoCall, LeakRec
  <2>2. ASSUME Rec(w, [r EXCEPT !.step = "loop", !.i = @ + 1])
        PROVE  goal
    <3> DEFINE d == [r EXCEPT !.step = "loop", !.i = @ + 1]
    <3>1. d.claim = r.claim /\ d.finalizer = r.finalizer /\ d.step = "loop" /\ d.phase = r.phase
      BY <1>0 DEF RecType
    <3> HIDE DEF d
    <3> QED BY <1>5, <2>1, <2>2, <3>1 DEF d, Deleting
  <2>3. ASSUME Rec(w, [r EXCEPT !.step = "writeAddress", !.addr = k.addr,
                                !.ready = "AddressAllocated"])
        PROVE  goal
    <3> DEFINE d == [r EXCEPT !.step = "writeAddress", !.addr = k.addr,
                              !.ready = "AddressAllocated"]
    <3>1. d.claim = r.claim /\ d.finalizer = r.finalizer /\ d.step = "writeAddress"
      BY <1>0 DEF RecType
    <3> HIDE DEF d
    <3> QED BY <1>5, <2>1, <2>3, <3>1 DEF d
  <2> HIDE DEF goal
  <2> QED BY <1>11, <2>2, <2>3 DEF AllocateReturns
<1>12. CASE ReleaseReturns(w)
  <2> DEFINE d == [r EXCEPT !.step = "loop", !.i = @ + 1]
             s == PoolSubnets[PoolOf[r.claim]][r.i]
  <2>1. /\ r.step = "call" /\ call'[w].step = "idle" /\ r.finalizer /\ Rec(w, d)
        /\ swallowed' = IF k.err THEN swallowed \cup {r.claim} ELSE swallowed
    BY <1>0, <1>1, <1>4, <1>12 DEF ReleaseReturns, EndCall, NoCall, LeakRec
  <2>2. /\ d.claim = r.claim /\ d.finalizer = r.finalizer /\ d.step = "loop"
        /\ d.phase = r.phase /\ d.i = r.i + 1
    BY <1>0 DEF RecType
  <2> HIDE DEF d
  <2>3. ~k.err => Holds(r.claim) \cap AddrsIn[s] = {}
    BY <1>12, ReturnedIsFree
  <2>4. ~k.err /\ Freed(r) => Freed(d)
    BY <1>0, <1>1, <2>2, <2>3, FreedNext
  <2>5. Deleting(d) /\ Unrivalled(r.claim) /\ r.claim \notin swallowed' => Freed(d)
    BY <1>0, <1>1, <2>1, <2>2, <2>4 DEF LeakRec, Deleting, Reliable
  <2> QED BY <1>5, <2>1, <2>2, <2>5
<1>13. CASE LoopEnds(w)
  <2>1. /\ r.step = "loop" /\ call'[w].step = "idle" /\ r.finalizer /\ swallowed' = swallowed
        /\ r.i > Len(PoolSubnets[PoolOf[r.claim]])
    BY <1>0, <1>1, <1>3, <1>13 DEF LoopEnds, SubnetsOf, Pool, clientVars, LeakRec
  <2>2. ASSUME Rec(w, [r EXCEPT !.step = "patch", !.ready = "AllocationFailed"])
        PROVE  goal
    <3> DEFINE d == [r EXCEPT !.step = "patch", !.ready = "AllocationFailed"]
    <3>1. d.claim = r.claim /\ d.finalizer = r.finalizer /\ d.step = "patch"
      BY <1>0 DEF RecType
    <3> HIDE DEF d
    <3> QED BY <1>5, <2>1, <2>2, <3>1 DEF d
  <2>3. ASSUME Deleting(r), Rec(w, [r EXCEPT !.step = "deleteAddress"])
        PROVE  goal
    <3> DEFINE d == [r EXCEPT !.step = "deleteAddress"]
    <3>1. /\ d.claim = r.claim /\ d.finalizer = r.finalizer /\ d.step = "deleteAddress"
          /\ d.phase = r.phase
      BY <1>0 DEF RecType
    <3> HIDE DEF d
    <3>2. Freed(r) => Holds(r.claim) = {}
      BY <1>0, <1>1, <2>1, AllFreed
    <3>3. Unrivalled(r.claim) /\ r.claim \notin swallowed' => Holds(r.claim) = {}
      BY <1>0, <1>1, <2>1, <2>3, <3>2 DEF LeakRec, Reliable
    <3>4. LeakCall(d, call'[w])
      BY <2>1 DEF LeakCall
    <3> HIDE DEF goal
    <3> QED BY <1>g, <2>1, <2>3, <3>1, <3>3, <3>4 DEF d, Deleting
  <2> HIDE DEF goal
  <2> QED BY <1>13, <2>2, <2>3 DEF LoopEnds
<1>14. CASE WriteAddress(w)
  <2> DEFINE d == [r EXCEPT !.step = "patch"]
  <2>1. call'[w].step = "idle" /\ r.finalizer /\ Rec(w, d)
    BY <1>0, <1>1, <1>3, <1>14 DEF WriteAddress, clientVars, LeakRec
  <2>2. d.claim = r.claim /\ d.finalizer = r.finalizer /\ d.step = "patch"
    BY <1>0 DEF RecType
  <2> HIDE DEF d
  <2> QED BY <1>5, <2>1, <2>2
<1>15. CASE DeleteAddress(w)
  <2>1. /\ r.step = "deleteAddress" /\ call'[w].step = "idle" /\ r.finalizer
        /\ Deleting(r) /\ swallowed' = swallowed
    BY <1>0, <1>1, <1>3, <1>15 DEF DeleteAddress, clientVars, LeakRec
  <2>2. ASSUME Rec(w, [r EXCEPT !.step = "patch"])
        PROVE  goal
    <3> DEFINE d == [r EXCEPT !.step = "patch"]
    <3>1. d.claim = r.claim /\ d.finalizer = r.finalizer /\ d.step = "patch"
      BY <1>0 DEF RecType
    <3> HIDE DEF d
    <3> QED BY <1>5, <2>1, <2>2, <3>1 DEF d
  <2>3. ASSUME Rec(w, [r EXCEPT !.step = "patch", !.finalizer = FALSE])
        PROVE  goal
    <3> DEFINE d == [r EXCEPT !.step = "patch", !.finalizer = FALSE]
    <3>1. d.claim = r.claim /\ d.step = "patch" /\ d.phase = r.phase
      BY <1>0 DEF RecType
    <3> HIDE DEF d
    <3>2. Unrivalled(r.claim) /\ r.claim \notin swallowed' => Holds(r.claim) = {}
      BY <1>0, <1>1, <2>1 DEF LeakRec, Reliable
    <3>3. LeakCall(d, call'[w])
      BY <2>1 DEF LeakCall
    <3> HIDE DEF goal
    <3> QED BY <1>g, <2>1, <2>3, <3>1, <3>2, <3>3 DEF d, Deleting
  <2> HIDE DEF goal
  <2> QED BY <1>15, <2>2, <2>3 DEF DeleteAddress
<1> QED BY <1>6, <1>7, <1>8, <1>9, <1>10, <1>11, <1>12, <1>13, <1>14, <1>15 DEF HandlerStep

\* The final patch releases a claim of a reliable loop only if it holds nothing.
LEMMA LeakPatch ==
    ASSUME ClaimTypeOK, HeldInv, LeakInv, ClaimsGo, HoldsShrink,
           NEW w \in Workers, PatchClaim(w)
    PROVE  LeakInv'
<1> DEFINE r == rec[w]
<1>0. /\ rec \in [Workers -> RecType] /\ r.step = "patch" /\ r.claim \in Claims
      /\ claims \in [Claims -> ClaimType]
  BY DEF ClaimTypeOK, PatchClaim, RecOK
<1>1. LeakRec(r) /\ AboutClaim(r)
  BY <1>0 DEF LeakInv, HeldInv, RecInv
<1>2. rec'[w] = NoRec /\ NoRec.step = "idle" /\ UNCHANGED <<call, swallowed>>
  BY <1>0 DEF PatchClaim, Rec, clientVars, NoRec
<1>3. call[w].step = "idle"
  BY <1>0 DEF HeldInv, CallInv
<1>4. LeakRec(NoRec)' /\ LeakCall(NoRec, call[w])'
  BY <1>2, <1>3 DEF LeakRec, LeakCall
<1>5. ASSUME NEW c \in Claims, claims'[c].phase = "released", claims[c].phase # "released"
      PROVE  c = r.claim /\ ~r.finalizer
  <2>1. PICK m \in BOOLEAN, k \in BOOLEAN :
            claims' = [claims EXCEPT ![r.claim] = Patched(r, m, k)]
    BY <1>5 DEF PatchClaim
  <2>2. c = r.claim /\ Patched(r, m, k).phase = "released"
    BY <1>0, <1>5, <2>1
  <2> QED BY <1>5, <2>2 DEF Patched
<1>6. ASSUME NEW c \in Claims
      PROVE  LeakStored(c)'
  <2>1. CASE claims'[c].phase = "released" => claims[c].phase = "released"
    BY <1>2, <2>1, LeakStoredKept
  <2>2. CASE claims'[c].phase = "released" /\ claims[c].phase # "released"
    <3>1. c = r.claim /\ ~r.finalizer
      BY <1>5, <2>2
    <3>2. Known(c) /\ Deleting(r)
      BY <1>0, <1>1, <3>1 DEF AboutClaim, LeakRec
    <3>3. Reliable(c)' => Reliable(c)
      BY <1>2, <3>2, ServedBefore DEF Reliable
    <3>4. Reliable(c) => Settled(c) /\ Holds(c) = {}
      BY <1>0, <1>1, <3>1, <3>2, OneWorker DEF LeakRec, Settled, Reliable
    <3> QED BY <3>3, <3>4 DEF HoldsShrink, LeakStored
  <2> QED BY <2>1, <2>2
<1> QED BY <1>2, <1>4, <1>6, LeakFrom

\* The steps that leave the reconciliation alone, or only its call go on.
LEMMA LeakElsewhere ==
    ASSUME ClaimTypeOK, HeldInv, LeakInv, ClaimsGo, HoldsShrink, UNCHANGED <<rec, swallowed>>,
           NEW w \in Workers,
           call' = call \/ (call[w].step # "idle" /\ SameArgs(w)),
           \A c \in Claims : claims'[c].phase = "released" => claims[c].phase = "released"
    PROVE  LeakInv'
<1>1. PICK d \in RecType : d = rec[w]
  BY DEF ClaimTypeOK
<1>2. /\ LeakRec(d) /\ LeakCall(d, call[w])
      /\ d.step # "idle" => d.claim \in Claims /\ Known(d.claim)
  BY <1>1 DEF HeldInv, LeakInv, RecInv, AboutClaim, ClaimTypeOK, RecOK
<1>3. \A v \in Workers : rec[v] = d
  BY <1>1, OneWorker
<1>4. LeakRec(d)'
  BY <1>2, <1>3, LeakRecGo
<1>5. LeakCall(d, call[w])'
  BY <1>2 DEF LeakCall, SameArgs
<1>6. \A c \in Claims : LeakStored(c)'
  BY LeakStoredKept
<1> QED BY <1>1, <1>4, <1>5, <1>6, LeakFrom

\* One step keeps the invariant.
LEMMA LeakStep ==
    ASSUME ClientInv, ClaimTypeOK, HeldInv, LeakInv, [ClaimNext]_claimVars
    PROVE  LeakInv'
<1>0. ClaimsGo /\ HoldsShrink
  BY StepsGo, StepsShrink
<1>t. /\ rec \in [Workers -> RecType] /\ call \in [Workers -> CallType]
      /\ TypeOK
  BY DEF ClaimTypeOK, TypeOK
<1>1. ASSUME NEW w \in Workers, PatchClaim(w)
      PROVE  LeakInv'
  BY <1>0, <1>1, LeakPatch
<1>2. SUFFICES ASSUME \A w \in Workers : ~PatchClaim(w)
               PROVE  LeakInv'
  BY <1>1
<1>3. \A c \in Claims : claims'[c].phase = "released" => claims[c].phase = "released"
  BY <1>2, ReleasedBefore
<1>4. ASSUME swallowed' = swallowed, NEW c \in Claims
      PROVE  LeakStored(c)'
  BY <1>0, <1>3, <1>4, LeakStoredKept
<1>5. ASSUME NEW w \in Workers, HandlerStep(w)
      PROVE  LeakInv'
  <2>1. PICK d : rec'[w] = d /\ LeakRec(d)' /\ LeakCall(d, call'[w])
    BY <1>2, <1>5, LeakHandler
  <2>2. LeakCall(d, call[w])'
    BY <2>1 DEF LeakCall
  <2>3. \/ swallowed' = swallowed
        \/ rec[w].step # "idle" /\ \A c \in swallowed : c # rec[w].claim => c \in swallowed'
    BY <1>2, <1>5 DEF HandlerStep, FetchPool, EnsureHostname, ReleaseHostname, SkipSubnet,
         CallClient, AllocateReturns, ReleaseReturns, LoopEnds, WriteAddress, DeleteAddress
  <2>4. ASSUME NEW c \in Claims, claims[c].phase = "released", c \in swallowed
        PROVE  c \in swallowed'
    BY <2>3, <2>4 DEF LeakInv, LeakRec
  <2>5. \A c \in Claims : LeakStored(c)'
    BY <1>0, <1>3, <2>4, LeakStoredKept
  <2> QED BY <2>1, <2>2, <2>5, LeakFrom
<1>6. ASSUME NEW w \in Workers, InfobloxStep(w)
      PROVE  LeakInv'
  <2>1. UNCHANGED <<rec, swallowed>> /\ WapiStep(w)
    BY <1>6 DEF InfobloxStep
  <2>2. call[w].step # "idle" /\ SameArgs(w)
    BY <1>t, <2>1, WapiArgs
  <2> QED BY <1>0, <1>3, <2>1, <2>2, LeakElsewhere
<1>7. ASSUME NEW w \in Workers, NEW c \in Claims, Start(w, c)
      PROVE  LeakInv'
  <2> DEFINE d == [NoRec EXCEPT !.step = "fetchPool", !.claim = c,
                                !.phase = claims[c].phase,
                                !.finalizer = TRUE,
                                !.hostname = claims[c].hostname,
                                !.ready = claims[c].ready]
  <2>1. UNCHANGED <<claims, hostRecords, call, swallowed>> /\ rec[w].step = "idle"
    BY <1>7 DEF Start, clientVars, k8sVars
  <2>2. rec'[w] = d /\ claims[c].phase # "released"
    BY <1>t, <1>7 DEF Start, Rec
  <2>3. d.step = "fetchPool" /\ d.claim = c /\ d.finalizer = TRUE /\ d.i = 1
    BY DEF NoRec
  <2>4. PICK e : e = d
    OBVIOUS
  <2> HIDE DEF d
  <2>5. LeakRec(e)'
    BY <2>1, <2>2, <2>3, <2>4, LeakRecNext
  <2>6. call[w].step = "idle"
    BY <2>1 DEF HeldInv, CallInv
  <2>7. LeakCall(e, call[w])'
    BY <2>1, <2>6 DEF LeakCall
  <2> QED BY <1>4, <2>1, <2>2, <2>4, <2>5, <2>7, LeakFrom
<1>8. CASE Crash
  <2>1. PICK w \in Workers : TRUE
    BY OneWorker
  <2>2. swallowed' = swallowed /\ rec'[w] = NoRec /\ call'[w] = NoCall
    BY <1>8, <2>1 DEF Crash, CrashClient
  <2>3. LeakRec(NoRec)' /\ LeakCall(NoRec, call[w])'
    BY <2>2 DEF LeakRec, LeakCall, NoRec, NoCall
  <2> QED BY <1>4, <2>1, <2>2, <2>3, LeakFrom
<1>9. CASE \/ Foreigners
           \/ \E c \in Claims : \/ \E h \in Presets \cup {None} : CreateClaim(c, h)
                               \/ DeleteClaim(c)
                               \/ OwnerChainBreaks(c)
           \/ \E p \in Pools : PoolRecovers(p) \/ PoolDegrades(p) \/ PoolGoes(p)
           \/ UNCHANGED claimVars
  <2>1. UNCHANGED <<rec, call, swallowed>>
    BY <1>9 DEF Foreigners, ForeignStep, ForeignTake, ForeignFree, CreateClaim, DeleteClaim,
                OwnerChainBreaks, PoolRecovers, PoolDegrades, PoolGoes, SetPool, claimVars,
                clientVars, k8sVars
  <2> QED BY <1>0, <1>3, <2>1, OneWorker, LeakElsewhere
<1> QED BY <1>5, <1>6, <1>7, <1>8, <1>9 DEF ClaimNext

\* The invariant holds initially: nothing runs and nothing was released.
LEMMA LeakInit == ClaimInit => LeakInv
<1> SUFFICES ASSUME ClaimInit PROVE LeakInv
  OBVIOUS
<1>1. ASSUME NEW w \in Workers
      PROVE  LeakRec(rec[w]) /\ LeakCall(rec[w], call[w])
  BY <1>1 DEF ClaimInit, ClientInit, LeakRec, LeakCall, NoRec, NoCall
<1>2. ASSUME NEW c \in Claims
      PROVE  LeakStored(c)
  BY <1>2 DEF ClaimInit, LeakStored
<1> QED BY <1>1, <1>2 DEF LeakInv

\* ReleaseAddress leaves no address behind when a claim goes away, unless it
\* dropped an error: for any number of subnets, claims, crashes and lost answers.
THEOREM NothingLeaks == ClaimSpec => []NoLeakWithoutError
<1>1. LeakInv => NoLeakWithoutError
  BY DEF LeakInv, LeakStored, Reliable, Unrivalled, Alone, NoLeakWithoutError
<1>2. ClientInv /\ HeldInv /\ ClaimTypeOK /\ LeakInv /\ [ClaimNext]_claimVars => LeakInv'
  BY LeakStep
<1> QED BY <1>1, <1>2, LeakInit, HeldInvariantHolds, ClaimTypeCorrect, PTL DEF ClaimSpec
=============================================================================
