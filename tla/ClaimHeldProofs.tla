--------------------------- MODULE ClaimHeldProofs ---------------------------
(***************************************************************************)
(* Proofs about what live claims hold: as long as no other claim competes  *)
(* for the same addresses of the same host record, a claim keeps the       *)
(* address it was given, and Ready means that it has one.                  *)
(***************************************************************************)
EXTENDS ClaimReconcilerProofs

-----------------------------------------------------------------------------
(* The inductive invariant *)

\* A claim that exists or existed: names of claims are not used again.
Known(c) == claims[c].phase # "absent"

\* No claim that exists or existed competes with c.  Unlike Alone, which is also
\* about claims to come, this can only get false during the life of c.
Unrivalled(c) == \A d \in Claims \ {c} : Known(d) => ~Rivals(c, d)

Served(c) == claims[c].phase = "live" /\ Unrivalled(c)

\* What a reconciliation knows about its claim.
AboutClaim(r) ==
    /\ Known(r.claim)
    /\ claims[r.claim].hostname # None => r.hostname = claims[r.claim].hostname
    /\ r.hostname # None => r.hostname = HostOf(r.claim)
    /\ r.step \in {"loop", "call"} => r.host = HostOf(r.claim)
    /\ Deleting(r) => claims[r.claim].phase # "live"

\* What it found for the claim is there.
FoundForClaim(r) ==
    Served(r.claim) =>
        /\ r.step = "writeAddress" => r.addr \in Holds(r.claim)
        /\ r.ready = "AddressAllocated" => Holds(r.claim) # {}

RecInv(r) == r.step # "idle" => AboutClaim(r) /\ FoundForClaim(r)

\* A call under way is one of the reconciliation, for its claim.
CallInv(r, k) ==
    k.step # "idle" =>
        /\ r.step = "call"
        /\ k.op = IF Deleting(r) THEN "release" ELSE "allocate"
        /\ k.view = PoolView[PoolOf[r.claim]]
        /\ k.host = r.host
        /\ k.subnet \in ValidSubnets(PoolOf[r.claim])

\* What is stored about a claim is backed by Infoblox.
StoredInv(c) ==
    /\ ~Known(c) => ipAddress[c] = None /\ claims[c].ready = "Unset"
    /\ Served(c) => /\ ipAddress[c] # None => ipAddress[c] \in Holds(c)
                    /\ claims[c].ready = "AddressAllocated" => Holds(c) # {}

HeldInv ==
    /\ \A w \in Workers : RecInv(rec[w]) /\ CallInv(rec[w], call[w])
    /\ \A c \in Claims : StoredInv(c)

-----------------------------------------------------------------------------
(* What depends on the stored claims and on Infoblox only *)

\* A claim keeps what its host record holds if nobody writes records.
LEMMA HoldsSame ==
    ASSUME NEW c \in Claims, HostOf(c)' = HostOf(c), hostRecords' = hostRecords
    PROVE  Holds(c)' = Holds(c)
BY DEF Holds, Matching, PoolAddrs, ValidSubnets

\* Claims are rivals because of their host names and of constants.
LEMMA RivalsSame ==
    ASSUME NEW c \in Claims, NEW d \in Claims, HostOf(c)' = HostOf(c), HostOf(d)' = HostOf(d)
    PROVE  Rivals(c, d)' <=> Rivals(c, d)
BY DEF Rivals, ValidSubnets

\* If neither claims nor records change, what is said about them stays true.
LEMMA SameState ==
    ASSUME UNCHANGED <<claims, hostRecords>>, NEW c \in Claims
    PROVE  /\ Holds(c)' = Holds(c)
           /\ HostOf(c)' = HostOf(c)
           /\ Known(c)' <=> Known(c)
           /\ Unrivalled(c)' <=> Unrivalled(c)
           /\ Served(c)' <=> Served(c)
<1>1. \A d \in Claims : HostOf(d)' = HostOf(d) /\ (Known(d)' <=> Known(d))
  BY DEF HostOf, Known
<1>2. Holds(c)' = Holds(c)
  BY <1>1, HoldsSame
<1>3. \A d \in Claims : Rivals(c, d)' <=> Rivals(c, d)
  BY <1>1, RivalsSame
<1>4. Unrivalled(c)' <=> Unrivalled(c)
  BY <1>1, <1>3 DEF Unrivalled
<1> QED BY <1>1, <1>2, <1>4 DEF Served

\* How the claims may change in a step.
ClaimsGo ==
    \A c \in Claims : Known(c) =>
        /\ Known(c)'
        /\ HostOf(c)' = HostOf(c)
        /\ claims'[c].phase = "live" => claims[c].phase = "live"

\* Then a claim that is served afterwards was served before.
LEMMA ServedBefore ==
    ASSUME ClaimsGo, NEW c \in Claims, Known(c)
    PROVE  /\ Unrivalled(c)' => Unrivalled(c)
           /\ Served(c)' => Served(c)
<1>1. ASSUME NEW d \in Claims, Known(d)
      PROVE  Known(d)' /\ (Rivals(c, d)' <=> Rivals(c, d))
  <2>1. Known(d)' /\ HostOf(d)' = HostOf(d) /\ HostOf(c)' = HostOf(c)
    BY <1>1 DEF ClaimsGo
  <2> QED BY <2>1, RivalsSame
<1>2. Unrivalled(c)' => Unrivalled(c)
  BY <1>1 DEF Unrivalled
<1> QED BY <1>2 DEF Served, ClaimsGo

\* What a step may not do to those who are served.
HoldsGrow == \A c \in Claims : Served(c) => Holds(c) \subseteq Holds(c)'

\* What is stored about a claim stays backed if it is not rewritten.
LEMMA StoredKept ==
    ASSUME ClaimsGo, HoldsGrow, NEW c \in Claims, StoredInv(c),
           ipAddress'[c] \in {ipAddress[c], None}, claims'[c].ready = claims[c].ready
    PROVE  StoredInv(c)'
<1>1. CASE Known(c)
  <2>1. Known(c)' /\ (Served(c)' => Served(c))
    BY <1>1, ServedBefore DEF ClaimsGo
  <2>2. Served(c) => Holds(c) \subseteq Holds(c)'
    BY DEF HoldsGrow
  <2> QED BY <2>1, <2>2 DEF StoredInv
<1>2. CASE ~Known(c)
  BY <1>2 DEF StoredInv
<1> QED BY <1>1, <1>2

-----------------------------------------------------------------------------
(* Steps that write host records *)

\* A request takes nothing from any record, unless it releases an address of the
\* subnet it was asked to, from a record that it was asked for.
LEMMA WapiEffect ==
    ASSUME ClientInv, NEW w \in Workers, WapiStep(w), NEW v \in NetworkViews, NEW h \in Hosts
    PROVE  \A a \in hostRecords[v][h] :
              \/ a \in hostRecords'[v][h]
              \/ /\ call[w].op = "release"
                 /\ h = call[w].host
                 /\ v \in Matching(call[w].view, h)
                 /\ a \in AddrsIn[call[w].subnet]
<1> DEFINE k == call[w]
<1>0. TypeOK /\ SnapshotFresh /\ k \in CallType
  BY DEF ClientInv, TypeOK
<1>1. CASE hostRecords' = hostRecords
  BY <1>1
<1>2. CASE RequestFails(w) \/ Rejected(w) \/ Lookup(w) \/ Refetch(w)
  <2>1. hostRecords' = hostRecords
    BY <1>0, <1>2, FailureFacts DEF Lookup, Refetch, RequestFails, Rejected
  <2> QED BY <1>1, <2>1
<1>3. (k.host \in Hosts /\ k.subnet \in Subnets) \/ k.step # "write"
  BY <1>0 DEF TypeOK, ArgsOK
<1>4. CASE k.step = "write" /\ CreateObject(w)
  <2>1. PICK a \in NextAvailable(k.view, k.subnet) :
            Store(w, ViewOf(k.view), k.host, {a}, [k EXCEPT !.step = "refetch", !.ref = ViewOf(k.view)])
    BY <1>4 DEF CreateObject
  <2>2. hostRecords' = [hostRecords EXCEPT ![ViewOf(k.view)][k.host] = {a}]
    BY <2>1 DEF Store
  <2>3. hostRecords[ViewOf(k.view)][k.host] = {}
    BY <1>4 DEF CreateObject
  <2> QED BY <1>0, <2>2, <2>3 DEF TypeOK
<1>5. CASE k.step = "write" /\ k.op = "allocate" /\ UpdateObject(w)
  <2>1. PICK a : hostRecords' = [hostRecords EXCEPT ![k.ref][k.host] = k.hr \cup {a}]
    BY <1>5 DEF UpdateObject, Store
  <2>2. k.ref # None /\ k.hr = hostRecords[k.ref][k.host]
    BY <1>0, <1>5 DEF UpdateObject, SnapshotFresh
  <2> QED BY <1>0, <2>1, <2>2 DEF TypeOK
<1>6. CASE k.step = "write" /\ k.op = "release" /\ WriteRelease(w) /\ ~RequestFails(w) /\ ~Rejected(w)
  <2>1. hostRecords' = [hostRecords EXCEPT ![k.ref][k.host] = k.hr]
    BY <1>6 DEF WriteRelease, Store
  <2>2. k.ref # None
    BY <1>0, <1>6, ClientAssumption DEF TypeOK, ArgsOK, ClientAssumption
  <2>3. /\ Matching(k.view, k.host) = {k.ref}
        /\ \E a \in FoundAddr(w, hostRecords[k.ref][k.host]) : k.hr = hostRecords[k.ref][k.host] \ {a}
    BY <1>0, <1>6, <2>2 DEF SnapshotFresh
  <2>4. PICK a \in AddrsIn[k.subnet] : k.hr = hostRecords[k.ref][k.host] \ {a}
    BY <2>3 DEF FoundAddr
  <2>5. CASE v = k.ref /\ h = k.host
    <3>1. hostRecords'[v][h] = hostRecords[v][h] \ {a}
      BY <1>0, <2>1, <2>4, <2>5 DEF TypeOK
    <3> QED BY <1>6, <2>3, <2>5, <3>1
  <2>6. CASE v # k.ref \/ h # k.host
    <3>1. hostRecords'[v][h] = hostRecords[v][h]
      BY <1>0, <2>1, <2>6 DEF TypeOK
    <3> QED BY <3>1
  <2> QED BY <2>5, <2>6
<1> QED BY <1>2, <1>4, <1>5, <1>6 DEF WapiStep, WriteHostRecord, WriteRelease

\* A request made for one claim takes nothing from a served one: not from
\* another, since they would be rivals, and not from its own, which is deleted if
\* addresses are released for it.
LEMMA WapiKeepsHolds ==
    ASSUME ClientInv, ClaimTypeOK, HeldInv, NEW w \in Workers, InfobloxStep(w)
    PROVE  HoldsGrow
<1> DEFINE k == call[w]
           d == rec[w].claim
<1> SUFFICES ASSUME NEW c \in Claims, Served(c), NEW a \in Holds(c), a \notin Holds(c)'
             PROVE  FALSE
  BY DEF HoldsGrow
<1> DEFINE h == HostOf(c)
           view(e) == PoolView[PoolOf[e]]
<1>1. WapiStep(w) /\ UNCHANGED claims /\ h' = h
  BY DEF InfobloxStep, k8sVars, HostOf
<1>2. h \in Hosts
  BY ClaimAssumption DEF ClaimTypeOK, ClaimType, HostOf, ClaimAssumption
<1>3. a \in PoolAddrs(PoolOf[c]) /\ PoolAddrs(PoolOf[c])' = PoolAddrs(PoolOf[c])
  BY DEF Holds, PoolAddrs, ValidSubnets
<1>4. PICK v \in Matching(view(c), h) : a \in hostRecords[v][h]
  BY DEF Holds
<1>5. v \in NetworkViews /\ (view(c) = None \/ view(c) = v)
  BY <1>4 DEF Matching
<1>6. a \notin hostRecords'[v][h]
  <2>1. SUFFICES ASSUME a \in hostRecords'[v][h] PROVE FALSE
    OBVIOUS
  <2>2. v \in Matching(view(c), h)'
    BY <1>1, <1>5, <2>1 DEF Matching
  <2> QED BY <1>1, <1>3, <2>1, <2>2 DEF Holds
<1>7. /\ k.op = "release"
      /\ h = k.host
      /\ v \in Matching(k.view, h)
      /\ a \in AddrsIn[k.subnet]
  BY <1>1, <1>2, <1>4, <1>5, <1>6, WapiEffect
<1>8. k.step # "idle"
  BY <1>1, ClientAssumption DEF WapiStep, Lookup, WriteHostRecord, Refetch, WriteRelease
<1>9. /\ rec[w].step = "call" /\ Deleting(rec[w])
      /\ k.view = view(d) /\ k.host = rec[w].host
      /\ k.subnet \in ValidSubnets(PoolOf[d])
  BY <1>7, <1>8 DEF HeldInv, CallInv
<1>10. AboutClaim(rec[w]) /\ d \in Claims
  BY <1>9 DEF HeldInv, RecInv, ClaimTypeOK, RecOK
<1>11. Known(d) /\ k.host = HostOf(d) /\ claims[d].phase # "live"
  BY <1>9, <1>10 DEF AboutClaim
<1>12. d # c
  BY <1>11 DEF Served
<1>13. PICK s \in ValidSubnets(PoolOf[c]) : a \in AddrsIn[s]
  BY <1>3 DEF PoolAddrs
<1>14. s = k.subnet
  BY <1>7, <1>9, <1>13, SubnetsDisjoint DEF ValidSubnets, SubnetsDisjoint
<1>15. view(d) = None \/ view(d) = v
  BY <1>7, <1>9 DEF Matching
<1>16. Rivals(c, d)
  BY <1>5, <1>7, <1>9, <1>11, <1>13, <1>14, <1>15 DEF Rivals
<1> QED BY <1>10, <1>11, <1>12, <1>16 DEF Served, Unrivalled

-----------------------------------------------------------------------------
(* Steps that change claims *)

\* Where the claims and the records stay, nobody's state changes.
LEMMA NothingChanges ==
    ASSUME UNCHANGED <<claims, hostRecords>>
    PROVE  ClaimsGo /\ HoldsGrow
<1>1. \A c \in Claims : Holds(c)' = Holds(c) /\ HostOf(c)' = HostOf(c) /\ (Known(c)' <=> Known(c))
  BY SameState
<1> QED BY <1>1 DEF ClaimsGo, HoldsGrow

\* Where the records stay, a step that lets the claims go on takes nothing.
LEMMA RecordsStay ==
    ASSUME ClaimsGo, hostRecords' = hostRecords
    PROVE  HoldsGrow
<1>1. \A c \in Claims : Known(c) => Holds(c)' = Holds(c)
  BY HoldsSame DEF ClaimsGo
<1> QED BY <1>1 DEF HoldsGrow, Served, Known

\* The final patch stores the host name that the claim has anyway.
LEMMA PatchGo ==
    ASSUME ClaimTypeOK, HeldInv, NEW w \in Workers, PatchClaim(w)
    PROVE  /\ ClaimsGo
           /\ \A c \in Claims : \/ claims'[c].ready = claims[c].ready
                                \/ c = rec[w].claim /\ claims'[c].ready = rec[w].ready
<1> DEFINE r == rec[w]
<1>0. r \in RecType /\ r.claim \in Claims /\ AboutClaim(r)
  BY DEF PatchClaim, HeldInv, RecInv, ClaimTypeOK, RecOK
<1>p. PICK d \in Claims : d = r.claim
  BY <1>0
<1>1. r \in RecType /\ d = r.claim /\ AboutClaim(r)
  BY <1>0, <1>p
<1>2. CASE claims' = claims
  <2>1. \A c \in Claims : HostOf(c)' = HostOf(c) /\ (Known(c)' <=> Known(c))
    BY <1>2 DEF HostOf, Known
  <2> QED BY <1>2, <2>1 DEF ClaimsGo
<1>3. ASSUME NEW m \in BOOLEAN, NEW k \in BOOLEAN,
             claims' = [claims EXCEPT ![d] = Patched(r, m, k)]
      PROVE  /\ ClaimsGo
             /\ \A c \in Claims : \/ claims'[c].ready = claims[c].ready
                                  \/ c = d /\ claims'[c].ready = r.ready
  <2>1. /\ claims'[d] = Patched(r, m, k)
        /\ \A c \in Claims \ {d} : claims'[c] = claims[c]
    BY <1>1, <1>3 DEF ClaimTypeOK
  <2>2. /\ Patched(r, m, k).phase \in {claims[d].phase, "released"}
        /\ Patched(r, m, k).hostname \in {r.hostname, claims[d].hostname}
        /\ Patched(r, m, k).ready \in {r.ready, claims[d].ready}
    BY <1>1 DEF Patched
  <2>3. HostOf(d)' = HostOf(d)
    <3>1. claims'[d].hostname \in {r.hostname, claims[d].hostname}
      BY <2>1, <2>2
    <3>2. CASE claims[d].hostname # None
      <4>1. claims'[d].hostname = claims[d].hostname
        BY <1>1, <3>1, <3>2 DEF AboutClaim
      <4> QED BY <4>1 DEF HostOf
    <3>3. CASE claims[d].hostname = None /\ claims'[d].hostname = None
      BY <3>3 DEF HostOf
    <3>4. CASE claims[d].hostname = None /\ claims'[d].hostname # None
      <4>1. claims'[d].hostname = HostOf(d)
        BY <1>1, <3>1, <3>4 DEF AboutClaim
      <4>2. HostOf(d)' = claims'[d].hostname
        BY <3>4 DEF HostOf
      <4> QED BY <4>1, <4>2
    <3> QED BY <3>2, <3>3, <3>4
  <2>4. \A c \in Claims : HostOf(c)' = HostOf(c)
    BY <2>1, <2>3 DEF HostOf
  <2>5. \A c \in Claims : claims'[c].phase \in {claims[c].phase, "released"}
    BY <2>1, <2>2
  <2>6. \A c \in Claims : \/ claims'[c].ready = claims[c].ready
                          \/ c = d /\ claims'[c].ready = r.ready
    BY <2>1, <2>2
  <2> QED BY <2>4, <2>5, <2>6 DEF ClaimsGo, Known
<1> QED BY <1>1, <1>2, <1>3 DEF PatchClaim

\* Users create claims that were not there, and delete live ones.
LEMMA UsersGo ==
    ASSUME ClaimTypeOK, NEW c \in Claims,
           (\E h \in Presets \cup {None} : CreateClaim(c, h)) \/ DeleteClaim(c)
    PROVE  /\ ClaimsGo
           /\ \A d \in Claims : claims'[d].ready = claims[d].ready
           /\ \A d \in Claims : Known(d) => claims'[d].hostname = claims[d].hostname
<1>0. claims[c] \in ClaimType /\ claims \in [Claims -> ClaimType]
  BY DEF ClaimTypeOK
<1>1. ASSUME NEW h \in Presets \cup {None}, CreateClaim(c, h)
      PROVE  /\ ClaimsGo
             /\ \A d \in Claims : claims'[d].ready = claims[d].ready
             /\ \A d \in Claims : Known(d) => claims'[d].hostname = claims[d].hostname
  <2> DEFINE new == [claims[c] EXCEPT !.phase = "live", !.hostname = h]
  <2>1. claims' = [claims EXCEPT ![c] = new] /\ ~Known(c)
    BY <1>1 DEF CreateClaim, Known
  <2>2. new.ready = claims[c].ready
    BY <1>0 DEF ClaimType
  <2> HIDE DEF new
  <2>3. claims'[c].ready = claims[c].ready /\ \A d \in Claims \ {c} : claims'[d] = claims[d]
    BY <1>0, <2>1, <2>2
  <2>4. \A d \in Claims : Known(d) => claims'[d] = claims[d] /\ HostOf(d)' = HostOf(d)
    BY <2>1, <2>3 DEF HostOf
  <2> QED BY <2>3, <2>4 DEF ClaimsGo, Known
<1>2. CASE DeleteClaim(c)
  <2>1. PICK p \in {"deleting", "vanished"} : claims' = [claims EXCEPT ![c] = [@ EXCEPT !.phase = p]]
    BY <1>2 DEF DeleteClaim
  <2> DEFINE new == [claims[c] EXCEPT !.phase = p]
  <2>2. new.ready = claims[c].ready /\ new.hostname = claims[c].hostname /\ new.phase = p
    BY <1>0 DEF ClaimType
  <2>3. claims' = [claims EXCEPT ![c] = new]
    BY <2>1
  <2> HIDE DEF new
  <2>4. claims'[c] = new /\ \A d \in Claims \ {c} : claims'[d] = claims[d]
    BY <1>0, <2>3
  <2>5. \A d \in Claims : /\ claims'[d].hostname = claims[d].hostname
                          /\ claims'[d].ready = claims[d].ready
                          /\ claims'[d].phase \in {claims[d].phase, p}
    BY <2>2, <2>4
  <2>6. \A d \in Claims : HostOf(d)' = HostOf(d)
    BY <2>5 DEF HostOf
  <2>7. \A d \in Claims : /\ Known(d) => Known(d)'
                          /\ claims'[d].phase = "live" => claims[d].phase = "live"
    BY <2>5 DEF Known
  <2> QED BY <2>5, <2>6, <2>7 DEF ClaimsGo
<1> QED BY <1>1, <1>2

\* No step takes anything from a served claim, or changes whom it is served as.
LEMMA StepsGo ==
    ASSUME ClientInv, ClaimTypeOK, HeldInv, [ClaimNext]_claimVars
    PROVE  ClaimsGo /\ HoldsGrow
<1>1. ASSUME NEW w \in Workers, HandlerStep(w)
      PROVE  ClaimsGo /\ HoldsGrow
  <2>1. CASE PatchClaim(w)
    BY <2>1, PatchGo, RecordsStay DEF PatchClaim, clientVars
  <2>2. CASE UNCHANGED <<claims, hostRecords>>
    BY <2>2, NothingChanges
  <2> QED BY <1>1, <2>1, <2>2
          DEF HandlerStep, FetchPool, EnsureHostname, ReleaseHostname, SkipSubnet, CallClient,
              AllocateReturns, ReleaseReturns, EndCall, LoopEnds, WriteAddress, DeleteAddress,
              clientVars, k8sVars
<1>2. ASSUME NEW w \in Workers, InfobloxStep(w)
      PROVE  ClaimsGo /\ HoldsGrow
  <2>1. UNCHANGED claims
    BY <1>2 DEF InfobloxStep, k8sVars
  <2>2. ClaimsGo
    BY <2>1 DEF ClaimsGo, HostOf, Known
  <2> QED BY <1>2, <2>2, WapiKeepsHolds
<1>3. CASE (\E w \in Workers, c \in Claims : Start(w, c)) \/ Crash \/ Foreigners
  <2>1. UNCHANGED <<claims, hostRecords>>
    BY <1>3 DEF Start, Crash, CrashClient, Foreigners, ForeignStep, ForeignTake, ForeignFree,
                clientVars, k8sVars
  <2> QED BY <2>1, NothingChanges
<1>4. ASSUME NEW c \in Claims,
             (\E h \in Presets \cup {None} : CreateClaim(c, h)) \/ DeleteClaim(c)
      PROVE  ClaimsGo /\ HoldsGrow
  <2>1. hostRecords' = hostRecords
    BY <1>4 DEF CreateClaim, DeleteClaim, clientVars
  <2> QED BY <1>4, <2>1, UsersGo, RecordsStay
<1>5. CASE \/ \E c \in Claims : OwnerChainBreaks(c)
           \/ \E p \in Pools : PoolRecovers(p) \/ PoolDegrades(p) \/ PoolGoes(p)
           \/ UNCHANGED claimVars
  <2>1. UNCHANGED <<claims, hostRecords>>
    BY <1>5 DEF OwnerChainBreaks, PoolRecovers, PoolDegrades, PoolGoes, SetPool, claimVars,
                clientVars, k8sVars
  <2> QED BY <2>1, NothingChanges
<1> QED BY <1>1, <1>2, <1>3, <1>4, <1>5 DEF ClaimNext

-----------------------------------------------------------------------------
(* Steps of the reconciliation *)

\* The invariant of a reconciliation stays true of a fixed record, if nothing is
\* taken from its claim and no host name is stored.
LEMMA RecInvGo ==
    ASSUME ClaimsGo, HoldsGrow, NEW d, d.step # "idle" => d.claim \in Claims, RecInv(d),
           \A c \in Claims : Known(c) => claims'[c].hostname = claims[c].hostname
    PROVE  RecInv(d)'
<1>1. CASE d.step = "idle"
  BY <1>1 DEF RecInv
<1>2. CASE d.step # "idle"
  <2>1. AboutClaim(d) /\ FoundForClaim(d)
    BY <1>2 DEF RecInv
  <2>2. PICK c \in Claims : c = d.claim
    BY <1>2
  <2>3. Known(c)
    BY <2>1, <2>2 DEF AboutClaim
  <2>4. /\ Known(c)' /\ HostOf(c)' = HostOf(c)
        /\ claims'[c].phase = "live" => claims[c].phase = "live"
        /\ claims'[c].hostname = claims[c].hostname
    BY <2>3 DEF ClaimsGo
  <2>5. Served(c)' => Served(c) /\ Holds(c) \subseteq Holds(c)'
    BY <2>3, ServedBefore DEF HoldsGrow
  <2>6. AboutClaim(d)'
    BY <2>1, <2>2, <2>4 DEF AboutClaim, Deleting
  <2>7. FoundForClaim(d)'
    BY <2>1, <2>2, <2>5 DEF FoundForClaim
  <2> QED BY <2>6, <2>7 DEF RecInv
<1> QED BY <1>1, <1>2

\* With the one worker's record and call, and all stored claims, the invariant is
\* complete.
LEMMA HeldFrom ==
    ASSUME NEW w \in Workers, NEW d, rec'[w] = d, RecInv(d)', CallInv(d, call[w])',
           \A c \in Claims : StoredInv(c)'
    PROVE  HeldInv'
<1>1. Workers = {w} /\ Workers' = {w}
  BY OneWorker DEF Workers
<1>2. RecInv(rec[w])'
  BY DEF RecInv, AboutClaim, FoundForClaim, Deleting
<1>3. CallInv(rec[w], call[w])'
  BY DEF CallInv, Deleting
<1> QED BY <1>1, <1>2, <1>3 DEF HeldInv

\* A record that goes on with the same claim and only adds what is true.
LEMMA Carry ==
    ASSUME NEW r, RecInv(r), r.step # "idle",
           NEW d, d.claim = r.claim, d.phase = r.phase,
           d.hostname \in {r.hostname, HostOf(r.claim)},
           d.step \in {"loop", "call"} => d.host = HostOf(r.claim),
           d.step = "writeAddress" /\ Served(r.claim) => d.addr \in Holds(r.claim),
           d.ready # r.ready /\ d.ready = "AddressAllocated" /\ Served(r.claim) =>
               Holds(r.claim) # {}
    PROVE  RecInv(d)
<1>1. AboutClaim(r) /\ FoundForClaim(r)
  BY DEF RecInv
<1>2. AboutClaim(d)
  BY <1>1 DEF AboutClaim, HostOf, Deleting
<1>3. FoundForClaim(d)
  BY <1>1 DEF FoundForClaim
<1> QED BY <1>2, <1>3 DEF RecInv

\* getHostname tells the name the claim is served under, or none.
LEMMA HostnameIs ==
    ASSUME NEW r, AboutClaim(r)
    PROVE  GetHostname(r) \in {None, HostOf(r.claim)}
BY DEF AboutClaim, GetHostname, HostOf

\* What GetOrAllocateAddress has returned for a claim is held for it.
LEMMA ReturnedIsHeld ==
    ASSUME ClientInv, ClaimTypeOK, HeldInv, NEW w \in Workers, AllocateReturns(w),
           ~call[w].err
    PROVE  call[w].addr \in Holds(rec[w].claim)
<1> DEFINE k == call[w]
           r == rec[w]
<1>1. k.step = "returned" /\ r.step = "call" /\ ~Deleting(r)
  BY DEF AllocateReturns, EndCall
<1>2. /\ k.op = "allocate"
      /\ k.view = PoolView[PoolOf[r.claim]]
      /\ k.host = HostOf(r.claim)
      /\ k.subnet \in ValidSubnets(PoolOf[r.claim])
  BY <1>1 DEF HeldInv, CallInv, RecInv, AboutClaim
<1>3. /\ k.addr \in AddrsIn[k.subnet]
      /\ \E u \in Matching(k.view, k.host) : k.addr \in hostRecords[u][k.host]
  BY <1>1, <1>2 DEF ClientInv, AllocateContract
<1> QED BY <1>2, <1>3 DEF Holds, PoolAddrs

\* The record and the call after a step of the handler, before the final patch.
LEMMA RecHandler ==
    ASSUME ClientInv, ClaimTypeOK, HeldInv, NEW w \in Workers, HandlerStep(w), ~PatchClaim(w)
    PROVE  \E d : /\ rec'[w] = d
                  /\ d.claim \in Claims
                  /\ RecInv(d)
                  /\ CallInv(d, call'[w])
<1> DEFINE r == rec[w]
           k == call[w]
           ok(d) == d.claim \in Claims /\ RecInv(d)
<1>0. r \in RecType /\ r.step # "idle" /\ RecInv(r) /\ rec \in [Workers -> RecType]
  BY DEF HeldInv, ClaimTypeOK, HandlerStep, FetchPool, EnsureHostname, ReleaseHostname, InLoop,
         SkipSubnet, CallClient, AllocateReturns, ReleaseReturns, LoopEnds, WriteAddress,
         DeleteAddress
<1>1. r.claim \in Claims /\ AboutClaim(r) /\ RecOK(r)
  BY <1>0 DEF RecInv, ClaimTypeOK, RecOK
<1> DEFINE H == HostOf(r.claim)
<1>2. ASSUME NEW d, Rec(w, d)
      PROVE  rec'[w] = d
  BY <1>0, <1>2 DEF Rec
<1>3. k.step # "idle" => r.step = "call"
  BY DEF HeldInv, CallInv
<1>4. ASSUME NEW d, ok(d), Rec(w, d), r.step # "call", call' = call
      PROVE  \E e : rec'[w] = e /\ e.claim \in Claims /\ RecInv(e) /\ CallInv(e, call'[w])
  BY <1>2, <1>3, <1>4 DEF CallInv
<1>5. ASSUME NEW s \in {"patch", "hostname", "deleteAddress"}
      PROVE  ok([r EXCEPT !.step = s])
  <2> DEFINE d == [r EXCEPT !.step = s]
  <2>1. /\ d.claim = r.claim /\ d.phase = r.phase /\ d.hostname = r.hostname
        /\ d.ready = r.ready /\ d.step = s
    BY <1>0 DEF RecType
  <2> HIDE DEF d
  <2> QED BY <1>0, <1>1, <2>1, Carry DEF d
<1>6. ASSUME NEW s \in {"PoolNotReady", "AllocationFailed"}
      PROVE  ok([r EXCEPT !.step = "patch", !.ready = s])
  <2> DEFINE d == [r EXCEPT !.step = "patch", !.ready = s]
  <2>1. /\ d.claim = r.claim /\ d.phase = r.phase /\ d.hostname = r.hostname
        /\ d.ready = s /\ d.step = "patch"
    BY <1>0 DEF RecType
  <2> HIDE DEF d
  <2> QED BY <1>0, <1>1, <2>1, Carry DEF d
<1>7. CASE FetchPool(w)
  <2>1. r.step = "fetchPool" /\ call' = call
    BY <1>7 DEF FetchPool, clientVars
  <2>2. \/ Rec(w, [r EXCEPT !.step = "patch"])
        \/ Rec(w, [r EXCEPT !.step = "hostname"])
        \/ Rec(w, [r EXCEPT !.step = "patch", !.ready = "PoolNotReady"])
    BY <1>7 DEF FetchPool
  <2> HIDE DEF ok
  <2> QED BY <1>4, <1>5, <1>6, <2>1, <2>2
<1>8. CASE EnsureHostname(w)
  <2> DEFINE h == GetHostname(r)
             d(s) == [r EXCEPT !.hostname = h, !.host = h, !.step = s]
  <2>1. r.step = "hostname" /\ call' = call
    BY <1>8 DEF EnsureHostname, clientVars
  <2>2. ASSUME NEW s \in {"loop", "patch"}, h # None
        PROVE  ok(d(s))
    <3>1. h = H
      BY <1>1, <2>2, HostnameIs
    <3>2. /\ d(s).claim = r.claim /\ d(s).phase = r.phase /\ d(s).hostname = h
          /\ d(s).ready = r.ready /\ d(s).step = s /\ d(s).host = h
      BY <1>0 DEF RecType
    <3> HIDE DEF d, h
    <3> QED BY <1>0, <1>1, <3>1, <3>2, Carry
  <2>3. \/ Rec(w, [r EXCEPT !.step = "patch"])
        \/ h # None /\ Rec(w, d("loop"))
        \/ h # None /\ Rec(w, d("patch"))
    BY <1>8 DEF EnsureHostname
  <2> HIDE DEF ok, d, h
  <2> QED BY <1>4, <1>5, <2>1, <2>2, <2>3
<1>9. CASE ReleaseHostname(w)
  <2> DEFINE h == GetHostname(r)
             d(s) == [r EXCEPT !.host = h, !.step = s]
  <2>1. r.step = "hostname" /\ call' = call
    BY <1>9 DEF ReleaseHostname, clientVars
  <2>2. ASSUME NEW s \in {"loop", "patch"}, s = "loop" => h # None
        PROVE  ok(d(s))
    <3>1. s = "loop" => h = H
      BY <1>1, <2>2, HostnameIs
    <3>2. /\ d(s).claim = r.claim /\ d(s).phase = r.phase /\ d(s).hostname = r.hostname
          /\ d(s).ready = r.ready /\ d(s).step = s /\ d(s).host = h
      BY <1>0 DEF RecType
    <3> HIDE DEF d, h
    <3> QED BY <1>0, <1>1, <3>1, <3>2, Carry
  <2>3. \/ Rec(w, [r EXCEPT !.step = "patch"])
        \/ h # None /\ Rec(w, d("loop"))
        \/ Rec(w, d("patch"))
    BY <1>9 DEF ReleaseHostname
  <2> HIDE DEF ok, d, h
  <2> QED BY <1>4, <1>5, <2>1, <2>2, <2>3
<1>10. CASE SkipSubnet(w)
  <2> DEFINE d == [r EXCEPT !.i = @ + 1]
  <2>1. r.step = "loop" /\ call' = call /\ Rec(w, d)
    BY <1>10 DEF SkipSubnet, InLoop, clientVars
  <2>2. /\ d.claim = r.claim /\ d.phase = r.phase /\ d.hostname = r.hostname
        /\ d.ready = r.ready /\ d.step = r.step /\ d.host = r.host
    BY <1>0 DEF RecType
  <2> HIDE DEF d
  <2>3. ok(d)
    BY <1>0, <1>1, <2>1, <2>2, Carry DEF AboutClaim
  <2> QED BY <1>4, <2>1, <2>3
<1>11. CASE CallClient(w)
  <2> DEFINE d == [r EXCEPT !.step = "call"]
             op == IF Deleting(r) THEN "release" ELSE "allocate"
             s == SubnetsOf(w)[r.i]
  <2>1. r.step = "loop" /\ Rec(w, d) /\ Begin(w, op, PoolView[PoolOf[r.claim]], r.host, s)
    BY <1>11 DEF CallClient, InLoop, Pool
  <2>2. /\ d.claim = r.claim /\ d.phase = r.phase /\ d.hostname = r.hostname
        /\ d.ready = r.ready /\ d.step = "call" /\ d.host = r.host
    BY <1>0 DEF RecType
  <2>3. s \in ValidSubnets(PoolOf[r.claim])
    <3>1. PoolSubnets[PoolOf[r.claim]] \in Seq(Subnets \cup InvalidCIDRs)
      BY <1>1, ClaimAssumption DEF ClaimAssumption
    <3>2. r.i \in 1 .. Len(PoolSubnets[PoolOf[r.claim]]) /\ s \in Subnets
      BY <1>0, <1>11, <3>1 DEF CallClient, InLoop, SubnetsOf, Pool, RecType
    <3> QED BY <3>2 DEF ValidSubnets, SubnetsOf, Pool
  <2>4. /\ call'[w].op = op /\ call'[w].view = PoolView[PoolOf[r.claim]]
        /\ call'[w].host = r.host /\ call'[w].subnet = s
    <3>1. call \in [Workers -> CallType]
      BY DEF ClaimTypeOK, TypeOK
    <3> QED BY <2>1, <3>1 DEF Begin, NoCall
  <2> HIDE DEF d, op, s
  <2>5. ok(d)
    BY <1>0, <1>1, <2>1, <2>2, Carry DEF AboutClaim
  <2>6. CallInv(d, call'[w])
    BY <2>2, <2>3, <2>4 DEF CallInv, Deleting, op
  <2> QED BY <1>2, <2>1, <2>5, <2>6
<1>12. CASE AllocateReturns(w) \/ ReleaseReturns(w)
  <2> DEFINE d1 == [r EXCEPT !.step = "loop", !.i = @ + 1]
             d2 == [r EXCEPT !.step = "writeAddress", !.addr = k.addr,
                             !.ready = "AddressAllocated"]
  <2>1. r.step = "call" /\ call'[w].step = "idle"
    <3>1. call \in [Workers -> CallType]
      BY DEF ClaimTypeOK, TypeOK
    <3> QED BY <1>12, <3>1 DEF AllocateReturns, ReleaseReturns, EndCall, NoCall
  <2>2. /\ d1.claim = r.claim /\ d1.phase = r.phase /\ d1.hostname = r.hostname
        /\ d1.ready = r.ready /\ d1.step = "loop" /\ d1.host = r.host
    BY <1>0 DEF RecType
  <2>3. /\ d2.claim = r.claim /\ d2.phase = r.phase /\ d2.hostname = r.hostname
        /\ d2.ready = "AddressAllocated" /\ d2.step = "writeAddress" /\ d2.addr = k.addr
    BY <1>0 DEF RecType
  <2>4. \/ Rec(w, d1)
        \/ AllocateReturns(w) /\ ~k.err /\ Rec(w, d2)
    BY <1>12 DEF AllocateReturns, ReleaseReturns
  <2> HIDE DEF d1, d2
  <2>5. ok(d1)
    BY <1>0, <1>1, <2>1, <2>2, Carry DEF AboutClaim
  <2>6. AllocateReturns(w) /\ ~k.err => ok(d2)
    BY <1>0, <1>1, <2>3, Carry, ReturnedIsHeld
  <2>7. \A d : CallInv(d, call'[w])
    BY <2>1 DEF CallInv
  <2> QED BY <1>2, <2>4, <2>5, <2>6, <2>7
<1>13. CASE LoopEnds(w)
  <2>1. /\ r.step = "loop" /\ call' = call
        /\ \/ Rec(w, [r EXCEPT !.step = "deleteAddress"])
           \/ Rec(w, [r EXCEPT !.step = "patch", !.ready = "AllocationFailed"])
    BY <1>13 DEF LoopEnds, clientVars
  <2> HIDE DEF ok
  <2> QED BY <1>4, <1>5, <1>6, <2>1
<1>14. CASE WriteAddress(w) \/ DeleteAddress(w)
  <2> DEFINE d == [r EXCEPT !.step = "patch", !.finalizer = FALSE]
  <2>1. /\ r.step # "call" /\ call' = call
        /\ \/ Rec(w, [r EXCEPT !.step = "patch"])
           \/ Rec(w, d)
    BY <1>14 DEF WriteAddress, DeleteAddress, clientVars
  <2>2. /\ d.claim = r.claim /\ d.phase = r.phase /\ d.hostname = r.hostname
        /\ d.ready = r.ready /\ d.step = "patch"
    BY <1>0 DEF RecType
  <2> HIDE DEF d
  <2>3. ok(d)
    BY <1>0, <1>1, <2>2, Carry
  <2> HIDE DEF ok
  <2> QED BY <1>4, <1>5, <2>1, <2>3
<1> QED BY <1>7, <1>8, <1>9, <1>10, <1>11, <1>12, <1>13, <1>14 DEF HandlerStep

-----------------------------------------------------------------------------
(* The invariant holds *)

\* A WAPI call goes on with the arguments it was made with.
LEMMA WapiArgs ==
    ASSUME TypeOK, NEW w \in Workers, WapiStep(w)
    PROVE  call[w].step # "idle" /\ SameArgs(w)
<1> DEFINE k == call[w]
<1>0. call \in [Workers -> CallType] /\ k \in CallType
  BY DEF TypeOK
<1>1. k.step # "idle"
  BY DEF WapiStep, Lookup, WriteHostRecord, Refetch, WriteRelease
<1>2. ASSUME NEW err, NEW a, Return(w, err, a)
      PROVE  SameArgs(w)
  BY <1>0, <1>2 DEF Return, SameArgs, CallType
<1>3. ASSUME NEW more, NEW ref, SendNext(w, more, ref)
      PROVE  SameArgs(w)
  BY <1>0, <1>3 DEF SendNext, SameArgs, CallType
<1>4. ASSUME NEW u, NEW h, NEW addrs, NEW d, Store(w, u, h, addrs, d),
             d.op = k.op, d.view = k.view, d.host = k.host, d.subnet = k.subnet
      PROVE  SameArgs(w)
  <2>1. CASE call' = [call EXCEPT ![w] = d]
    BY <1>0, <1>4, <2>1 DEF SameArgs
  <2> QED BY <1>2, <1>4, <2>1 DEF Store
<1>5. CASE RequestFails(w) \/ Rejected(w)
  BY <1>1, <1>2, <1>5 DEF RequestFails, Rejected
<1>6. CASE Lookup(w)
  <2>1. ASSUME NEW addrs, NEW ref, AfterLookup(w, addrs, ref)
        PROVE  SameArgs(w)
    BY <1>2, <1>3, <2>1 DEF AfterLookup, AfterLookupAllocate, AfterLookupRelease
  <2> QED BY <1>1, <1>5, <1>6, <2>1 DEF Lookup
<1>7. CASE CreateObject(w)
  <2> DEFINE d == [k EXCEPT !.step = "refetch", !.ref = ViewOf(k.view)]
  <2>1. d.op = k.op /\ d.view = k.view /\ d.host = k.host /\ d.subnet = k.subnet
    BY <1>0 DEF CallType
  <2>2. \E a : Store(w, ViewOf(k.view), k.host, {a}, d)
    BY <1>7 DEF CreateObject
  <2> HIDE DEF d
  <2> QED BY <1>1, <1>4, <2>1, <2>2
<1>8. CASE UpdateObject(w)
  <2> DEFINE d == [k EXCEPT !.step = "refetch"]
  <2>1. d.op = k.op /\ d.view = k.view /\ d.host = k.host /\ d.subnet = k.subnet
    BY <1>0 DEF CallType
  <2>2. \E a : Store(w, k.ref, k.host, k.hr \cup {a}, d)
    BY <1>8 DEF UpdateObject
  <2> HIDE DEF d
  <2> QED BY <1>1, <1>4, <2>1, <2>2
<1>9. CASE Refetch(w)
  BY <1>1, <1>2, <1>5, <1>9 DEF Refetch
<1>10. CASE WriteRelease(w)
  <2> DEFINE d == [k EXCEPT !.step = "returned"]
  <2>1. d.op = k.op /\ d.view = k.view /\ d.host = k.host /\ d.subnet = k.subnet
    BY <1>0 DEF CallType
  <2>2. CASE Store(w, k.ref, k.host, k.hr, d)
    <3> HIDE DEF d
    <3> QED BY <1>1, <1>4, <2>1, <2>2
  <2> QED BY <1>1, <1>5, <1>10, <2>2 DEF WriteRelease
<1> QED BY <1>1, <1>5, <1>6, <1>7, <1>8, <1>9, <1>10 DEF WapiStep, WriteHostRecord

\* The steps of the handler before the final patch.
LEMMA HeldHandler ==
    ASSUME ClientInv, ClaimTypeOK, HeldInv, ClaimsGo, HoldsGrow,
           NEW w \in Workers, HandlerStep(w), ~PatchClaim(w)
    PROVE  HeldInv'
<1>1. PICK d : /\ rec'[w] = d /\ d.claim \in Claims
               /\ RecInv(d) /\ CallInv(d, call'[w])
  BY RecHandler
<1>2. claims' = claims
  BY DEF HandlerStep, FetchPool, EnsureHostname, ReleaseHostname, SkipSubnet, CallClient,
         AllocateReturns, ReleaseReturns, EndCall, LoopEnds, WriteAddress, DeleteAddress, k8sVars
<1>3. RecInv(d)'
  BY <1>1, <1>2, RecInvGo
<1>4. CallInv(d, call[w])'
  BY <1>1 DEF CallInv, Deleting
<1>5. ASSUME NEW c \in Claims
      PROVE  StoredInv(c)'
  <2>1. StoredInv(c) /\ claims'[c].ready = claims[c].ready
    BY <1>2 DEF HeldInv
  <2>2. CASE ipAddress'[c] \in {ipAddress[c], None}
    BY <2>1, <2>2, StoredKept
  <2>3. CASE ipAddress'[c] \notin {ipAddress[c], None}
    <3>1. ipAddress \in [Claims -> Addrs \cup {None}]
      BY DEF ClaimTypeOK
    <3>2. /\ WriteAddress(w)
          /\ ipAddress' = [ipAddress EXCEPT ![rec[w].claim] = rec[w].addr]
      BY <2>3, <3>1
         DEF HandlerStep, FetchPool, EnsureHostname, ReleaseHostname, SkipSubnet, CallClient,
             AllocateReturns, ReleaseReturns, LoopEnds, WriteAddress, DeleteAddress, k8sVars
    <3>3. c = rec[w].claim /\ ipAddress'[c] = rec[w].addr
      BY <2>3, <3>1, <3>2
    <3>4. AboutClaim(rec[w]) /\ FoundForClaim(rec[w]) /\ rec[w].step = "writeAddress"
      BY <3>2 DEF HeldInv, RecInv, WriteAddress
    <3>5. Known(c) /\ Known(c)' /\ (Served(c)' => Served(c))
      BY <3>3, <3>4, ServedBefore DEF AboutClaim, ClaimsGo
    <3>6. Served(c) => ipAddress'[c] \in Holds(c) /\ Holds(c) \subseteq Holds(c)'
      BY <3>3, <3>4 DEF FoundForClaim, HoldsGrow
    <3> QED BY <2>1, <3>5, <3>6 DEF StoredInv
  <2> QED BY <2>2, <2>3
<1> QED BY <1>1, <1>3, <1>4, <1>5, HeldFrom

\* The final patch stores Ready only if an address was found.
LEMMA HeldPatch ==
    ASSUME ClientInv, ClaimTypeOK, HeldInv, ClaimsGo, HoldsGrow,
           NEW w \in Workers, PatchClaim(w)
    PROVE  HeldInv'
<1>0. rec \in [Workers -> RecType] /\ rec[w].step = "patch"
  BY DEF ClaimTypeOK, PatchClaim
<1>1. rec'[w] = NoRec /\ NoRec.step = "idle" /\ UNCHANGED <<call, ipAddress>>
  BY <1>0 DEF PatchClaim, Rec, clientVars, NoRec
<1>2. call[w].step = "idle"
  BY <1>0 DEF HeldInv, CallInv
<1>3. ASSUME NEW c \in Claims
      PROVE  StoredInv(c)'
  <2>1. StoredInv(c)
    BY DEF HeldInv
  <2>2. CASE claims'[c].ready = claims[c].ready
    BY <1>1, <2>1, <2>2, StoredKept
  <2>3. CASE c = rec[w].claim /\ claims'[c].ready = rec[w].ready
    <3>1. AboutClaim(rec[w]) /\ FoundForClaim(rec[w])
      BY <1>0 DEF HeldInv, RecInv
    <3>2. Known(c) /\ Known(c)' /\ (Served(c)' => Served(c))
      BY <2>3, <3>1, ServedBefore DEF AboutClaim, ClaimsGo
    <3>3. Served(c) => /\ claims'[c].ready = "AddressAllocated" => Holds(c) # {}
                       /\ Holds(c) \subseteq Holds(c)'
      BY <2>3, <3>1 DEF FoundForClaim, HoldsGrow
    <3> QED BY <1>1, <2>1, <3>2, <3>3 DEF StoredInv
  <2> QED BY <2>2, <2>3, PatchGo
<1>4. RecInv(NoRec)' /\ CallInv(NoRec, call[w])'
  BY <1>1, <1>2 DEF RecInv, CallInv
<1> QED BY <1>1, <1>3, <1>4, HeldFrom

\* The reconciliation goes on where a step leaves it and its call alone.
LEMMA HeldElsewhere ==
    ASSUME ClaimTypeOK, HeldInv, ClaimsGo, HoldsGrow, UNCHANGED <<rec, call, ipAddress>>,
           \A c \in Claims : claims'[c].ready = claims[c].ready,
           \A c \in Claims : Known(c) => claims'[c].hostname = claims[c].hostname
    PROVE  HeldInv'
<1> SUFFICES ASSUME NEW w \in Workers PROVE HeldInv'
  BY OneWorker
<1>1. PICK d \in RecType : d = rec[w]
  BY DEF ClaimTypeOK
<1>2. /\ RecInv(d) /\ CallInv(d, call[w])
      /\ d.step # "idle" => d.claim \in Claims
  BY <1>1 DEF HeldInv, ClaimTypeOK, RecOK
<1>3. RecInv(d)'
  BY <1>2, RecInvGo
<1>4. CallInv(d, call[w])'
  BY <1>2 DEF CallInv, Deleting
<1>5. \A c \in Claims : StoredInv(c)'
  BY StoredKept DEF HeldInv
<1> QED BY <1>1, <1>3, <1>4, <1>5, HeldFrom

\* One step keeps the invariant.
LEMMA HeldStep ==
    ASSUME ClientInv, ClaimTypeOK, HeldInv, [ClaimNext]_claimVars
    PROVE  HeldInv'
<1>0. ClaimsGo /\ HoldsGrow
  BY StepsGo
<1>t. /\ rec \in [Workers -> RecType] /\ call \in [Workers -> CallType]
      /\ TypeOK
  BY DEF ClaimTypeOK, TypeOK
<1>s. ASSUME UNCHANGED <<claims, ipAddress>>, NEW c \in Claims
      PROVE  StoredInv(c)'
  <2>1. StoredInv(c)
    BY DEF HeldInv
  <2> QED BY <1>0, <1>s, <2>1, StoredKept
<1>1. ASSUME NEW w \in Workers, HandlerStep(w)
      PROVE  HeldInv'
  BY <1>0, <1>1, HeldHandler, HeldPatch
<1>2. ASSUME NEW w \in Workers, InfobloxStep(w)
      PROVE  HeldInv'
  <2>1. UNCHANGED <<claims, ipAddress, rec>> /\ WapiStep(w)
    BY <1>2 DEF InfobloxStep, k8sVars
  <2>2. call[w].step # "idle" /\ SameArgs(w)
    BY <1>t, <2>1, WapiArgs
  <2>3. PICK d \in RecType : d = rec[w]
    BY <1>t
  <2>4. /\ RecInv(d) /\ CallInv(d, call[w])
        /\ d.step # "idle" => d.claim \in Claims
    BY <2>3 DEF HeldInv, ClaimTypeOK, RecOK
  <2>5. RecInv(d)'
    BY <1>0, <2>1, <2>4, RecInvGo
  <2>6. CallInv(d, call[w])'
    BY <2>2, <2>4 DEF CallInv, Deleting, SameArgs
  <2>7. rec'[w] = d
    BY <2>1, <2>3
  <2> QED BY <1>s, <2>1, <2>5, <2>6, <2>7, HeldFrom
<1>3. ASSUME NEW w \in Workers, NEW c \in Claims, Start(w, c)
      PROVE  HeldInv'
  <2> DEFINE d == [NoRec EXCEPT !.step = "fetchPool", !.claim = c,
                                !.phase = claims[c].phase,
                                !.finalizer = TRUE,
                                !.hostname = claims[c].hostname,
                                !.ready = claims[c].ready]
  <2>1. UNCHANGED <<claims, hostRecords, ipAddress, call>> /\ rec[w].step = "idle"
    BY <1>3 DEF Start, clientVars, k8sVars
  <2>2. rec'[w] = d /\ claims[c].phase \in {"live", "deleting"}
    BY <1>t, <1>3 DEF Start, Rec
  <2>3. /\ d.step = "fetchPool" /\ d.claim = c /\ d.phase = claims[c].phase
        /\ d.hostname = claims[c].hostname /\ d.ready = claims[c].ready
    BY DEF NoRec
  <2>4. PICK e : e = d
    OBVIOUS
  <2> HIDE DEF d
  <2>5. AboutClaim(e)
    BY <2>2, <2>3, <2>4 DEF AboutClaim, Known, HostOf, Deleting
  <2>6. FoundForClaim(e)
    BY <2>3, <2>4 DEF FoundForClaim, HeldInv, StoredInv
  <2>7. RecInv(e)'
    BY <1>0, <2>1, <2>3, <2>4, <2>5, <2>6, RecInvGo DEF RecInv
  <2>8. call[w].step = "idle"
    BY <2>1 DEF HeldInv, CallInv
  <2>9. CallInv(e, call[w])'
    BY <2>1, <2>8 DEF CallInv
  <2> QED BY <1>s, <2>1, <2>2, <2>4, <2>7, <2>9, HeldFrom
<1>4. CASE Crash
  <2>1. PICK w \in Workers : TRUE
    BY OneWorker
  <2>2. /\ UNCHANGED <<claims, ipAddress>>
        /\ rec'[w] = NoRec /\ call'[w] = NoCall
    BY <1>4, <2>1 DEF Crash, CrashClient, k8sVars
  <2>3. RecInv(NoRec)' /\ CallInv(NoRec, call[w])'
    BY <2>2 DEF RecInv, CallInv, NoRec, NoCall
  <2> QED BY <1>s, <2>1, <2>2, <2>3, HeldFrom
<1>5. ASSUME NEW c \in Claims,
             (\E h \in Presets \cup {None} : CreateClaim(c, h)) \/ DeleteClaim(c)
      PROVE  HeldInv'
  <2>1. UNCHANGED <<rec, call, ipAddress>>
    BY <1>5 DEF CreateClaim, DeleteClaim, clientVars
  <2> QED BY <1>0, <1>5, <2>1, UsersGo, HeldElsewhere
<1>6. CASE \/ Foreigners
           \/ \E c \in Claims : OwnerChainBreaks(c)
           \/ \E p \in Pools : PoolRecovers(p) \/ PoolDegrades(p) \/ PoolGoes(p)
           \/ UNCHANGED claimVars
  <2>1. UNCHANGED <<claims, rec, call, ipAddress>>
    BY <1>6 DEF Foreigners, ForeignStep, ForeignTake, ForeignFree, OwnerChainBreaks,
                PoolRecovers, PoolDegrades, PoolGoes, SetPool, claimVars, clientVars, k8sVars
  <2> QED BY <1>0, <2>1, HeldElsewhere
<1> QED BY <1>1, <1>2, <1>3, <1>4, <1>5, <1>6 DEF ClaimNext

\* The invariant holds initially: there are no claims.
LEMMA HeldInit == ClaimInit => HeldInv
<1> SUFFICES ASSUME ClaimInit PROVE HeldInv
  OBVIOUS
<1>1. ASSUME NEW w \in Workers
      PROVE  RecInv(rec[w]) /\ CallInv(rec[w], call[w])
  BY <1>1 DEF ClaimInit, ClientInit, RecInv, CallInv, NoRec, NoCall
<1>2. ASSUME NEW c \in Claims
      PROVE  StoredInv(c)
  BY <1>2 DEF ClaimInit, StoredInv, Served, Known
<1> QED BY <1>1, <1>2 DEF HeldInv

\* The invariant holds in every reachable state.
THEOREM HeldInvariantHolds == ClaimSpec => [](ClientInv /\ HeldInv)
<1>1. ClaimSpec => []ClientInv
  BY ClaimImplementsClient, InvariantHolds, PTL DEF ImplementsClient
<1>2. ClientInv /\ ClaimTypeOK /\ HeldInv /\ [ClaimNext]_claimVars => HeldInv'
  BY HeldStep
<1> QED BY <1>1, <1>2, HeldInit, ClaimTypeCorrect, PTL DEF ClaimSpec

\* Nobody is a rival of a claim that is alone.
LEMMA AloneIsServed ==
    ASSUME NEW c \in Claims, Alone(c), claims[c].phase = "live"
    PROVE  Served(c)
BY DEF Alone, Served, Unrivalled

\* The address of a live claim that is alone stays in its host record, for any
\* number of claims, pools, subnets, crashes and lost answers.
THEOREM BoundClaimsHeld == ClaimSpec => []BoundAddressHeld
<1>1. HeldInv => BoundAddressHeld
  BY AloneIsServed DEF HeldInv, StoredInv, BoundAddressHeld
<1> QED BY <1>1, HeldInvariantHolds, PTL

\* AddressAllocated is reported only of claims that have an address.
THEOREM ReadyClaimsHold == ClaimSpec => []ReadyClaimHolds
<1>1. HeldInv => ReadyClaimHolds
  BY AloneIsServed DEF HeldInv, StoredInv, ReadyClaimHolds
<1> QED BY <1>1, HeldInvariantHolds, PTL

\* Two claims of a view that are alone hold different addresses: in one record
\* because of the subnets, in different ones because Infoblox gives an address
\* to one record only.
LEMMA HoldingsDisjoint ==
    ASSUME ClientInv, ClaimTypeOK,
           NEW c \in Claims, NEW d \in Claims, c # d, Alone(c),
           PoolView[PoolOf[c]] = PoolView[PoolOf[d]], PoolView[PoolOf[c]] # None
    PROVE  Holds(c) \cap Holds(d) = {}
<1> DEFINE v == PoolView[PoolOf[c]]
<1> SUFFICES ASSUME NEW a \in Holds(c), a \in Holds(d) PROVE FALSE
  OBVIOUS
<1>1. HostOf(c) \in Hosts /\ HostOf(d) \in Hosts
  BY ClaimAssumption DEF ClaimTypeOK, ClaimType, HostOf, ClaimAssumption
<1>2. v \in NetworkViews /\ a \in hostRecords[v][HostOf(c)] /\ a \in hostRecords[v][HostOf(d)]
  BY DEF Holds, Matching
<1>3. HostOf(c) = HostOf(d)
  BY <1>1, <1>2 DEF ClientInv, Exclusive, Ledger!Exclusive
<1>4. PICK s \in ValidSubnets(PoolOf[c]), t \in ValidSubnets(PoolOf[d]) :
          a \in AddrsIn[s] /\ a \in AddrsIn[t]
  BY DEF Holds, PoolAddrs
<1>5. s = t
  BY <1>4, SubnetsDisjoint DEF ValidSubnets, SubnetsDisjoint
<1> QED BY <1>3, <1>4, <1>5 DEF Alone, Rivals

\* No two live claims of a network view are given the same address.
THEOREM NeverAssignedTwice == ClaimSpec => []NoDoubleAssignment
<1>1. ClientInv /\ ClaimTypeOK /\ HeldInv => NoDoubleAssignment
  <2> SUFFICES ASSUME ClientInv, ClaimTypeOK, HeldInv,
                      NEW c \in Claims, NEW d \in Claims,
                      c # d, Alone(c), Alone(d),
                      claims[c].phase = "live", claims[d].phase = "live",
                      PoolView[PoolOf[c]] = PoolView[PoolOf[d]], PoolView[PoolOf[c]] # None,
                      ipAddress[c] # None, ipAddress[c] = ipAddress[d]
               PROVE  FALSE
    BY DEF NoDoubleAssignment
  <2>1. ipAddress[c] \in Holds(c) /\ ipAddress[d] \in Holds(d)
    BY AloneIsServed DEF HeldInv, StoredInv
  <2> QED BY <2>1, HoldingsDisjoint
<1> QED BY <1>1, HeldInvariantHolds, ClaimTypeCorrect, PTL
=============================================================================
