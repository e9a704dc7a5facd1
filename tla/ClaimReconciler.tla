-------------------------- MODULE ClaimReconciler --------------------------
(***************************************************************************)
(* The claim controller: InfobloxClaimHandler in                           *)
(* src/internal/controllers/ipaddressclaim.go, driven by the generic       *)
(* ClaimReconciler of the in-cluster IPAM provider (external), which       *)
(*   reads the claim, adds its finalizer in memory, calls FetchPool, then  *)
(*   - for a live claim calls EnsureAddress and writes the IPAddress,      *)
(*   - for a deleted claim calls ReleaseAddress, deletes the IPAddress and *)
(*     drops the finalizer in memory,                                      *)
(* and in every case patches the claim at the very end.  What happens      *)
(* between the first read and that patch exists in memory only; a crash or *)
(* a failed patch loses it, while Infoblox keeps what was allocated.       *)
(*                                                                         *)
(* The calls to Infoblox are the steps of InfobloxClient.                  *)
(***************************************************************************)
EXTENDS InfobloxClient, Sequences

CONSTANTS
    Claims,         \* IPAddressClaims
    Pools,          \* InfobloxIPPools
    PoolOf,         \* the pool a claim references
    PoolView,       \* spec.networkView of a pool, None if it is empty
    PoolSubnets,    \* spec.subnets of a pool, in order
    InvalidCIDRs,   \* the entries of spec.subnets that do not parse
    HasZone,        \* does the pool set spec.dnsZone?
    InZone,         \* the host names that have the pool's zone as suffix
    ClaimName,      \* metadata.name of a claim
    MachineName,    \* name of the claim's Machine, followed by "." and the zone
    Presets,        \* host names users put into the annotation beforehand
    MaxApiFaults    \* bound on failures of the Kubernetes side

ASSUME ClaimAssumption ==
    /\ PoolOf \in [Claims -> Pools]
    /\ PoolView \in [Pools -> NetworkViews \cup {None}]
    /\ InvalidCIDRs \cap Subnets = {}
    /\ PoolSubnets \in [Pools -> Seq(Subnets \cup InvalidCIDRs)]
    /\ HasZone \in [Pools -> BOOLEAN]
    /\ InZone \in [Pools -> SUBSET Hosts]
    /\ ClaimName \in [Claims -> Hosts]
    /\ MachineName \in [Claims -> Hosts]
    /\ Presets \subseteq Hosts
    /\ None \notin Claims
    /\ MaxApiFaults \in Nat

\* Every name has the empty zone as suffix, and a resolved one ends in the zone.
ASSUME ZoneAssumption ==
    \A c \in Claims : LET p == PoolOf[c] IN
        IF HasZone[p] THEN MachineName[c] \in InZone[p] ELSE InZone[p] = Hosts

VARIABLES
    claims,         \* claims[c]: the stored claim
    ipAddress,      \* ipAddress[c]: spec.address of the claim's IPAddress, or None
    pools,          \* pools[p]: what the claim controller reads of a pool's status
    ownerChain,     \* ownerChain[c]: do the claim's owners still lead to a Machine?
    rec,            \* rec[w]: the reconciliation worker w is running
    swallowed,      \* claims whose last release loop dropped an error
    apiFaults       \* failures of the Kubernetes side so far

k8sVars == <<claims, ipAddress, pools, ownerChain>>
claimVars == <<clientVars, k8sVars, rec, swallowed, apiFaults>>

\* A claim that is deleted while it has no finalizer vanishes at once, one
\* that has it is deleting until the controller has released it.
Phases == {"absent", "live", "deleting", "released", "vanished"}

ReadyReasons == {"Unset", "PoolNotReady", "AllocationFailed", "AddressAllocated"}

ClaimType ==
    [phase : Phases, finalizer : BOOLEAN, hostname : Hosts \cup {None},
     ready : ReadyReasons]

PoolType == [present : BOOLEAN, ready : {"Unknown", "True", "False"}, paused : BOOLEAN]

\* The local state of a reconciliation: the claim in memory, the host name in
\* use, the index of the subnet and the address found.
NoRec ==
    [step |-> "idle", claim |-> None, phase |-> "absent", finalizer |-> FALSE,
     hostname |-> None, ready |-> "Unset", host |-> None, i |-> 1, addr |-> None]

RecType ==
    [step      : {"idle", "fetchPool", "hostname", "loop", "call",
                  "writeAddress", "deleteAddress", "patch"},
     claim     : Claims \cup {None},
     phase     : Phases,
     finalizer : BOOLEAN,
     hostname  : Hosts \cup {None},
     ready     : ReadyReasons,
     host      : Hosts \cup {None},
     i         : Nat \ {0},
     addr      : Addrs \cup {None}]

ClaimInit ==
    /\ ClientInit
    /\ claims = [c \in Claims |-> [phase |-> "absent", finalizer |-> FALSE,
                                   hostname |-> None, ready |-> "Unset"]]
    /\ ipAddress = [c \in Claims |-> None]
    /\ pools = [p \in Pools |-> [present |-> TRUE, ready |-> "Unknown", paused |-> FALSE]]
    /\ ownerChain = [c \in Claims |-> TRUE]
    /\ rec = [w \in Workers |-> NoRec]
    /\ swallowed = {}
    /\ apiFaults = 0

----------------------------------------------------------------------------
(* The steps around the handler *)

ApiFault == apiFaults < MaxApiFaults /\ apiFaults' = apiFaults + 1

Rec(w, r) == rec' = [rec EXCEPT ![w] = r]

Pool(w) == PoolOf[rec[w].claim]
SubnetsOf(w) == PoolSubnets[Pool(w)]

\* The claim had a deletion timestamp when it was read.
Deleting(r) == r.phase = "deleting"

\* The reconciler gets the claim and adds the finalizer in memory.  The work
\* queue hands a claim to one worker at a time.
Start(w, c) ==
    /\ rec[w].step = "idle"
    /\ \A v \in Workers : rec[v].claim # c
    /\ claims[c].phase \in {"live", "deleting"}
    /\ Rec(w, [NoRec EXCEPT !.step = "fetchPool", !.claim = c,
                            !.phase = claims[c].phase,
                            !.finalizer = TRUE,
                            !.hostname = claims[c].hostname,
                            !.ready = claims[c].ready])
    /\ UNCHANGED <<clientVars, k8sVars, swallowed, apiFaults>>

\* FetchPool, followed by the reconciler's check of the pool's paused
\* annotation.  Only a Ready condition that is False stops the claim.
FetchPool(w) ==
    LET r == rec[w]
        pool == pools[Pool(w)]
    IN
    /\ r.step = "fetchPool"
    /\ \/ ApiFault /\ Rec(w, [r EXCEPT !.step = "patch"])
       \/ /\ UNCHANGED apiFaults
          /\ \/ ~pool.present /\ Rec(w, [r EXCEPT !.step = "patch"])
             \/ /\ pool.present /\ pool.ready = "False"
                /\ Rec(w, [r EXCEPT !.step = "patch", !.ready = "PoolNotReady"])
             \/ /\ pool.present /\ pool.ready # "False"
                /\ Rec(w, [r EXCEPT !.step = IF pool.paused THEN "patch" ELSE "hostname"])
    /\ UNCHANGED <<clientVars, k8sVars, swallowed>>

----------------------------------------------------------------------------
(* Host names *)

\* getHostname: the annotation, else the claim's name if the pool has no
\* zone, else the Machine at the end of the owner chain; None is an error.
GetHostname(r) ==
    IF r.hostname # None THEN r.hostname
    ELSE IF ~HasZone[PoolOf[r.claim]] THEN ClaimName[r.claim]
    ELSE IF ownerChain[r.claim] THEN MachineName[r.claim]
    ELSE None

\* The owner chain is followed with API requests, which can fail.
ResolverFails(r) ==
    /\ r.hostname = None
    /\ HasZone[PoolOf[r.claim]]
    /\ ApiFault

\* ensureHostname in EnsureAddress: the annotation is set in memory before the
\* zone is compared, so a name outside the zone is recorded as well.
EnsureHostname(w) ==
    LET r == rec[w]
        h == GetHostname(r)
    IN
    /\ r.step = "hostname" /\ ~Deleting(r)
    /\ \/ ResolverFails(r) /\ Rec(w, [r EXCEPT !.step = "patch"])
       \/ /\ UNCHANGED apiFaults
          /\ \/ h = None /\ Rec(w, [r EXCEPT !.step = "patch"])
             \/ /\ h # None
                /\ Rec(w, [r EXCEPT !.hostname = h, !.host = h,
                                    !.step = IF h \in InZone[Pool(w)] THEN "loop" ELSE "patch"])
    /\ UNCHANGED <<clientVars, k8sVars, swallowed>>

\* Mutant of ReleaseHostname: the error of getHostname is not looked at.
ReleaseHostnameUnchecked(w) ==
    LET r == rec[w] IN
    /\ r.step = "hostname" /\ Deleting(r)
    /\ Rec(w, [r EXCEPT !.host = GetHostname(r), !.step = "loop"])
    /\ swallowed' = swallowed \ {r.claim}
    /\ UNCHANGED <<clientVars, k8sVars, apiFaults>>

\* Mutant of ReleaseHostname: only the annotation is looked at.
ReleaseHostnameFromAnnotation(w) ==
    LET r == rec[w] IN
    /\ r.step = "hostname" /\ Deleting(r)
    /\ Rec(w, [r EXCEPT !.host = r.hostname,
                        !.step = IF r.hostname = None THEN "patch" ELSE "loop"])
    /\ swallowed' = swallowed \ {r.claim}
    /\ UNCHANGED <<clientVars, k8sVars, apiFaults>>

\* getHostname in ReleaseAddress, and its check for an empty list of subnets.
ReleaseHostname(w) ==
    LET r == rec[w]
        h == GetHostname(r)
    IN
    /\ r.step = "hostname" /\ Deleting(r)
    /\ \/ ResolverFails(r) /\ Rec(w, [r EXCEPT !.step = "patch"])
       \/ /\ UNCHANGED apiFaults
          /\ Rec(w, [r EXCEPT !.host = h,
                              !.step = IF h = None \/ SubnetsOf(w) = <<>>
                                       THEN "patch" ELSE "loop"])
    /\ swallowed' = swallowed \ {r.claim}
    /\ UNCHANGED <<clientVars, k8sVars>>

----------------------------------------------------------------------------
(* The loops over the pool's subnets *)

InLoop(w) == rec[w].step = "loop" /\ rec[w].i <= Len(SubnetsOf(w))

\* An entry that does not parse is skipped.
SkipSubnet(w) ==
    /\ InLoop(w)
    /\ SubnetsOf(w)[rec[w].i] \in InvalidCIDRs
    /\ Rec(w, [rec[w] EXCEPT !.i = @ + 1])
    /\ UNCHANGED <<clientVars, k8sVars, swallowed, apiFaults>>

\* Mutant of CallClient: the error of ParsePrefix is not looked at.
CallClientUnparsed(w) ==
    LET r == rec[w] IN
    /\ InLoop(w)
    /\ Begin(w, IF Deleting(r) THEN "release" ELSE "allocate",
             PoolView[Pool(w)], r.host, SubnetsOf(w)[r.i])
    /\ Rec(w, [r EXCEPT !.step = "call"])
    /\ UNCHANGED <<hostRecords, foreign, faults, k8sVars, swallowed, apiFaults>>

\* GetOrAllocateAddress or ReleaseAddress of the client is called.
CallClient(w) ==
    LET r == rec[w] IN
    /\ InLoop(w)
    /\ SubnetsOf(w)[r.i] \in Subnets
    /\ Begin(w, IF Deleting(r) THEN "release" ELSE "allocate",
             PoolView[Pool(w)], r.host, SubnetsOf(w)[r.i])
    /\ Rec(w, [r EXCEPT !.step = "call"])
    /\ UNCHANGED <<hostRecords, foreign, faults, k8sVars, swallowed, apiFaults>>

\* Mutant of AllocateReturns: the claim is Ready before the error is looked at.
AllocateReturnsReady(w) ==
    LET r == rec[w] IN
    /\ r.step = "call" /\ ~Deleting(r)
    /\ EndCall(w)
    /\ Rec(w, [r EXCEPT !.step = IF call[w].err THEN "patch" ELSE "writeAddress",
                        !.addr = call[w].addr, !.ready = "AddressAllocated"])
    /\ UNCHANGED <<k8sVars, swallowed, apiFaults>>

\* Mutant of AllocateReturns: the first error ends the loop.
AllocateReturnsFirst(w) ==
    LET r == rec[w] IN
    /\ r.step = "call" /\ ~Deleting(r)
    /\ EndCall(w)
    /\ Rec(w, IF call[w].err THEN [r EXCEPT !.step = "patch", !.ready = "AllocationFailed"]
              ELSE [r EXCEPT !.step = "writeAddress", !.addr = call[w].addr,
                             !.ready = "AddressAllocated"])
    /\ UNCHANGED <<k8sVars, swallowed, apiFaults>>

\* EnsureAddress: the first success ends the loop, any error moves on to the
\* next subnet.
AllocateReturns(w) ==
    LET r == rec[w] IN
    /\ r.step = "call" /\ ~Deleting(r)
    /\ EndCall(w)
    /\ \/ call[w].err /\ Rec(w, [r EXCEPT !.step = "loop", !.i = @ + 1])
       \/ /\ ~call[w].err
          /\ Rec(w, [r EXCEPT !.step = "writeAddress", !.addr = call[w].addr,
                              !.ready = "AddressAllocated"])
    /\ UNCHANGED <<k8sVars, swallowed, apiFaults>>

\* Mutant of ReleaseReturns: the loop ends with the first released address.
ReleaseReturnsFirst(w) ==
    LET r == rec[w] IN
    /\ r.step = "call" /\ Deleting(r)
    /\ EndCall(w)
    /\ Rec(w, [r EXCEPT !.step = "loop", !.i = IF call[w].err THEN @ + 1
                                               ELSE Len(SubnetsOf(w)) + 1])
    /\ swallowed' = IF call[w].err THEN swallowed \cup {r.claim} ELSE swallowed
    /\ UNCHANGED <<k8sVars, apiFaults>>

\* ReleaseAddress: every subnet is tried, and errors are only logged.
ReleaseReturns(w) ==
    LET r == rec[w] IN
    /\ r.step = "call" /\ Deleting(r)
    /\ EndCall(w)
    /\ Rec(w, [r EXCEPT !.step = "loop", !.i = @ + 1])
    /\ swallowed' = IF call[w].err THEN swallowed \cup {r.claim} ELSE swallowed
    /\ UNCHANGED <<k8sVars, apiFaults>>

\* All subnets were tried: an allocation has failed, a release is finished.
LoopEnds(w) ==
    LET r == rec[w] IN
    /\ r.step = "loop" /\ r.i > Len(SubnetsOf(w))
    /\ Rec(w, IF Deleting(r) THEN [r EXCEPT !.step = "deleteAddress"]
              ELSE [r EXCEPT !.step = "patch", !.ready = "AllocationFailed"])
    /\ UNCHANGED <<clientVars, k8sVars, swallowed, apiFaults>>

----------------------------------------------------------------------------
(* The writes at the end of a reconciliation *)

\* CreateOrPatch of the IPAddress with the address of EnsureAddress.
WriteAddress(w) ==
    LET r == rec[w] IN
    /\ r.step = "writeAddress"
    /\ \/ ApiFault /\ UNCHANGED ipAddress
       \/ /\ ipAddress' = [ipAddress EXCEPT ![r.claim] = r.addr]
          /\ UNCHANGED apiFaults
    /\ Rec(w, [r EXCEPT !.step = "patch"])
    /\ UNCHANGED <<clientVars, claims, pools, ownerChain, swallowed>>

\* reconcileDelete: the IPAddress is deleted, then the finalizer dropped.
DeleteAddress(w) ==
    LET r == rec[w] IN
    /\ r.step = "deleteAddress"
    /\ \/ /\ ApiFault
          /\ Rec(w, [r EXCEPT !.step = "patch"])
          /\ UNCHANGED ipAddress
       \/ /\ ipAddress' = [ipAddress EXCEPT ![r.claim] = None]
          /\ Rec(w, [r EXCEPT !.step = "patch", !.finalizer = FALSE])
          /\ UNCHANGED apiFaults
    /\ UNCHANGED <<clientVars, claims, pools, ownerChain, swallowed>>

\* The claim as stored after the metadata (finalizer and annotation) and the
\* conditions of r were patched, or only one of the two, or none.
Patched(r, metadata, conditions) ==
    LET c == claims[r.claim] IN
    [phase     |-> IF metadata /\ c.phase = "deleting" /\ ~r.finalizer
                   THEN "released" ELSE c.phase,
     finalizer |-> IF metadata THEN r.finalizer ELSE c.finalizer,
     hostname  |-> IF metadata THEN r.hostname ELSE c.hostname,
     ready     |-> IF conditions THEN r.ready ELSE c.ready]

\* The deferred patch of the claim.  It sends metadata and conditions in
\* different requests, and does nothing if the claim has vanished.
PatchClaim(w) ==
    LET r == rec[w] IN
    /\ r.step = "patch"
    /\ \/ /\ claims[r.claim].phase = "vanished"
          /\ UNCHANGED <<claims, apiFaults>>
       \/ /\ claims[r.claim].phase # "vanished"
          /\ \/ /\ claims' = [claims EXCEPT ![r.claim] = Patched(r, TRUE, TRUE)]
                /\ UNCHANGED apiFaults
             \/ /\ \E m, k \in BOOLEAN :
                     /\ ~(m /\ k)
                     /\ claims' = [claims EXCEPT ![r.claim] = Patched(r, m, k)]
                /\ ApiFault
    /\ Rec(w, NoRec)
    /\ UNCHANGED <<clientVars, ipAddress, pools, ownerChain, swallowed>>

\* The manager dies; memory is lost, stored objects and Infoblox are not.
Crash ==
    /\ CrashClient
    /\ rec' = [w \in Workers |-> NoRec]
    /\ UNCHANGED <<k8sVars, swallowed, apiFaults>>

----------------------------------------------------------------------------
(* Users, Cluster API and the pool controller *)

CreateClaim(c, h) ==
    /\ claims[c].phase = "absent"
    /\ claims' = [claims EXCEPT ![c] = [@ EXCEPT !.phase = "live", !.hostname = h]]
    /\ UNCHANGED <<clientVars, ipAddress, pools, ownerChain, rec, swallowed, apiFaults>>

DeleteClaim(c) ==
    /\ claims[c].phase = "live"
    /\ claims' = [claims EXCEPT ![c] =
                     [@ EXCEPT !.phase = IF claims[c].finalizer THEN "deleting" ELSE "vanished"]]
    /\ UNCHANGED <<clientVars, ipAddress, pools, ownerChain, rec, swallowed, apiFaults>>

\* An object between the claim and its Machine is deleted.
OwnerChainBreaks(c) ==
    /\ claims[c].phase \in {"live", "deleting"}
    /\ HasZone[PoolOf[c]]
    /\ ownerChain[c]
    /\ ownerChain' = [ownerChain EXCEPT ![c] = FALSE]
    /\ UNCHANGED <<clientVars, claims, ipAddress, pools, rec, swallowed, apiFaults>>

SetPool(p, pool) ==
    /\ pools' = [pools EXCEPT ![p] = pool]
    /\ UNCHANGED <<clientVars, claims, ipAddress, ownerChain, rec, swallowed>>

\* FetchPool accepts the pool.
PoolUsable(p) == pools[p].present /\ pools[p].ready # "False" /\ ~pools[p].paused

\* The pool becomes usable again: recreated, Ready, no longer paused.
PoolRecovers(p) ==
    /\ ~PoolUsable(p)
    /\ SetPool(p, [present |-> TRUE, ready |-> "True", paused |-> FALSE])
    /\ UNCHANGED apiFaults

\* The pool controller finds a problem, or someone pauses the pool.
PoolDegrades(p) ==
    /\ pools[p].present
    /\ ApiFault
    /\ \/ SetPool(p, [pools[p] EXCEPT !.ready = "False"])
       \/ SetPool(p, [pools[p] EXCEPT !.paused = TRUE])

\* The pool is deleted.  Its finalizer does not rule that out while it has
\* claims: it may be missing, and its removal races with them (InfobloxIPPool).
PoolGoes(p) ==
    /\ pools[p].present
    /\ ApiFault
    /\ SetPool(p, [present |-> FALSE, ready |-> "Unknown", paused |-> FALSE])

----------------------------------------------------------------------------

HandlerStep(w) ==
    \/ FetchPool(w) \/ EnsureHostname(w) \/ ReleaseHostname(w)
    \/ SkipSubnet(w) \/ CallClient(w) \/ AllocateReturns(w) \/ ReleaseReturns(w)
    \/ LoopEnds(w) \/ WriteAddress(w) \/ DeleteAddress(w) \/ PatchClaim(w)

InfobloxStep(w) ==
    /\ WapiStep(w)
    /\ UNCHANGED <<k8sVars, rec, swallowed, apiFaults>>

Foreigners == ForeignStep /\ UNCHANGED <<k8sVars, rec, swallowed, apiFaults>>

ClaimNext ==
    \/ \E w \in Workers : HandlerStep(w) \/ InfobloxStep(w) \/ \E c \in Claims : Start(w, c)
    \/ Crash
    \/ Foreigners
    \/ \E c \in Claims :
          \/ \E h \in Presets \cup {None} : CreateClaim(c, h)
          \/ DeleteClaim(c)
          \/ OwnerChainBreaks(c)
    \/ \E p \in Pools : PoolRecovers(p) \/ PoolDegrades(p) \/ PoolGoes(p)

\* A worker goes on with its reconciliation, and the work queue, which is
\* first-in-first-out and refilled by events, by requeues after errors and by
\* the resync, gets to every existing claim again and again.
Fairness ==
    /\ \A w \in Workers : WF_claimVars(HandlerStep(w) \/ InfobloxStep(w))
    /\ \A c \in Claims : SF_claimVars(\E w \in Workers : Start(w, c))

ClaimSpec == ClaimInit /\ [][ClaimNext]_claimVars

FairClaimSpec == ClaimSpec /\ Fairness

----------------------------------------------------------------------------
(* Properties *)

\* A reconciliation that is under way has a claim, and a host name from the
\* point on where it needs one.
RecOK(r) ==
    /\ r.step # "idle" => r.claim \in Claims
    /\ r.step \in {"loop", "call"} => r.host \in Hosts

ClaimTypeOK ==
    /\ TypeOK
    /\ claims \in [Claims -> ClaimType]
    /\ ipAddress \in [Claims -> Addrs \cup {None}]
    /\ pools \in [Pools -> PoolType]
    /\ ownerChain \in [Claims -> BOOLEAN]
    /\ rec \in [Workers -> RecType]
    /\ \A w \in Workers : RecOK(rec[w])
    /\ swallowed \subseteq Claims
    /\ apiFaults \in 0 .. MaxApiFaults

\* The host name a claim is or will be served under.
HostOf(c) ==
    IF claims[c].hostname # None THEN claims[c].hostname
    ELSE IF HasZone[PoolOf[c]] THEN MachineName[c]
    ELSE ClaimName[c]

ValidSubnets(p) == {PoolSubnets[p][i] : i \in 1 .. Len(PoolSubnets[p])} \cap Subnets

PoolAddrs(p) == UNION {AddrsIn[s] : s \in ValidSubnets(p)}

\* What a claim's host holds in Infoblox that came from the claim's pool.
Holds(c) ==
    PoolAddrs(PoolOf[c])
        \cap UNION {hostRecords[u][HostOf(c)] : u \in Matching(PoolView[PoolOf[c]], HostOf(c))}

\* Two claims are rivals if the same addresses of the same record serve both.
Rivals(c, d) ==
    LET p == PoolOf[c]
        q == PoolOf[d]
    IN
    /\ HostOf(c) = HostOf(d)
    /\ ValidSubnets(p) \cap ValidSubnets(q) # {}
    /\ PoolView[p] = PoolView[q] \/ None \in {PoolView[p], PoolView[q]}

Alone(c) == \A d \in Claims \ {c} : ~Rivals(c, d)

\* The IPAddress of a live claim names an address its host record holds: no
\* retry, lost answer, crash or other claim takes it away.
BoundAddressHeld ==
    \A c \in Claims :
        Alone(c) /\ claims[c].phase = "live" /\ ipAddress[c] # None => ipAddress[c] \in Holds(c)

\* A live claim that reports Ready with reason AddressAllocated really has an
\* address in Infoblox, even if writing the IPAddress failed afterwards.
ReadyClaimHolds ==
    \A c \in Claims :
        Alone(c) /\ claims[c].phase = "live" /\ claims[c].ready = "AddressAllocated" => Holds(c) # {}

\* Claims with the same host name on different subnets share a host record,
\* claims with different names share a subnet; in neither case do two live
\* claims of a view have the same address.  Pools without a view are left out:
\* their claims' records may be in different views.
NoDoubleAssignment ==
    \A c, d \in Claims :
        /\ c # d /\ Alone(c) /\ Alone(d)
        /\ claims[c].phase = "live" /\ claims[d].phase = "live"
        /\ PoolView[PoolOf[c]] = PoolView[PoolOf[d]] /\ PoolView[PoolOf[c]] # None
        /\ ipAddress[c] # None
        => ipAddress[c] # ipAddress[d]

\* A claim's finalizer is dropped only after every address the claim had in
\* any of the pool's subnets is free, unless ReleaseAddress dropped an error.
\* That includes addresses of allocations the controller never heard back from.
NoLeakWithoutError ==
    \A c \in Claims :
        claims[c].phase = "released" /\ Alone(c) /\ c \notin swallowed => Holds(c) = {}

\* The claim controller uses the client as the client's specification expects.
ImplementsClient == ClientSpec

\* The host name can be told: from the annotation, the claim's own name, or
\* the owner chain.
HostnameKnown(c) ==
    claims[c].hostname # None \/ ~HasZone[PoolOf[c]] \/ ownerChain[c]

\* A deleted claim goes away once its pool stays usable, as long as its host
\* name can be told.
DeletionCompletes ==
    \A c \in Claims :
        <>[](PoolUsable(PoolOf[c]) /\ HostnameKnown(c)) =>
            (claims[c].phase = "deleting" ~> claims[c].phase = "released")

\* Subnet n has an address for the claim: one its host holds, or a free one in
\* the view of its record.
Supply(c, n) ==
    LET v == PoolView[PoolOf[c]] IN
    \/ Holds(c) # {}
    \/ NextAvailable(v, n) # {} /\ Matching(v, HostOf(c)) \subseteq {ViewOf(v)}

\* A live claim gets its IPAddress once its pool stays usable and one of the
\* pool's subnets stays able to serve it, whatever happens in the others.
ClaimIsServed ==
    \A c \in Claims : \A n \in ValidSubnets(PoolOf[c]) :
        <>[](/\ PoolUsable(PoolOf[c]) /\ HostnameKnown(c)
            /\ HostOf(c) \in InZone[PoolOf[c]] /\ Supply(c, n)) =>
            (claims[c].phase = "live" ~> (claims[c].phase # "live" \/ ipAddress[c] # None))

----------------------------------------------------------------------------
(* Statements of the documentation and of comments that the code breaks *)

\* "we store it as an annotation on the claim, and retrieve it during deletion
\* to delete the infoblox record" (ipaddressclaim.go:260-261): a claim whose
\* deletion is complete has no address left in Infoblox.
ReleasedMeansFreed ==
    \A c \in Claims : claims[c].phase = "released" /\ Alone(c) => Holds(c) = {}

\* "Since we can't guarantee that resolving the hostname during machine
\* deletion will succeed, we store it as an annotation on the claim"
\* (ipaddressclaim.go:260-261): deletion does not depend on the owner chain.
DeletionNeedsNoMachine ==
    \A c \in Claims :
        <>[]PoolUsable(PoolOf[c]) =>
            (claims[c].phase = "deleting" ~> claims[c].phase = "released")

\* "If multiple subnets are specified, the host record will be created in the
\* first subnet with available IP addresses." (README.md:86): a claim takes an
\* address from one of the pool's subnets, not from several.
OneAddressPerClaim == \A c \in Claims : Cardinality(Holds(c)) <= 1

\* "whenever `IPAddressClaim` that references `example-pool` will be created, a
\* host record will be created in the subnet specified by the pool [...] to
\* allocate an IP Address" (README.md:84): every live claim has its IPAddress
\* backed by Infoblox, whatever other claims there are.
EveryBoundAddressHeld ==
    \A c \in Claims :
        claims[c].phase = "live" /\ ipAddress[c] # None => ipAddress[c] \in Holds(c)
=============================================================================
