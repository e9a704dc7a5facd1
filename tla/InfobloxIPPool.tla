--------------------------- MODULE InfobloxIPPool ---------------------------
(***************************************************************************)
(* The life of one InfobloxIPPool: the pool controller of                  *)
(* src/internal/controllers/infobloxippool.go, the deletion webhook of     *)
(* src/internal/webhooks/infobloxippool.go, and the claims that use the    *)
(* pool meanwhile.                                                         *)
(*                                                                         *)
(* The controllers of pools and of claims run concurrently and share only  *)
(* the stored pool.  The pool controller works on a copy; it stores the    *)
(* Ready condition first and the finalizer and the network view in a       *)
(* second request, each as the difference to what it read.                 *)
(*                                                                         *)
(* The claim controller of ClaimReconciler appears with three steps: it    *)
(* reads the pool, makes one change in Infoblox (InfobloxClientProofs      *)
(* shows that the client's calls amount to single changes), and stores the *)
(* outcome.                                                                *)
(***************************************************************************)
EXTENDS Naturals, FiniteSets

CONSTANTS
    NetworkViews,   \* the network views of the Infoblox grid
    DefaultView,    \* the one the server uses when a request names none
    InstanceView,   \* spec.defaultNetworkView of the pool's InfobloxInstance
    SpecViews,      \* what spec.networkView may be when the pool is created
    Claims,         \* the IPAddressClaims that reference the pool
    None,           \* the empty string
    MaxTroubles,    \* bound on how often something breaks in Infoblox
    MaxEdits,       \* bound on changes of spec.networkView by users
    MaxFaults       \* bound on failed API requests, failed releases and crashes

ASSUME PoolAssumption ==
    /\ None \notin NetworkViews
    /\ None \notin Claims
    /\ DefaultView \in NetworkViews
    /\ InstanceView \in NetworkViews \cup {None}
    /\ SpecViews \subseteq NetworkViews \cup {None}
    /\ MaxTroubles \in Nat
    /\ MaxEdits \in Nat
    /\ MaxFaults \in Nat

VARIABLES
    pool,       \* the stored pool
    prec,       \* the pool controller's reconciliation: what it read, what it made of it
    broken,     \* the checks of the pool controller that fail at present
    troubles,   \* how often something broke
    edits,      \* how often a user changed the view
    claims,     \* claims[c]: the stored claim
    held,       \* held[c]: the views in which Infoblox has an address for c
    crec,       \* the claim controller's reconciliation
    swallowed,  \* claims whose last ReleaseAddress dropped an error
    faults      \* failures so far

poolVars == <<pool, prec, edits>>
claimVars == <<claims, held, crec, swallowed>>
vars == <<poolVars, broken, troubles, claimVars, faults>>

\* What can be wrong: the instance or its secret, the views, the networks, and
\* an entry of spec.subnets that does not parse.
Checks == {"instance", "networkView", "dnsView", "cidr", "network"}

NotReady ==
    {"AuthenticationFailed", "NetworkViewNotFound", "DNSViewNotFound", "NetworkNotFound"}

\* explicit is the view the user last asked for.
PoolType ==
    [phase : {"absent", "live", "deleting", "gone"}, finalizer : BOOLEAN,
     view : NetworkViews \cup {None}, ready : {"Unknown", "True"} \cup NotReady,
     explicit : NetworkViews \cup {None}]

NoPool ==
    [phase |-> "absent", finalizer |-> FALSE, view |-> None, ready |-> "Unknown",
     explicit |-> None]

NoRec == [step |-> "idle", old |-> NoPool, new |-> NoPool]

RecType ==
    [step : {"idle", "client", "networkView", "dnsView", "network", "listClaims",
             "patchConditions", "patchSpec"},
     old : PoolType, new : PoolType]

\* late: the claim was created when the pool was already being deleted.
ClaimType ==
    [phase : {"absent", "live", "deleting", "released", "vanished"}, finalizer : BOOLEAN,
     address : BOOLEAN, late : BOOLEAN]

NoClaimRec == [step |-> "idle", claim |-> None, release |-> FALSE, view |-> None, ok |-> FALSE]

ClaimRecType ==
    [step : {"idle", "infoblox", "store"}, claim : Claims \cup {None}, release : BOOLEAN,
     view : NetworkViews \cup {None}, ok : BOOLEAN]

Init ==
    /\ pool = NoPool
    /\ prec = NoRec
    /\ broken = {}
    /\ troubles = 0
    /\ edits = 0
    /\ claims = [c \in Claims |-> [phase |-> "absent", finalizer |-> FALSE,
                                   address |-> FALSE, late |-> FALSE]]
    /\ held = [c \in Claims |-> {}]
    /\ crec = NoClaimRec
    /\ swallowed = {}
    /\ faults = 0

Exists(c) == claims[c].phase \in {"live", "deleting"}

Fault == faults < MaxFaults /\ faults' = faults + 1

----------------------------------------------------------------------------
(* The pool controller *)

PoolRec(step, new) == prec' = [prec EXCEPT !.step = step, !.new = new]

\* Reconcile reads the pool.  A live pool without the finalizer gets it and
\* nothing else happens this time; a deleted one only looks for its claims.
Reconcile ==
    /\ prec.step = "idle"
    /\ pool.phase \in {"live", "deleting"}
    /\ LET add == pool.phase = "live" /\ ~pool.finalizer
           step == IF add THEN "patchConditions"
                   ELSE IF pool.phase = "deleting" THEN "listClaims" ELSE "client"
       IN prec' = [step |-> step, old |-> pool,
                   new |-> [pool EXCEPT !.finalizer = IF add THEN TRUE ELSE @]]
    /\ UNCHANGED <<pool, edits, broken, troubles, claimVars, faults>>

\* Mutant of ListClaims: the IPAddresses are looked for, as in the webhook.
ListAddresses ==
    /\ prec.step = "listClaims"
    /\ PoolRec("patchConditions", [prec.new EXCEPT !.finalizer = \E c \in Claims : claims[c].address])
    /\ UNCHANGED <<pool, edits, broken, troubles, claimVars, faults>>

\* Mutant of ListClaims: the finalizer stays.
ListClaimsOnly ==
    /\ prec.step = "listClaims"
    /\ PoolRec("patchConditions", prec.new)
    /\ UNCHANGED <<pool, edits, broken, troubles, claimVars, faults>>

\* The finalizer is dropped if no claim references the pool; otherwise, and if
\* the list request fails, the reconciliation ends with an error.
ListClaims ==
    /\ prec.step = "listClaims"
    /\ \/ /\ \A c \in Claims : ~Exists(c)
          /\ PoolRec("patchConditions", [prec.new EXCEPT !.finalizer = FALSE])
          /\ UNCHANGED faults
       \/ /\ \E c \in Claims : Exists(c)
          /\ PoolRec("patchConditions", prec.new)
          /\ UNCHANGED faults
       \/ Fault /\ PoolRec("patchConditions", prec.new)
    /\ UNCHANGED <<pool, edits, broken, troubles, claimVars>>

\* Mutant of ResolveView: the instance's view wins.
ResolveInstanceView(v) == InstanceView

\* An empty network view is replaced by the one of the instance.
ResolveView(v) == IF v = None THEN InstanceView ELSE v

\* A failing check sets the Ready condition to False, an entry that does not
\* parse leaves it alone; both end the reconciliation.
CheckFails(check, ready) ==
    /\ check \in broken
    /\ PoolRec("patchConditions", [prec.new EXCEPT !.ready = ready])

CheckPasses(check, step, new) ==
    /\ check \notin broken
    /\ PoolRec(step, new)

CheckClient ==
    /\ prec.step = "client"
    /\ \/ CheckFails("instance", "AuthenticationFailed")
       \/ CheckPasses("instance", "networkView", [prec.new EXCEPT !.view = ResolveView(@)])
    /\ UNCHANGED <<pool, edits, broken, troubles, claimVars, faults>>

CheckNetworkView ==
    /\ prec.step = "networkView"
    /\ \/ CheckFails("networkView", "NetworkViewNotFound")
       \/ CheckPasses("networkView", "dnsView", prec.new)
    /\ UNCHANGED <<pool, edits, broken, troubles, claimVars, faults>>

CheckDNSView ==
    /\ prec.step = "dnsView"
    /\ \/ CheckFails("dnsView", "DNSViewNotFound")
       \/ CheckPasses("dnsView", "network", prec.new)
    /\ UNCHANGED <<pool, edits, broken, troubles, claimVars, faults>>

\* Mutant of CheckNetworks: a pool that is not Ready is left as it is.
CheckNetworksOnce ==
    /\ prec.step = "network"
    /\ PoolRec("patchConditions",
               [prec.new EXCEPT !.ready = IF "network" \in broken THEN "NetworkNotFound"
                                          ELSE IF @ \in NotReady THEN @ ELSE "True"])
    /\ UNCHANGED <<pool, edits, broken, troubles, claimVars, faults>>

CheckNetworks ==
    /\ prec.step = "network"
    /\ \/ CheckFails("cidr", prec.new.ready)
       \/ CheckFails("network", "NetworkNotFound")
       \/ /\ "cidr" \notin broken
          /\ CheckPasses("network", "patchConditions", [prec.new EXCEPT !.ready = "True"])
    /\ UNCHANGED <<pool, edits, broken, troubles, claimVars, faults>>

\* The deferred Patch: the conditions are sent first.
PatchConditions ==
    /\ prec.step = "patchConditions"
    /\ \/ /\ pool' = IF pool.phase = "gone" THEN pool ELSE [pool EXCEPT !.ready = prec.new.ready]
          /\ UNCHANGED faults
       \/ Fault /\ UNCHANGED pool
    /\ prec' = [prec EXCEPT !.step = "patchSpec"]
    /\ UNCHANGED <<edits, broken, troubles, claimVars>>

\* What differs between new and old is written, whatever is stored now.
Merged ==
    LET changed(a, b, stored) == IF a # b THEN b ELSE stored IN
    [pool EXCEPT !.finalizer = changed(prec.old.finalizer, prec.new.finalizer, @),
                 !.view = changed(prec.old.view, prec.new.view, @)]

\* Then the finalizer and the view.  A deleted pool without finalizers goes.
PatchSpec ==
    /\ prec.step = "patchSpec"
    /\ \/ /\ pool' = IF pool.phase = "gone" THEN pool
                     ELSE [Merged EXCEPT !.phase = IF @ = "deleting" /\ ~Merged.finalizer
                                                   THEN "gone" ELSE @]
          /\ UNCHANGED faults
       \/ Fault /\ UNCHANGED pool
    /\ prec' = NoRec
    /\ UNCHANGED <<edits, broken, troubles, claimVars>>

----------------------------------------------------------------------------
(* The claim controller *)

ViewOf(v) == IF v = None THEN DefaultView ELSE v

\* The views in which a query restricted to v, unless v is empty, finds the
\* claim's host record.
Matching(v, c) == IF v = None THEN held[c] ELSE held[c] \cap {v}

\* FetchPool passes: the pool exists and its Ready condition is not False.
FetchPoolPasses ==
    /\ pool.phase \in {"live", "deleting"}
    /\ pool.ready \notin NotReady
    /\ "instance" \notin broken

\* Mutant of FetchPool: a failure loses the claim.
FetchPoolForgets(c) ==
    LET release == claims[c].phase = "deleting" IN
    /\ crec.step = "idle"
    /\ Exists(c)
    /\ crec' = IF FetchPoolPasses
               THEN [step |-> "infoblox", claim |-> c, release |-> release,
                     view |-> pool.view, ok |-> FALSE]
               ELSE [NoClaimRec EXCEPT !.step = "store"]
    /\ UNCHANGED <<poolVars, broken, troubles, claims, held, swallowed, faults>>

\* The claim and its pool are read.  If FetchPool fails, only the claim's
\* finalizer is stored.
FetchPool(c) ==
    LET release == claims[c].phase = "deleting" IN
    /\ crec.step = "idle"
    /\ Exists(c)
    /\ \/ /\ FetchPoolPasses
          /\ crec' = [step |-> "infoblox", claim |-> c, release |-> release,
                      view |-> pool.view, ok |-> FALSE]
       \/ /\ ~FetchPoolPasses /\ ~release
          /\ crec' = [NoClaimRec EXCEPT !.step = "store", !.claim = c]
    /\ UNCHANGED <<poolVars, broken, troubles, claims, held, swallowed, faults>>

\* EnsureAddress: the address found, or a new one.
EnsureAddress ==
    LET c == crec.claim
        m == Matching(crec.view, c)
    IN
    /\ crec.step = "infoblox" /\ ~crec.release
    /\ \/ /\ Cardinality(m) <= 1
          /\ held' = [held EXCEPT ![c] = IF m = {} THEN @ \cup {ViewOf(crec.view)} ELSE @]
          /\ crec' = [crec EXCEPT !.step = "store", !.ok = TRUE]
          /\ UNCHANGED faults
       \/ /\ (Cardinality(m) > 1 /\ UNCHANGED faults) \/ Fault
          /\ crec' = [crec EXCEPT !.step = "store"]
          /\ UNCHANGED held
    /\ UNCHANGED <<poolVars, broken, troubles, claims, swallowed>>

\* ReleaseAddress: errors are dropped.
ReleaseAddress ==
    LET c == crec.claim
        m == Matching(crec.view, c)
    IN
    /\ crec.step = "infoblox" /\ crec.release
    /\ \/ /\ Cardinality(m) <= 1
          /\ held' = [held EXCEPT ![c] = @ \ m]
          /\ swallowed' = swallowed \ {c}
          /\ UNCHANGED faults
       \/ /\ Cardinality(m) > 1
          /\ swallowed' = swallowed \cup {c}
          /\ UNCHANGED <<held, faults>>
       \/ Fault /\ swallowed' = swallowed \cup {c} /\ UNCHANGED held
    /\ crec' = [crec EXCEPT !.step = "store", !.ok = TRUE]
    /\ UNCHANGED <<poolVars, broken, troubles, claims>>

\* The claim as stored: after EnsureAddress with its IPAddress, after
\* ReleaseAddress without IPAddress and finalizer.
Stored(claim) ==
    [claim EXCEPT !.finalizer = ~crec.release,
                  !.address = IF crec.ok THEN ~crec.release ELSE @,
                  !.phase = IF crec.release THEN "released" ELSE @]

\* The IPAddress is written or deleted and the claim patched, if it is there.
StoreClaim ==
    LET c == crec.claim IN
    /\ crec.step = "store"
    /\ \/ /\ claims' = [claims EXCEPT ![c] = IF @.phase = "vanished" THEN @ ELSE Stored(@)]
          /\ UNCHANGED faults
       \/ Fault /\ UNCHANGED claims
    /\ crec' = NoClaimRec
    /\ UNCHANGED <<poolVars, broken, troubles, held, swallowed>>

----------------------------------------------------------------------------
(* Users and the environment *)

CreatePool(v) ==
    /\ pool.phase = "absent"
    /\ pool' = [NoPool EXCEPT !.phase = "live", !.view = v, !.explicit = v]
    /\ UNCHANGED <<prec, edits, broken, troubles, claimVars, faults>>

\* ValidateUpdate compares nothing with the old pool, so the view can change.
EditView(v) ==
    /\ pool.phase = "live"
    /\ edits < MaxEdits
    /\ edits' = edits + 1
    /\ pool' = [pool EXCEPT !.view = v, !.explicit = v]
    /\ UNCHANGED <<prec, broken, troubles, claimVars, faults>>

\* ValidateDelete refuses while there are IPAddresses, unless it is skipped: the
\* user has set the annotation, or the API server does not ask the webhook
\* (see PoolValidation).
DeletePool(skip) ==
    /\ pool.phase = "live"
    /\ skip \/ \A c \in Claims : ~claims[c].address
    /\ pool' = [pool EXCEPT !.phase = IF pool.finalizer THEN "deleting" ELSE "gone"]
    /\ UNCHANGED <<prec, edits, broken, troubles, claimVars, faults>>

CreateClaim(c) ==
    /\ claims[c].phase = "absent"
    /\ claims' = [claims EXCEPT ![c].phase = "live",
                                ![c].late = pool.phase \in {"deleting", "gone"}]
    /\ UNCHANGED <<poolVars, broken, troubles, held, crec, swallowed, faults>>

DeleteClaim(c) ==
    /\ claims[c].phase = "live"
    /\ claims' = [claims EXCEPT ![c].phase = IF claims[c].finalizer THEN "deleting" ELSE "vanished"]
    /\ UNCHANGED <<poolVars, broken, troubles, held, crec, swallowed, faults>>

\* Something the checks look at disappears or becomes unreachable, and is
\* there again.
Break(x) ==
    /\ x \notin broken
    /\ troubles < MaxTroubles
    /\ troubles' = troubles + 1
    /\ broken' = broken \cup {x}
    /\ UNCHANGED <<poolVars, claimVars, faults>>

Repair(x) ==
    /\ x \in broken
    /\ broken' = broken \ {x}
    /\ UNCHANGED <<poolVars, troubles, claimVars, faults>>

\* The manager runs both controllers; both lose what they have in memory.
Crash ==
    /\ Fault
    /\ prec' = NoRec
    /\ crec' = NoClaimRec
    /\ UNCHANGED <<pool, edits, broken, troubles, claims, held, swallowed>>

----------------------------------------------------------------------------

PoolStep ==
    \/ ListClaims \/ CheckClient \/ CheckNetworkView \/ CheckDNSView \/ CheckNetworks
    \/ PatchConditions \/ PatchSpec

ClaimStep == EnsureAddress \/ ReleaseAddress \/ StoreClaim

Next ==
    \/ Reconcile
    \/ PoolStep
    \/ ClaimStep
    \/ \E c \in Claims : FetchPool(c) \/ CreateClaim(c) \/ DeleteClaim(c)
    \/ \E v \in SpecViews : CreatePool(v)
    \/ \E v \in NetworkViews : EditView(v)
    \/ \E skip \in BOOLEAN : DeletePool(skip)
    \/ \E x \in Checks : Break(x) \/ Repair(x)
    \/ Crash

Spec == Init /\ [][Next]_vars

\* The work queues get to every object again and again: errors are requeued,
\* and the resync covers the failed checks, which are not.
Fairness ==
    /\ WF_vars(Reconcile)
    /\ WF_vars(PoolStep)
    /\ WF_vars(ClaimStep)
    /\ \A c \in Claims : SF_vars(FetchPool(c))

FairSpec == Spec /\ Fairness

----------------------------------------------------------------------------
(* Properties *)

TypeOK ==
    /\ pool \in PoolType
    /\ prec \in RecType
    /\ broken \subseteq Checks
    /\ troubles \in 0 .. MaxTroubles
    /\ edits \in 0 .. MaxEdits
    /\ claims \in [Claims -> ClaimType]
    /\ held \in [Claims -> SUBSET NetworkViews]
    /\ crec \in ClaimRecType
    /\ crec.step # "idle" => crec.claim \in Claims
    /\ swallowed \subseteq Claims
    /\ faults \in 0 .. MaxFaults

\* A pool whose finalizer was stored stays until every claim that existed
\* before the pool was deleted is gone.
NoOrphanedClaim ==
    [][pool.phase = "deleting" /\ pool'.phase = "gone" =>
          \A c \in Claims : Exists(c) => claims[c].late]_vars

\* A user who names the network view when creating the pool and leaves it
\* alone loses no address: whatever the pool controller stores meanwhile, a
\* claim is released where it was served.
ExplicitViewNeverStrands ==
    pool.explicit # None /\ edits = 0 =>
        \A c \in Claims : claims[c].phase = "released" /\ c \notin swallowed => held[c] = {}

\* A live pool becomes Ready and stays so once nothing is wrong any more.
PoolBecomesReady ==
    <>[](broken = {} /\ pool.phase = "live") => <>[](pool.ready = "True")

\* A deleted pool goes once its claims are deleted, provided that its Ready
\* condition does not stay False and that Infoblox can be reached.
PoolDeletionCompletes ==
    <>[](/\ "instance" \notin broken
         /\ pool.ready \notin NotReady
         /\ \A c \in Claims : claims[c].phase # "live") =>
        (pool.phase = "deleting" ~> pool.phase = "gone")

----------------------------------------------------------------------------
(* Statements of comments and messages that the code breaks *)

\* "ProtectPoolFinalizer is used to prevent deletion of a Pool object while its
\* addresses have not been deleted." (infobloxippool.go:42)
PoolProtected ==
    [][pool.finalizer /\ ~pool'.finalizer => \A c \in Claims : ~claims[c].address]_vars

\* "InfobloxIPPools will inherit this value when not explicitly specifying a
\* network view." (infobloxinstance_types.go:49): without an explicit view,
\* addresses are taken from the instance's default view.
InheritsDefaultView ==
    pool.explicit = None /\ InstanceView # None =>
        \A c \in Claims : held[c] \subseteq {InstanceView}

\* "Cannot delete Pool until all IPAddresses and IPAddressClaims have been
\* removed" (infobloxippool.go:118): removing the claims is all it takes, given
\* that nothing is wrong with the instance and with Infoblox any more.
PoolGoesAfterItsClaims ==
    <>[](broken = {} /\ \A c \in Claims : claims[c].phase # "live") =>
        (pool.phase = "deleting" ~> pool.phase = "gone")
=============================================================================
