--------------------------- MODULE AddressLedger ---------------------------
(***************************************************************************)
(* What the Infoblox client promises to its callers: a ledger that says    *)
(* which host holds which addresses in which network view.  The detailed   *)
(* specification, InfobloxClient, performs each of these steps with        *)
(* several WAPI calls, any of which may fail or lose its answer.           *)
(*                                                                         *)
(* src/pkg/infoblox/client.go, interface Client (lines 27-40).             *)
(***************************************************************************)
CONSTANTS
    NetworkViews,   \* the network views of the Infoblox grid
    Hosts,          \* host names
    Subnets,        \* the subnets of all pools
    Addrs,          \* IP addresses
    AddrsIn         \* the addresses of each subnet (subnets are disjoint)

VARIABLES
    held,           \* held[v][h]: the addresses host h holds in view v
    foreign         \* foreign[v]: the addresses used in v by someone else

vars == <<held, foreign>>

\* Addresses of view v that cannot be handed out.
Used(v) == foreign[v] \cup UNION {held[v][h] : h \in Hosts}

Init ==
    /\ held = [v \in NetworkViews |-> [h \in Hosts |-> {}]]
    /\ foreign \in [NetworkViews -> SUBSET Addrs]

\* A host without an address in subnet s gets a free one.
Allocate(v, h, s, a) ==
    /\ held[v][h] \cap AddrsIn[s] = {}
    /\ a \in AddrsIn[s] \ Used(v)
    /\ held' = [held EXCEPT ![v][h] = @ \cup {a}]
    /\ UNCHANGED foreign

\* A host gives up one address and keeps all the others.
Release(v, h, a) ==
    /\ a \in held[v][h]
    /\ held' = [held EXCEPT ![v][h] = @ \ {a}]
    /\ UNCHANGED foreign

\* Other users of Infoblox take and free addresses.
ForeignTake(v, a) ==
    /\ a \in Addrs \ Used(v)
    /\ foreign' = [foreign EXCEPT ![v] = @ \cup {a}]
    /\ UNCHANGED held

ForeignFree(v, a) ==
    /\ a \in foreign[v]
    /\ foreign' = [foreign EXCEPT ![v] = @ \ {a}]
    /\ UNCHANGED held

Next ==
    \E v \in NetworkViews :
        \/ \E h \in Hosts, s \in Subnets, a \in Addrs : Allocate(v, h, s, a)
        \/ \E h \in Hosts, a \in Addrs : Release(v, h, a)
        \/ \E a \in Addrs : ForeignTake(v, a) \/ ForeignFree(v, a)

Spec == Init /\ [][Next]_vars

----------------------------------------------------------------------------

TypeOK ==
    /\ held \in [NetworkViews -> [Hosts -> SUBSET Addrs]]
    /\ foreign \in [NetworkViews -> SUBSET Addrs]

\* No address of a view is held by two hosts, or by a host and a foreigner.
\* The server guarantees it: it refuses a write that would break it.
Exclusive ==
    \A v \in NetworkViews, h \in Hosts :
        /\ held[v][h] \cap foreign[v] = {}
        /\ \A g \in Hosts \ {h} : held[v][h] \cap held[v][g] = {}

\* A host has at most one address in each subnet of a view, however often its
\* allocation is retried: "Client is a wrapper around the infoblox client that
\* can allocate and release addresses indempotently." (client.go:27).
OnePerSubnet ==
    \A v \in NetworkViews, h \in Hosts, s \in Subnets :
        \A a, b \in held[v][h] \cap AddrsIn[s] : a = b
============================================================================
