------------------------- MODULE MCClaimReconciler -------------------------
(* Instances of ClaimReconciler for TLC.  Each .cfg picks the claims and    *)
(* the pools it needs from the functions defined here.                      *)
EXTENDS ClaimReconciler, TLC

CONSTANTS
    c1, c2,             \* claims
    pool1, pool2,       \* pools
    h1, h2,             \* host names
    s1, s2, bad,        \* two subnets and an entry that does not parse
    a1, a2, b1          \* addresses

MCSubnets == {s1, s2}
MCAddrs == {a1, a2, b1}
MCAddrsIn == (s1 :> {a1, a2}) @@ (s2 :> {b1})
MCAddrsInSmall == (s1 :> {a1}) @@ (s2 :> {b1})

\* Two claims of one machine, one from each of two pools with other subnets:
\* both are served by the same host record.
MachinePoolOf == [c \in Claims |-> IF c = c1 THEN pool1 ELSE pool2]
MachinePoolSubnets == (pool1 :> <<s1>>) @@ (pool2 :> <<bad, s2>>)
OneName == [c \in Claims |-> h1]

\* Claims with the same name in two namespaces, each with a pool of its
\* namespace; both pools use the same subnet.
SameSubnet == [p \in Pools |-> <<s1>>]

\* Two claims with names of their own from one pool with both subnets.
SharedPoolOf == [c \in Claims |-> pool1]
SharedPoolSubnets == (pool1 :> <<s1, s2>>)
OwnNames == [c \in Claims |-> IF c = c1 THEN h1 ELSE h2]

\* What the pools of an instance have in common.
Zoned == [p \in Pools |-> TRUE]
Unzoned == [p \in Pools |-> FALSE]
InDefaultView == [p \in Pools |-> DefaultView]
NoView == [p \in Pools |-> None]
OnlyH1 == [p \in Pools |-> {h1}]
AllHosts == [p \in Pools |-> Hosts]
============================================================================
