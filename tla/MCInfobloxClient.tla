-------------------------- MODULE MCInfobloxClient --------------------------
(* An instance of InfobloxClient for TLC: a subnet with two addresses and a *)
(* subnet with one, in two network views.                                   *)
EXTENDS InfobloxClient, TLC

CONSTANTS s1, s2, a1, a2, b1

MCSubnets == {s1, s2}
MCAddrs == {a1, a2, b1}
MCAddrsIn == (s1 :> {a1, a2}) @@ (s2 :> {b1})

\* Hosts are interchangeable, and so are the two addresses of s1.
Symmetry == Permutations(Hosts) \cup Permutations({a1, a2})
=============================================================================
