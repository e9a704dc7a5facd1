--------------------------- MODULE MCConfiguration ---------------------------
(* The parts that decide with what configuration addresses are allocated:    *)
(* the host name search, the instance controller and the admission of pools. *)
(* They share no state.  A behaviour is about one of them, its topic; the    *)
(* state of the others is fixed.                                             *)
EXTENDS HostnameResolver, InfobloxInstance, PoolValidation

CONSTANTS
    claim, x, y, z, m,  \* the objects that own each other
    nv, dv              \* a network view and a DNS view

VARIABLE topic

confVars == <<topic, resolverVars, instanceVars, validationVars>>

----------------------------------------------------------------------------
(* The instances *)

MCKindOf ==
    (claim :> "Other") @@ (x :> "InfraMachine") @@ (y :> "Infra") @@ (z :> "Other")
        @@ (m :> "Machine")

\* Lists of up to two different owners.
Owners(S) == {<<>>} \cup {<<o>> : o \in S} \cup {<<p[1], p[2]>> : p \in {q \in S \X S : q[1] # q[2]}}

\* Several owners of the claim, shared owners, cycles, and chains that are too
\* long.  The search does not look at the owners of a Machine.
MCOwnerGraphs ==
    {(claim :> c) @@ (x :> a) @@ (y :> b) @@ (z :> d) @@ (m :> <<>>) :
        c \in (Owners({x, y, z}) \ {<<>>}) \cup SetToSeqs({x, y, z}),
        a \in Owners({y, z, m}), b \in Owners({z, m}), d \in Owners({x, m})}

\* Any default views, and one other setting that is not the usual one: a host
\* with a port, another port, no verification, or a private authority.
MCInstanceSpecs ==
    {s \in InstanceSpecType :
        <<s.hostPorts, s.port, s.disableTLSVerification, s.customCAPath>> \in
            {<< <<>>, "443", FALSE, None>>, << <<"8443">>, "443", FALSE, None>>,
             << <<>>, "8443", FALSE, None>>, << <<>>, "443", TRUE, None>>,
             << <<>>, "443", FALSE, "ca.pem">>}}

MCSecrets ==
    {None, {}, {"username", "clientKey"}, {"username", "password"}, {"clientCert", "clientKey"}}

\* Infoblox works, is down, has a private certificate, another port, or lacks a
\* view.
MCServers ==
    LET works == [port |-> "443", certificate |-> "true", networkViews |-> {nv}, dnsViews |-> {dv}]
    IN {works, [works EXCEPT !.port = None], [works EXCEPT !.port = "8443"],
        [works EXCEPT !.certificate = "ca.pem"],
        [works EXCEPT !.networkViews = {}], [works EXCEPT !.dnsViews = {}]}

\* Pools with no, one or two subnets, the first of two of a small choice.
MCRequests ==
    LET subnets == [cidr : Texts \cup {Nothing}, gateway : Gateways \cup {Nothing}]
        few == {s \in subnets : s.gateway = "v4" /\ (s.cidr = Nothing \/ s.cidr \in
                   [family : {"v4"}, addr : {1}, bits : {0, Width}, spelling : {"canonical"}])}
        lists == {<<>>} \cup {<<s>> : s \in subnets} \cup {<<t, s>> : s \in {u \in subnets : u.gateway = "v4"}, t \in few}
    IN [subnets : lists, instanceRef : {"instance", Nothing}]

----------------------------------------------------------------------------
(* One part at a time *)

\* What the parts that are not the topic look like.
NoSearch ==
    /\ owners = [o \in Objects |-> <<>>]
    /\ readable = Objects /\ lost = {} /\ disappearances = 0
    /\ path = <<>> /\ rest = <<>> /\ result = "notFound"

NoInstance ==
    /\ instance = None /\ ready = None /\ secret = None
    /\ server \in {s \in Servers : s.port = None}
    /\ irec = IdleRec(TRUE) /\ changes = 0 /\ trouble = 0

NoRequest ==
    /\ stored = Nothing /\ checked = FALSE /\ answer = "none"
    /\ webhookVersions = ShippedVersions

ConfInit ==
    \/ topic = "hostname" /\ ResolverInit /\ NoInstance /\ NoRequest
    \/ topic = "instance" /\ InstanceInit /\ NoSearch /\ NoRequest
    \/ topic = "admission" /\ ValidationInit /\ NoSearch /\ NoInstance

ConfNext ==
    \/ topic = "hostname" /\ ResolverNext /\ UNCHANGED <<topic, instanceVars, validationVars>>
    \/ topic = "instance" /\ InstanceNext /\ UNCHANGED <<topic, resolverVars, validationVars>>
    \/ topic = "admission" /\ ValidationNext /\ UNCHANGED <<topic, resolverVars, instanceVars>>

\* The fairness of the parts.  Nothing is assumed of requests for admission.
ConfSpec ==
    /\ ConfInit /\ [][ConfNext]_confVars
    /\ WF_confVars(topic = "hostname" /\ ResolverStep /\ UNCHANGED <<topic, instanceVars, validationVars>>)
    /\ WF_confVars(topic = "instance" /\ InstanceStep /\ UNCHANGED <<topic, resolverVars, validationVars>>)
==============================================================================
