-------------------------- MODULE InfobloxInstance --------------------------
(***************************************************************************)
(* The instance controller of src/internal/controllers/infobloxinstance.go *)
(* and the two ways to connect to an InfobloxInstance: its own, and that   *)
(* of the other controllers, getInfobloxClientForInstance of util.go.      *)
(*                                                                         *)
(* The reconciliation reads the instance, then the secret, asks Infoblox   *)
(* for the default views, and stores the Ready condition.  Users change    *)
(* the instance and the secret, and administrators change Infoblox,        *)
(* between any two of these steps.  Only changes of the instance trigger a *)
(* reconciliation.                                                         *)
(***************************************************************************)
EXTENDS Naturals, Sequences

CONSTANTS
    None,           \* the empty string; also: no such object, nothing to store
    InstanceSpecs,  \* the specs that users write
    NetworkViews,   \* names of network views
    DNSViews,       \* names of DNS views
    Secrets,        \* what the credentials secret may be: the keys that have a value
    Servers,        \* what Infoblox may be
    MaxChanges,     \* bound on changes by users and administrators
    MaxFaults       \* bound on failed requests and crashes

SecretKeys == {"username", "password", "clientCert", "clientKey"}

Ports == {"443", "8443"}

\* hostPorts is what spec.host says after the name of the host, split at the
\* colons: nothing in "infoblox", <<"8443">> in "infoblox:8443".
InstanceSpecType ==
    [hostPorts : {<<>>} \cup {<<p>> : p \in Ports}, port : Ports,
     disableTLSVerification : BOOLEAN, customCAPath : {None, "ca.pem"},
     defaultNetworkView : NetworkViews \cup {None}, defaultDNSView : DNSViews \cup {None}]

\* port None: nothing answers.  certificate: how it can be verified, with the
\* authorities of the system or with those of customCAPath.
ServerType ==
    [port : Ports \cup {None}, certificate : {"true", "ca.pem"},
     networkViews : SUBSET NetworkViews, dnsViews : SUBSET DNSViews]

ASSUME InstanceAssumption ==
    /\ None \notin NetworkViews \cup DNSViews
    /\ InstanceSpecs \subseteq InstanceSpecType
    /\ None \notin InstanceSpecs
    /\ None \notin Ports /\ None # "ca.pem"
    /\ None \notin {"AuthenticationFailed", "NetworkViewNotFound", "DNSViewNotFound",
                    "ConfigurationValid"}
    /\ Secrets \subseteq (SUBSET SecretKeys) \cup {None}
    /\ Servers \subseteq ServerType
    /\ MaxChanges \in Nat /\ MaxFaults \in Nat

VARIABLES
    instance,   \* spec of the stored InfobloxInstance, None: there is none
    ready,      \* reason of its Ready condition, None: not set yet
    secret,     \* the secret it refers to
    server,     \* Infoblox
    irec,       \* the reconciliation that is under way
    changes,    \* changes by users and administrators so far
    trouble     \* failed requests and crashes so far

instanceVars == <<instance, ready, secret, server, irec, changes, trouble>>

Reasons == {"AuthenticationFailed", "NetworkViewNotFound", "DNSViewNotFound", "ConfigurationValid"}

\* spec and before are the instance and its condition as they were read,
\* condition is what will be stored.  disturbed is history: something changed or
\* failed since the last reconciliation began.
InstanceRecType ==
    [step : {"idle", "secret", "networkView", "dnsView", "patch"},
     spec : InstanceSpecs \cup {None}, before : Reasons \cup {None},
     condition : Reasons \cup {None}, disturbed : BOOLEAN]

IdleRec(disturbed) ==
    [step |-> "idle", spec |-> None, before |-> None, condition |-> None,
     disturbed |-> disturbed]

----------------------------------------------------------------------------
(* Connections *)

\* NewClient: a host without a port is asked at 443; otherwise all that follows
\* its first colon, ports, is taken for the port.  tlsVerify says how
\* certificates are verified.
NewClient(ports, disableTLSVerification, customCAPath) ==
    [ports |-> IF ports = <<>> THEN <<"443">> ELSE ports,
     tlsVerify |-> IF disableTLSVerification THEN "false"
                   ELSE IF customCAPath = None THEN "true" ELSE customCAPath]

\* The client of the instance controller gets the host, but not the port.
InstanceClient(s) == NewClient(s.hostPorts, s.disableTLSVerification, s.customCAPath)

\* Mutant of ClientForInstance: the flag for verification is forgotten, too.
ClientForInstanceVerified(s) == NewClient(Append(s.hostPorts, s.port), FALSE, None)

\* The client of the other controllers gets the host with the port appended,
\* even to one that has a port, but no customCAPath.
ClientForInstance(s) == NewClient(Append(s.hostPorts, s.port), s.disableTLSVerification, None)

\* A request over the connection c is answered.
Answers(c, srv) == c.ports = <<srv.port>> /\ c.tlsVerify \in {"false", srv.certificate}

\* AuthConfigFromSecretData accepts one complete pair of credentials.
HasCredentials(keys) ==
    {"username", "password"} \subseteq keys \/ {"clientCert", "clientKey"} \subseteq keys

----------------------------------------------------------------------------
(* The instance controller *)

Unchanged == UNCHANGED <<instance, secret, server, changes, trouble>>

\* The reconciliation goes on with step, or has decided on a condition.
GoOn(step) == irec' = [irec EXCEPT !.step = step]
Conclude(c) == irec' = [irec EXCEPT !.step = "patch", !.condition = c]

\* Reconcile reads the instance; nothing is done for one that is gone.
ReconcileInstance ==
    /\ irec.step = "idle"
    /\ instance # None
    /\ irec' = [step |-> "secret", spec |-> instance, before |-> ready, condition |-> None,
                disturbed |-> FALSE]
    /\ UNCHANGED ready /\ Unchanged

\* Mutant of FetchSecret: a reason that the API does not know.
FetchSecretOrNotFound ==
    /\ irec.step = "secret"
    /\ \/ secret = None /\ Conclude("SecretNotFound")
       \/ secret # None /\ ~HasCredentials(secret) /\ Conclude("AuthenticationFailed")
       \/ secret # None /\ HasCredentials(secret) /\ GoOn("networkView")
    /\ UNCHANGED ready /\ Unchanged

\* The secret is read.  NewInfobloxClientFunc does not fail and makes no
\* request.
FetchSecret ==
    /\ irec.step = "secret"
    /\ \/ secret = None /\ Conclude("AuthenticationFailed")
       \/ secret # None /\ ~HasCredentials(secret) /\ Conclude("AuthenticationFailed")
       \/ secret # None /\ HasCredentials(secret) /\ GoOn("networkView")
    /\ UNCHANGED ready /\ Unchanged

\* A default view that is set must exist on a server that answers over c.
ViewFound(c, view, views) == view = None \/ (Answers(c, server) /\ view \in views)

CheckDefaultNetworkView ==
    /\ irec.step = "networkView"
    /\ IF ViewFound(InstanceClient(irec.spec), irec.spec.defaultNetworkView, server.networkViews)
       THEN GoOn("dnsView") ELSE Conclude("NetworkViewNotFound")
    /\ UNCHANGED ready /\ Unchanged

\* Mutant of CheckDefaultDNSView: a view that is not found is only logged.
CheckDNSViewLeniently ==
    /\ irec.step = "dnsView"
    /\ Conclude("ConfigurationValid")
    /\ UNCHANGED ready /\ Unchanged

CheckDefaultDNSView ==
    /\ irec.step = "dnsView"
    /\ IF ViewFound(InstanceClient(irec.spec), irec.spec.defaultDNSView, server.dnsViews)
       THEN Conclude("ConfigurationValid") ELSE Conclude("DNSViewNotFound")
    /\ UNCHANGED ready /\ Unchanged

\* Mutant of PatchInstance: a condition that is set is not replaced.
PatchNewInstance ==
    /\ irec.step = "patch"
    /\ ready' = IF instance = None \/ ready # None THEN ready ELSE irec.condition
    /\ irec' = IdleRec(irec.disturbed)
    /\ Unchanged

\* The deferred patch stores a condition that differs from what was read.  An
\* instance that is gone makes it fail.
PatchInstance ==
    /\ irec.step = "patch"
    /\ ready' = IF instance = None \/ irec.condition \in {None, irec.before} THEN ready
                ELSE irec.condition
    /\ irec' = IdleRec(irec.disturbed)
    /\ Unchanged

FailWith(c) == irec' = [irec EXCEPT !.step = "patch", !.condition = c, !.disturbed = TRUE]

\* A request fails.  For the secret no condition is set; a failed check counts
\* as a view that does not exist; a failed patch stores nothing.
InstanceRequestFails ==
    /\ trouble < MaxFaults
    /\ trouble' = trouble + 1
    /\ \/ irec.step = "secret" /\ FailWith(None)
       \/ /\ irec.step = "networkView" /\ irec.spec.defaultNetworkView # None
          /\ FailWith("NetworkViewNotFound")
       \/ /\ irec.step = "dnsView" /\ irec.spec.defaultDNSView # None
          /\ FailWith("DNSViewNotFound")
       \/ irec.step = "patch" /\ irec' = IdleRec(TRUE)
    /\ UNCHANGED <<instance, ready, secret, server, changes>>

----------------------------------------------------------------------------
(* Users, administrators, and the manager process *)

Changed ==
    /\ changes < MaxChanges
    /\ changes' = changes + 1
    /\ irec' = [irec EXCEPT !.disturbed = TRUE]
    /\ UNCHANGED trouble

\* The instance is created, edited or deleted.  It has no finalizer.
EditInstance ==
    /\ Changed
    /\ instance' \in (InstanceSpecs \cup {None}) \ {instance}
    /\ ready' = IF None \in {instance, instance'} THEN None ELSE ready
    /\ UNCHANGED <<secret, server>>

EditSecret ==
    /\ Changed
    /\ secret' \in Secrets \ {secret}
    /\ UNCHANGED <<instance, ready, server>>

ChangeServer ==
    /\ Changed
    /\ server' \in Servers \ {server}
    /\ UNCHANGED <<instance, ready, secret>>

CrashInstanceController ==
    /\ trouble < MaxFaults
    /\ trouble' = trouble + 1
    /\ irec.step # "idle"
    /\ irec' = IdleRec(TRUE)
    /\ UNCHANGED <<instance, ready, secret, server, changes>>

InstanceInit ==
    /\ instance \in InstanceSpecs
    /\ ready = None
    /\ secret \in Secrets
    /\ server \in Servers
    /\ irec = IdleRec(TRUE)
    /\ changes = 0
    /\ trouble = 0

InstanceStep ==
    \/ ReconcileInstance
    \/ FetchSecret
    \/ CheckDefaultNetworkView
    \/ CheckDefaultDNSView
    \/ PatchInstance

InstanceNext ==
    \/ InstanceStep
    \/ InstanceRequestFails
    \/ EditInstance
    \/ EditSecret
    \/ ChangeServer
    \/ CrashInstanceController

\* The periodic resync reconciles every instance again and again.
InstanceSpec ==
    InstanceInit /\ [][InstanceNext]_instanceVars /\ WF_instanceVars(InstanceStep)

----------------------------------------------------------------------------
(* Properties *)

InstanceTypeOK ==
    /\ instance \in InstanceSpecs \cup {None}
    /\ ready \in Reasons \cup {None}
    /\ secret \in Secrets
    /\ server \in Servers
    /\ irec \in InstanceRecType
    /\ changes \in 0 .. MaxChanges
    /\ trouble \in 0 .. MaxFaults

\* The other controllers can work with the instance: their client gets
\* credentials and answers, and the default views exist.
Usable(s) ==
    /\ secret # None /\ HasCredentials(secret)
    /\ Answers(ClientForInstance(s), server)
    /\ s.defaultNetworkView \in server.networkViews \cup {None}
    /\ s.defaultDNSView \in server.dnsViews \cup {None}

\* What the instance controller's checks find out: the credentials are complete,
\* and the default views that are set exist behind the controller's own client.
ChecksPass(s) ==
    /\ secret # None /\ HasCredentials(secret)
    /\ ViewFound(InstanceClient(s), s.defaultNetworkView, server.networkViews)
    /\ ViewFound(InstanceClient(s), s.defaultDNSView, server.dnsViews)

\* If nothing changed or failed since the last reconciliation began, and it is
\* over, the instance is Ready exactly if the checks would pass now: what was
\* read in four steps, and compared with an older condition before it was
\* stored (infobloxinstance.go:69-77), is the verdict about one moment.  That
\* says nothing about the client of the other controllers.
ReadyIsTheVerdict ==
    irec.step = "idle" /\ ~irec.disturbed =>
        (ready = "ConfigurationValid" <=> ChecksPass(instance))

\* The specs for which the checks are made over the connection that the other
\* controllers use: neither the host nor spec.port names a port other than 443,
\* no customCAPath is needed, and a default view makes the controller ask.
AskedAlike(s) ==
    /\ s.hostPorts = <<>> /\ s.port = "443"
    /\ s.disableTLSVerification \/ s.customCAPath = None
    /\ s.defaultNetworkView # None \/ s.defaultDNSView # None

\* "Successfully connected to Infoblox instance and validated configuration"
\* (infobloxinstance.go:165): for these specs the other controllers can work
\* with an instance that is Ready after a reconciliation which nothing
\* disturbed, although two places set up the connection (infobloxinstance.go:112,
\* util.go:28).  With other specs an instance may be Ready and of no use.
ReadyMeansUsable ==
    irec.step = "idle" /\ ~irec.disturbed /\ ready = "ConfigurationValid" =>
        (AskedAlike(instance) => Usable(instance))

\* Whatever happened while the controller was reading: once instance, secret and
\* Infoblox are left alone, the Ready condition gets right and stays right.
ReadySettles ==
    \A pass \in BOOLEAN :
        <>[](instance # None /\ ChecksPass(instance) = pass) =>
            <>[]((ready = "ConfigurationValid") = pass)
=============================================================================
