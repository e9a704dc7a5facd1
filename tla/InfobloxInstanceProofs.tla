----------------------- MODULE InfobloxInstanceProofs -----------------------
(* Proofs about the instance controller: type correctness, and that a       *)
(* reconciliation which nothing disturbed leaves the verdict of its checks  *)
(* about one moment, although it reads the instance, the secret and         *)
(* Infoblox at different times.                                             *)
EXTENDS InfobloxInstance, TLAPS

----------------------------------------------------------------------------
(* Type correctness *)

\* The values are in the type initially.
LEMMA InstanceTypeInit ==
    ASSUME InstanceAssumption, InstanceInit
    PROVE  InstanceTypeOK
<1>1. IdleRec(TRUE) \in InstanceRecType
    BY DEF IdleRec, InstanceRecType
<1>2. 0 \in 0 .. MaxChanges /\ 0 \in 0 .. MaxFaults
    BY DEF InstanceAssumption
<1>3. QED
    BY <1>1, <1>2 DEF InstanceInit, InstanceTypeOK

\* A failed request leaves a well-formed record and disturbs the reconciliation.
LEMMA FailedRec ==
    ASSUME irec \in InstanceRecType, NEW c \in Reasons \cup {None}, FailWith(c)
    PROVE  irec' \in InstanceRecType /\ irec'.disturbed
BY DEF InstanceRecType, FailWith

\* The other updates of the reconciliation's record that the actions make.
LEMMA InstanceRecUpdates ==
    ASSUME irec \in InstanceRecType,
           NEW step \in {"idle", "secret", "networkView", "dnsView", "patch"},
           NEW c \in Reasons \cup {None}, NEW d \in BOOLEAN
    PROVE  /\ [irec EXCEPT !.step = step] \in InstanceRecType
           /\ [irec EXCEPT !.step = "patch", !.condition = c] \in InstanceRecType
           /\ [irec EXCEPT !.disturbed = TRUE] \in InstanceRecType
           /\ IdleRec(d) \in InstanceRecType
BY DEF InstanceRecType, IdleRec

\* Every step of the controller preserves the type.
LEMMA InstanceTypeStep ==
    ASSUME InstanceAssumption, InstanceTypeOK, [InstanceNext]_instanceVars
    PROVE  InstanceTypeOK'
<1> USE InstanceAssumption DEF InstanceTypeOK
<1>1. irec.disturbed \in BOOLEAN /\ irec.condition \in Reasons \cup {None}
    BY DEF InstanceRecType
<1>2. CASE ReconcileInstance
    <2>1. irec' \in InstanceRecType
        BY <1>2 DEF ReconcileInstance, InstanceRecType, Unchanged
    <2>2. QED
        BY <1>2, <2>1 DEF ReconcileInstance, Unchanged
<1>3. CASE FetchSecret
    <2>1. irec' \in InstanceRecType
        BY <1>3, InstanceRecUpdates DEF FetchSecret, Conclude, GoOn, Reasons
    <2>2. QED
        BY <1>3, <2>1 DEF FetchSecret, Unchanged
<1>4. CASE CheckDefaultNetworkView
    <2>1. irec' \in InstanceRecType
        BY <1>4, InstanceRecUpdates DEF CheckDefaultNetworkView, Conclude, GoOn, Reasons
    <2>2. QED
        BY <1>4, <2>1 DEF CheckDefaultNetworkView, Unchanged
<1>5. CASE CheckDefaultDNSView
    <2>1. irec' \in InstanceRecType
        BY <1>5, InstanceRecUpdates DEF CheckDefaultDNSView, Conclude, Reasons
    <2>2. QED
        BY <1>5, <2>1 DEF CheckDefaultDNSView, Unchanged
<1>6. CASE PatchInstance
    <2>1. irec' \in InstanceRecType
        BY <1>6, <1>1, InstanceRecUpdates DEF PatchInstance
    <2>2. ready' \in Reasons \cup {None}
        BY <1>6, <1>1 DEF PatchInstance
    <2>3. QED
        BY <1>6, <2>1, <2>2 DEF PatchInstance, Unchanged
<1>7. CASE InstanceRequestFails
    <2>1. irec' \in InstanceRecType
        <3>1. \/ \E c \in Reasons \cup {None} : FailWith(c)
              \/ irec' = IdleRec(TRUE)
            BY <1>7 DEF InstanceRequestFails, Reasons
        <3>2. CASE irec' = IdleRec(TRUE)
            BY <3>2, InstanceRecUpdates
        <3>3. CASE \E c \in Reasons \cup {None} : FailWith(c)
            BY <3>3, FailedRec
        <3>4. QED
            BY <3>1, <3>2, <3>3
    <2>2. trouble' \in 0 .. MaxFaults
        BY <1>7 DEF InstanceRequestFails
    <2>3. QED
        BY <1>7, <2>1, <2>2 DEF InstanceRequestFails
<1>8. CASE Changed /\ (EditInstance \/ EditSecret \/ ChangeServer)
    <2>1. irec' \in InstanceRecType
        BY <1>8, InstanceRecUpdates DEF Changed
    <2>2. changes' \in 0 .. MaxChanges /\ trouble' = trouble
        BY <1>8 DEF Changed
    <2>3. CASE EditInstance
        BY <2>1, <2>2, <2>3 DEF EditInstance
    <2>4. CASE EditSecret
        BY <2>1, <2>2, <2>4 DEF EditSecret
    <2>5. CASE ChangeServer
        BY <2>1, <2>2, <2>5 DEF ChangeServer
    <2>6. QED
        BY <1>8, <2>3, <2>4, <2>5
<1>9. CASE CrashInstanceController
    <2>1. irec' \in InstanceRecType
        BY <1>9, InstanceRecUpdates DEF CrashInstanceController
    <2>2. trouble' \in 0 .. MaxFaults
        BY <1>9 DEF CrashInstanceController
    <2>3. QED
        BY <1>9, <2>1, <2>2 DEF CrashInstanceController
<1>10. CASE UNCHANGED instanceVars
    BY <1>10 DEF instanceVars
<1>11. QED
    BY <1>2, <1>3, <1>4, <1>5, <1>6, <1>7, <1>8, <1>9, <1>10
    DEF InstanceNext, InstanceStep, EditInstance, EditSecret, ChangeServer

\* The variables keep their types: in particular, the Ready condition only ever
\* has one of the four reasons of the API.
THEOREM InstanceTypeCorrect ==
    ASSUME InstanceAssumption
    PROVE  InstanceSpec => []InstanceTypeOK
<1>1. InstanceInit => InstanceTypeOK
    BY InstanceTypeInit
<1>2. InstanceTypeOK /\ [InstanceNext]_instanceVars => InstanceTypeOK'
    BY InstanceTypeStep
<1>3. QED
    BY <1>1, <1>2, PTL DEF InstanceSpec

----------------------------------------------------------------------------
(* What the controller's own client finds out *)

CredentialsOK == secret # None /\ HasCredentials(secret)
NetworkViewOK(s) == ViewFound(InstanceClient(s), s.defaultNetworkView, server.networkViews)
DNSViewOK(s) == ViewFound(InstanceClient(s), s.defaultDNSView, server.dnsViews)
Verdict(s) == CredentialsOK /\ NetworkViewOK(s) /\ DNSViewOK(s)

\* Together they are what ReadyIsTheVerdict speaks of.
LEMMA VerdictIsChecksPass == Verdict(instance) <=> ChecksPass(instance)
BY DEF Verdict, CredentialsOK, NetworkViewOK, DNSViewOK, ChecksPass

\* What holds at each step of a reconciliation that nothing disturbed.
UndisturbedInv ==
    /\ instance # None
    /\ irec.step # "idle" => irec.spec = instance /\ irec.before = ready
    /\ irec.step \in {"networkView", "dnsView"} => CredentialsOK
    /\ irec.step = "dnsView" => NetworkViewOK(instance)
    /\ irec.step = "patch" => /\ irec.condition # None
                              /\ irec.condition = "ConfigurationValid" <=> Verdict(instance)
    /\ irec.step = "idle" => (ready = "ConfigurationValid" <=> Verdict(instance))

ReadyInv == ~irec.disturbed => UndisturbedInv

\* A step of the controller that changes nothing but its record, and is not
\* disturbed, leaves the facts it has established alone.
LEMMA FactsStay ==
    ASSUME Unchanged
    PROVE  /\ CredentialsOK' <=> CredentialsOK
           /\ instance' = instance
           /\ NetworkViewOK(instance)' <=> NetworkViewOK(instance)
           /\ Verdict(instance)' <=> Verdict(instance)
BY DEF Unchanged, CredentialsOK, NetworkViewOK, DNSViewOK, Verdict, ViewFound

\* Every step preserves the invariant.
LEMMA ReadyStep ==
    ASSUME InstanceAssumption, InstanceTypeOK, ReadyInv, [InstanceNext]_instanceVars
    PROVE  ReadyInv'
<1> SUFFICES ASSUME ~irec'.disturbed
             PROVE  UndisturbedInv'
    BY DEF ReadyInv
<1>t. irec \in InstanceRecType
    BY DEF InstanceTypeOK
<1>r. /\ "ConfigurationValid" # None /\ "AuthenticationFailed" # None
      /\ "NetworkViewNotFound" # None /\ "DNSViewNotFound" # None
    BY DEF InstanceAssumption
<1>1. CASE ReconcileInstance
    <2>1. /\ irec'.step = "secret" /\ irec'.spec = instance /\ irec'.before = ready
          /\ instance' = instance /\ instance # None /\ ready' = ready
        BY <1>1 DEF ReconcileInstance, Unchanged
    <2>2. QED
        BY <2>1 DEF UndisturbedInv
<1>2. CASE FetchSecret
    <2>1. irec.step = "secret" /\ ready' = ready /\ Unchanged
        BY <1>2 DEF FetchSecret
    <2>2. irec'.disturbed = irec.disturbed /\ irec'.spec = irec.spec /\ irec'.before = irec.before
        BY <1>2, <1>t DEF FetchSecret, Conclude, GoOn, InstanceRecType
    <2>3. UndisturbedInv /\ irec.spec = instance /\ irec.before = ready
        BY <2>1, <2>2 DEF ReadyInv, UndisturbedInv
    <2>4. CASE CredentialsOK
        <3>1. irec'.step = "networkView"
            BY <1>2, <1>t, <2>4 DEF FetchSecret, GoOn, CredentialsOK, InstanceRecType
        <3>2. QED
            BY <2>1, <2>2, <2>3, <2>4, <3>1, FactsStay DEF UndisturbedInv
    <2>5. CASE ~CredentialsOK
        <3>1. irec'.step = "patch" /\ irec'.condition = "AuthenticationFailed"
            BY <1>2, <1>t, <2>5 DEF FetchSecret, Conclude, CredentialsOK, InstanceRecType
        <3>2. ~Verdict(instance)
            BY <2>5 DEF Verdict
        <3>3. QED
            BY <1>r, <2>1, <2>2, <2>3, <3>1, <3>2, FactsStay DEF UndisturbedInv
    <2>6. QED
        BY <2>4, <2>5
<1>3. CASE CheckDefaultNetworkView
    <2>1. irec.step = "networkView" /\ ready' = ready /\ Unchanged
        BY <1>3 DEF CheckDefaultNetworkView
    <2>2. irec'.disturbed = irec.disturbed /\ irec'.spec = irec.spec /\ irec'.before = irec.before
        BY <1>3, <1>t DEF CheckDefaultNetworkView, Conclude, GoOn, InstanceRecType
    <2>3. UndisturbedInv /\ irec.spec = instance /\ irec.before = ready /\ CredentialsOK
        BY <2>1, <2>2 DEF ReadyInv, UndisturbedInv
    <2>4. CASE NetworkViewOK(instance)
        <3>1. irec'.step = "dnsView"
            BY <1>3, <1>t, <2>3, <2>4
            DEF CheckDefaultNetworkView, GoOn, NetworkViewOK, InstanceRecType
        <3>2. QED
            BY <2>1, <2>2, <2>3, <2>4, <3>1, FactsStay DEF UndisturbedInv
    <2>5. CASE ~NetworkViewOK(instance)
        <3>1. irec'.step = "patch" /\ irec'.condition = "NetworkViewNotFound"
            BY <1>3, <1>t, <2>3, <2>5
            DEF CheckDefaultNetworkView, Conclude, NetworkViewOK, InstanceRecType
        <3>2. ~Verdict(instance)
            BY <2>5 DEF Verdict
        <3>3. QED
            BY <1>r, <2>1, <2>2, <2>3, <3>1, <3>2, FactsStay DEF UndisturbedInv
    <2>6. QED
        BY <2>4, <2>5
<1>4. CASE CheckDefaultDNSView
    <2>1. irec.step = "dnsView" /\ ready' = ready /\ Unchanged
        BY <1>4 DEF CheckDefaultDNSView
    <2>2. irec'.disturbed = irec.disturbed /\ irec'.spec = irec.spec /\ irec'.before = irec.before
        BY <1>4, <1>t DEF CheckDefaultDNSView, Conclude, InstanceRecType
    <2>3. /\ UndisturbedInv /\ irec.spec = instance /\ irec.before = ready
          /\ CredentialsOK /\ NetworkViewOK(instance)
        BY <2>1, <2>2 DEF ReadyInv, UndisturbedInv
    <2>4. /\ irec'.step = "patch" /\ irec'.condition # None
          /\ irec'.condition = "ConfigurationValid" <=> DNSViewOK(instance)
        BY <1>4, <1>t, <1>r, <2>3 DEF CheckDefaultDNSView, Conclude, DNSViewOK, InstanceRecType
    <2>5. irec'.condition = "ConfigurationValid" <=> Verdict(instance)
        BY <2>3, <2>4 DEF Verdict
    <2>6. QED
        BY <2>1, <2>2, <2>3, <2>4, <2>5, FactsStay DEF UndisturbedInv
<1>5. CASE PatchInstance
    <2>1. irec.step = "patch" /\ irec' = IdleRec(irec.disturbed) /\ Unchanged
        BY <1>5 DEF PatchInstance
    <2>2. irec'.step = "idle" /\ irec'.disturbed = irec.disturbed
        BY <2>1 DEF IdleRec
    <2>3. /\ instance # None /\ irec.condition # None /\ irec.before = ready
          /\ irec.condition = "ConfigurationValid" <=> Verdict(instance)
        BY <2>1, <2>2 DEF ReadyInv, UndisturbedInv
    <2>4. ready' = irec.condition
        BY <1>5, <2>3 DEF PatchInstance
    <2>5. QED
        BY <2>1, <2>2, <2>3, <2>4, FactsStay DEF UndisturbedInv
<1>6. CASE \/ InstanceRequestFails \/ EditInstance \/ EditSecret \/ ChangeServer
           \/ CrashInstanceController
    <2>1. CASE InstanceRequestFails
        <3>1. \/ \E c \in Reasons \cup {None} : FailWith(c)
              \/ irec' = IdleRec(TRUE)
            BY <2>1 DEF InstanceRequestFails, Reasons
        <3>2. irec'.disturbed
            BY <1>t, <3>1, FailedRec DEF IdleRec
        <3>3. QED
            BY <3>2
    <2>2. CASE EditInstance \/ EditSecret \/ ChangeServer
        <3>1. irec' = [irec EXCEPT !.disturbed = TRUE]
            BY <2>2 DEF EditInstance, EditSecret, ChangeServer, Changed
        <3>2. QED
            BY <1>t, <3>1 DEF InstanceRecType
    <2>3. CASE CrashInstanceController
        BY <2>3 DEF CrashInstanceController, IdleRec
    <2>4. QED
        BY <1>6, <2>1, <2>2, <2>3
<1>7. CASE UNCHANGED instanceVars
    <2>1. irec' = irec /\ ready' = ready /\ Unchanged
        BY <1>7 DEF instanceVars, Unchanged
    <2>2. UndisturbedInv
        BY <2>1 DEF ReadyInv
    <2>3. QED
        BY <2>1, <2>2, FactsStay DEF UndisturbedInv
<1>8. QED
    BY <1>1, <1>2, <1>3, <1>4, <1>5, <1>6, <1>7 DEF InstanceNext, InstanceStep

\* The Ready condition after a reconciliation that nothing disturbed is what the
\* checks would find now, for all specs, views, secrets and servers; whether it
\* was stored or found to be the same as before.
THEOREM ReadyIsRight ==
    ASSUME InstanceAssumption
    PROVE  InstanceSpec => []ReadyIsTheVerdict
<1>1. InstanceInit => ReadyInv
    BY DEF InstanceInit, ReadyInv, IdleRec
<1>2. InstanceTypeOK /\ ReadyInv /\ [InstanceNext]_instanceVars => ReadyInv'
    BY ReadyStep
<1>3. ReadyInv => ReadyIsTheVerdict
    BY VerdictIsChecksPass DEF ReadyInv, UndisturbedInv, ReadyIsTheVerdict
<1>4. QED
    BY <1>1, <1>2, <1>3, InstanceTypeCorrect, PTL DEF InstanceSpec

\* Where both connections are set up alike, they are the same, and the two views
\* that were found are what the other controllers need.
LEMMA PassedMeansUsable ==
    ASSUME InstanceTypeOK, InstanceAssumption, instance # None,
           ChecksPass(instance), AskedAlike(instance)
    PROVE  Usable(instance)
<1> DEFINE s == instance
<1>1. s \in InstanceSpecType
    BY DEF InstanceTypeOK, InstanceAssumption
<1>2. InstanceClient(s) = ClientForInstance(s)
    <2>1. s.hostPorts = <<>> /\ Append(s.hostPorts, s.port) = <<"443">>
        BY DEF AskedAlike
    <2>2. QED
        BY <1>1, <2>1 DEF AskedAlike, InstanceClient, ClientForInstance, NewClient, InstanceSpecType
<1>3. Answers(ClientForInstance(s), server)
    BY <1>2 DEF ChecksPass, ViewFound, AskedAlike
<1>4. QED
    BY <1>3 DEF ChecksPass, ViewFound, Usable

\* For specs with which both connections are set up alike, and a default view, an
\* instance that an undisturbed reconciliation left Ready is one the other
\* controllers can work with.
THEOREM ReadyIsUsable ==
    ASSUME InstanceAssumption
    PROVE  InstanceSpec => []ReadyMeansUsable
<1>1. InstanceInit => ReadyInv
    BY DEF InstanceInit, ReadyInv, IdleRec
<1>2. InstanceTypeOK /\ ReadyInv /\ [InstanceNext]_instanceVars => ReadyInv'
    BY ReadyStep
<1>3. InstanceTypeOK /\ ReadyInv => ReadyMeansUsable
    BY VerdictIsChecksPass, PassedMeansUsable DEF ReadyInv, UndisturbedInv, ReadyMeansUsable
<1>4. QED
    BY <1>1, <1>2, <1>3, InstanceTypeCorrect, PTL DEF InstanceSpec
=============================================================================
