--------------------------- MODULE PoolValidation ---------------------------
(***************************************************************************)
(* The admission of InfobloxIPPools: whether the API server asks the       *)
(* webhook, validate of src/internal/webhooks/infobloxippool.go, and what  *)
(* the controllers make of the subnets of a stored pool.  The webhook      *)
(* parses them with the package net, the controllers with net/netip; the   *)
(* two differ in what they accept and in what they return.                 *)
(*                                                                         *)
(* The shipped configuration registers the webhook for an API version      *)
(* that is not served, so the API server does not ask it.  Administrators  *)
(* may register it for the version that is.                                *)
(*                                                                         *)
(* A text that stands for a subnet is the record of what it says and how   *)
(* it is spelled; a gateway is only its family.  Nothing is a text that is *)
(* empty or stands for nothing.                                            *)
(***************************************************************************)
EXTENDS Naturals, Sequences

CONSTANTS
    Nothing,       \* the empty string, or a text that is not an address
    Width,      \* number of bits of an address
    Requests    \* the pools that users ask to create, or to update to

\* canonical: as net and netip print it.  uncompressed: 2001:DB8:0:0::/32.
\* leadingZero: 10.0.0.0/08.  mapped: ::ffff:10.0.0.0/104.
Spellings == {"canonical", "uncompressed", "leadingZero", "mapped"}

Texts ==
    {t \in [family : {"v4", "v6"}, addr : 0 .. 2^Width - 1, bits : 0 .. Width,
            spelling : Spellings] :
        /\ t.spelling = "uncompressed" => t.family = "v6"
        /\ t.spelling = "mapped" => t.family = "v4"}

Gateways == {"v4", "v6", "mapped"}

PoolSpecs ==
    [subnets : Seq([cidr : Texts \cup {Nothing}, gateway : Gateways \cup {Nothing}]),
     instanceRef : {"instance", Nothing}]

\* Nothing is not a pool and not what a text is parsed to.
ASSUME ValidationAssumption ==
    /\ Requests \subseteq PoolSpecs
    /\ Width \in Nat
    /\ Nothing \notin Requests
    /\ Nothing \notin [family : {"v4", "v6"}, addr : Nat, bits : Nat]

\* The versions of InfobloxIPPool of the custom resource definition, and those
\* the shipped webhook configuration names.
ServedVersions == {"v1alpha1"}
ShippedVersions == {"v1alpha2"}

VARIABLES
    stored,             \* the stored pool, Nothing: there is none
    checked,            \* history: the stored pool has passed validate
    answer,             \* to the last request: "none" yet, "unchecked", "admitted",
                        \* "invalid", "panic"
    webhookVersions     \* the versions the webhook configuration names

validationVars == <<stored, checked, answer, webhookVersions>>

----------------------------------------------------------------------------
(* The libraries *)

\* Networks and prefixes are printed in one way.
Text(n) == [family |-> n.family, addr |-> n.addr, bits |-> n.bits, spelling |-> "canonical"]

\* net.ParseCIDR accepts every spelling and clears the host bits.  A mapped
\* network becomes the IPv4 network.
ParseCIDR(t) ==
    IF t = Nothing THEN Nothing
    ELSE [family |-> IF t.spelling = "mapped" THEN "v4" ELSE t.family,
          addr |-> t.addr - (t.addr % 2^(Width - t.bits)), bits |-> t.bits]

\* netip.ParsePrefix keeps the host bits.
ParsePrefix(t) ==
    IF t = Nothing \/ t.spelling = "leadingZero" THEN Nothing
    ELSE [family |-> IF t.spelling = "mapped" THEN "v6" ELSE t.family,
          addr |-> t.addr, bits |-> t.bits]

\* netip calls a mapped address an IPv6 address.
Is4(family) == family = "v4"
Is6(family) == family \in {"v6", "mapped"}

----------------------------------------------------------------------------
(* The webhook *)

VersionsMatch(network, gateway) ==
    \/ Is4(network.family) /\ Is4(gateway)
    \/ Is6(network.family) /\ Is6(gateway)

\* Mutant of ValidSubnet: any text that parses will do.
ParsableSubnet(s) ==
    /\ ParseCIDR(s.cidr) # Nothing
    /\ s.gateway # Nothing
    /\ VersionsMatch(ParseCIDR(s.cidr), s.gateway)

\* The text must be the one the network prints as.
ValidSubnet(s) ==
    /\ ParseCIDR(s.cidr) # Nothing /\ Text(ParseCIDR(s.cidr)) = s.cidr
    /\ s.gateway # Nothing
    /\ VersionsMatch(ParseCIDR(s.cidr), s.gateway)

\* All errors are collected.  A network that could not be parsed is only
\* recorded and then dereferenced; the webhook server answers a panic with an
\* error.
validate(pool) ==
    IF \E i \in DOMAIN pool.subnets : ParseCIDR(pool.subnets[i].cidr) = Nothing THEN "panic"
    ELSE IF /\ pool.subnets # <<>>
            /\ pool.instanceRef # Nothing
            /\ \A i \in DOMAIN pool.subnets : ValidSubnet(pool.subnets[i])
         THEN "admitted"
         ELSE "invalid"

----------------------------------------------------------------------------
(* The API server and administrators *)

\* The API server asks the webhook about pools.  Versions that are not served
\* are not equivalent to one that is (matchPolicy).
WebhookIsAsked == webhookVersions \cap ServedVersions # {}

\* The schema of the custom resource wants the name of an instance.
SchemaAccepts(pool) == pool.instanceRef # Nothing

\* ValidateCreate and ValidateUpdate: the pool stored before does not matter,
\* and stays if the new one is refused.
Admit(pool) ==
    /\ WebhookIsAsked
    /\ SchemaAccepts(pool)
    /\ answer' = validate(pool)
    /\ IF answer' = "admitted" THEN stored' = pool /\ checked' = TRUE
       ELSE UNCHANGED <<stored, checked>>
    /\ UNCHANGED webhookVersions

\* The pool is created or updated without the webhook.
StoreUnchecked(pool) ==
    /\ ~WebhookIsAsked
    /\ SchemaAccepts(pool)
    /\ answer' = "unchecked"
    /\ stored' = pool
    /\ checked' = FALSE
    /\ UNCHANGED webhookVersions

ChangeWebhookVersions ==
    /\ webhookVersions' \in {ShippedVersions, ServedVersions} \ {webhookVersions}
    /\ UNCHANGED <<stored, checked, answer>>

ValidationInit ==
    /\ stored = Nothing
    /\ checked = FALSE
    /\ answer = "none"
    /\ webhookVersions = ShippedVersions

ValidationNext ==
    \/ \E pool \in Requests : Admit(pool) \/ StoreUnchecked(pool)
    \/ ChangeWebhookVersions

ValidationSpec == ValidationInit /\ [][ValidationNext]_validationVars

----------------------------------------------------------------------------
(* Properties *)

\* The controllers can parse every subnet of a stored pool that has passed
\* validate, although with another package (webhooks/infobloxippool.go:142,
\* controllers/infobloxippool.go:170), and the prefix they get has no host bits
\* and prints as the text in the pool, so that Infoblox, which is asked by that
\* text, finds the network the webhook saw.  The gateway of an IPv4 network is
\* an IPv4 address and the other way round.  Nothing is said of pools that were
\* stored unchecked.
CheckedSubnetsParse ==
    checked =>
        /\ stored # Nothing
        /\ stored.subnets # <<>>
        /\ \A i \in DOMAIN stored.subnets :
              LET s == stored.subnets[i]
                  prefix == ParsePrefix(s.cidr)
              IN
              /\ prefix # Nothing
              /\ Text(prefix) = s.cidr
              /\ (prefix.addr % 2^(Width - prefix.bits)) = 0
              /\ Is4(prefix.family) <=> Is4(s.gateway)
=============================================================================
