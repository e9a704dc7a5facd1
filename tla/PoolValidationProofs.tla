------------------------ MODULE PoolValidationProofs ------------------------
(***************************************************************************)
(* TLAPS proofs about PoolValidation: what validate admits, parsed with    *)
(* the package net, the controllers can parse with net/netip, and get the  *)
(* network that the webhook saw.                                           *)
(***************************************************************************)
EXTENDS PoolValidation, FiniteSetTheorems, TLAPS

\* A power of two is the number of subsets of some set, hence not 0.
LEMMA PowerOfTwo ==
    ASSUME NEW n \in Nat
    PROVE  2^n \in Nat /\ 2^n > 0
<1> DEFINE S == 1 .. n
<1>1. IsFiniteSet(S) /\ Cardinality(S) = n
  <2>1. n >= 1 => n - 1 + 1 = n
    OBVIOUS
  <2>2. IsFiniteSet(1 .. n) /\ Cardinality(1 .. n) = (IF 1 > n THEN 0 ELSE n - 1 + 1)
    BY FS_Interval
  <2> QED BY <2>1, <2>2
<1> HIDE DEF S
<1>2. IsFiniteSet(SUBSET S) /\ Cardinality(SUBSET S) = 2^n
  BY <1>1, FS_SUBSET
<1>3. 2^n \in Nat
  BY <1>2, FS_CardinalityType
<1>4. SUBSET S # {}
  OBVIOUS
<1>5. 2^n # 0
  BY <1>2, <1>4, FS_EmptySet, Zenon
<1> QED BY <1>3, <1>5

\* Clearing the host bits changes nothing where there are none.
LEMMA NoHostBits ==
    ASSUME NEW a \in Nat, NEW k \in Nat, k > 0, a = a - (a % k)
    PROVE  a % k = 0
OBVIOUS

\* A text that net prints as it was written is one that netip accepts, and the
\* prefix has no host bits.
LEMMA CanonicalText ==
    ASSUME NEW t \in Texts, t # Nothing, Text(ParseCIDR(t)) = t
    PROVE  /\ ParsePrefix(t) = [family |-> t.family, addr |-> t.addr, bits |-> t.bits]
           /\ ParsePrefix(t) # Nothing
           /\ Text(ParsePrefix(t)) = t
           /\ (t.addr % 2^(Width - t.bits)) = 0
           /\ ParseCIDR(t).family = t.family
<1> DEFINE k == 2^(Width - t.bits)
           n == ParseCIDR(t)
<1>1. /\ t.spelling = "canonical" /\ t.addr = n.addr
      /\ t = [family |-> t.family, addr |-> t.addr, bits |-> t.bits, spelling |-> "canonical"]
  <2>1. Text(n).spelling = "canonical" /\ Text(n).addr = n.addr
    BY DEF Text
  <2>2. /\ t = [family |-> n.family, addr |-> n.addr, bits |-> n.bits, spelling |-> "canonical"]
    BY DEF Text
  <2> QED BY <2>1, <2>2
<1>2. n.addr = t.addr - (t.addr % k) /\ n.family = t.family
  BY <1>1 DEF ParseCIDR
<1>3. Width \in Nat /\ t.bits \in 0 .. Width /\ t.addr \in 0 .. 2^Width - 1 /\ t.family \in {"v4", "v6"}
  BY ValidationAssumption DEF Texts
<1>4. t.addr \in Nat /\ t.bits \in Nat /\ k \in Nat /\ k > 0
  <2>1. Width - t.bits \in Nat
    BY <1>3
  <2>2. k \in Nat /\ k > 0 /\ 2^Width \in Nat
    BY <1>3, <2>1, PowerOfTwo
  <2> HIDE DEF k
  <2>3. PICK w \in Nat : w = 2^Width
    BY <2>2
  <2>4. t.addr \in 0 .. w - 1
    BY <1>3, <2>3, Zenon
  <2> QED BY <1>3, <2>2, <2>4
<1>5. t.addr % k = 0
  <2>1. t.addr = t.addr - (t.addr % k)
    BY <1>1, <1>2
  <2> HIDE DEF k
  <2> QED BY <1>4, <2>1, NoHostBits
<1>6. ParsePrefix(t) = [family |-> t.family, addr |-> t.addr, bits |-> t.bits]
  BY <1>1 DEF ParsePrefix
<1>7. [family |-> t.family, addr |-> t.addr, bits |-> t.bits] # Nothing
  BY <1>3, <1>4, ValidationAssumption
<1>8. Text(ParsePrefix(t)) = t
  BY <1>1, <1>6 DEF Text
<1> QED BY <1>2, <1>5, <1>6, <1>7, <1>8

\* What is stored has passed the webhook, or is known not to have.
ValidationInv ==
    checked => /\ stored # Nothing /\ stored \in PoolSpecs
               /\ validate(stored) = "admitted"

LEMMA ValidationInvInductive ==
    /\ ValidationInit => ValidationInv
    /\ ValidationInv /\ [ValidationNext]_validationVars => ValidationInv'
<1>1. ValidationInit => ValidationInv
  BY DEF ValidationInit, ValidationInv
<1>2. ASSUME ValidationInv, [ValidationNext]_validationVars PROVE ValidationInv'
  <2>1. ASSUME NEW pool \in Requests, Admit(pool) PROVE ValidationInv'
    <3>1. CASE answer' = "admitted"
      <4>1. stored' = pool /\ pool \in PoolSpecs /\ validate(pool) = "admitted"
        BY <2>1, <3>1, ValidationAssumption DEF Admit
      <4>2. validate(stored') = "admitted" /\ stored' # Nothing
        BY <4>1, ValidationAssumption
      <4> QED BY <4>1, <4>2 DEF ValidationInv
    <3>2. CASE answer' # "admitted"
      BY <1>2, <2>1, <3>2 DEF ValidationInv, Admit
    <3> QED BY <3>1, <3>2
  <2>3. ASSUME NEW pool \in Requests, StoreUnchecked(pool) PROVE ValidationInv'
    BY <2>3 DEF StoreUnchecked, ValidationInv
  <2>4. CASE ChangeWebhookVersions
    BY <1>2, <2>4 DEF ChangeWebhookVersions, ValidationInv
  <2>2. CASE UNCHANGED validationVars
    BY <1>2, <2>2 DEF ValidationInv, validationVars
  <2> QED BY <1>2, <2>1, <2>2, <2>3, <2>4 DEF ValidationNext
<1> QED BY <1>1, <1>2

\* What a sequence over a set holds.
LEMMA ElementType ==
    ASSUME NEW T, NEW q \in Seq(T), NEW i \in DOMAIN q
    PROVE  q[i] \in T
OBVIOUS

\* The subnets of a pool that passes the webhook.
LEMMA AdmittedSubnets ==
    ASSUME NEW pool \in PoolSpecs, validate(pool) = "admitted", NEW i \in DOMAIN pool.subnets
    PROVE  LET s == pool.subnets[i]
               prefix == ParsePrefix(s.cidr)
           IN  /\ prefix # Nothing
               /\ Text(prefix) = s.cidr
               /\ (prefix.addr % 2^(Width - prefix.bits)) = 0
               /\ Is4(prefix.family) <=> Is4(s.gateway)
<1> DEFINE s == pool.subnets[i]
           prefix == ParsePrefix(s.cidr)
<1>1. ValidSubnet(s)
  BY DEF validate
<1>2. s.cidr \in Texts \cup {Nothing}
  <2>1. pool.subnets \in Seq([cidr : Texts \cup {Nothing}, gateway : Gateways \cup {Nothing}])
    BY DEF PoolSpecs
  <2>2. s \in [cidr : Texts \cup {Nothing}, gateway : Gateways \cup {Nothing}]
    BY <2>1, ElementType
  <2> HIDE DEF s
  <2> QED BY <2>2
<1>3. s.cidr # Nothing /\ Text(ParseCIDR(s.cidr)) = s.cidr
  BY <1>1 DEF ValidSubnet, ParseCIDR
<1>4. s.cidr \in Texts
  BY <1>2, <1>3
<1> HIDE DEF s
<1>5. /\ prefix = [family |-> s.cidr.family, addr |-> s.cidr.addr, bits |-> s.cidr.bits]
      /\ prefix # Nothing
      /\ Text(prefix) = s.cidr
      /\ (s.cidr.addr % 2^(Width - s.cidr.bits)) = 0
      /\ ParseCIDR(s.cidr).family = s.cidr.family
  BY <1>3, <1>4, CanonicalText
<1>6. prefix.family = s.cidr.family /\ prefix.addr = s.cidr.addr /\ prefix.bits = s.cidr.bits
  BY <1>5
<1>7. Is4(prefix.family) <=> Is4(s.gateway)
  <2>1. VersionsMatch(ParseCIDR(s.cidr), s.gateway)
    BY <1>1 DEF ValidSubnet
  <2>2. s.cidr.family \in {"v4", "v6"}
    BY <1>4 DEF Texts
  <2> HIDE DEF prefix
  <2> QED BY <2>1, <2>2, <1>5, <1>6 DEF VersionsMatch, Is4, Is6
<1>8. (prefix.addr % 2^(Width - prefix.bits)) = 0
  BY <1>5, <1>6, Zenon
<1> QED BY <1>5, <1>7, <1>8 DEF s

\* validate refuses every subnet that the controllers, which use another
\* package, would not parse to the same network: whenever the stored pool has
\* passed it, the prefix prints as the text in the pool and has no host bits, and
\* the gateway is of the same family, for every width of addresses and every set
\* of requests.  Whether validate is asked at all is another matter
\* (webhookVersions).
THEOREM CheckedPoolsParse == ValidationSpec => []CheckedSubnetsParse
<1>1. ValidationInv => CheckedSubnetsParse
  <2> SUFFICES ASSUME ValidationInv, checked
               PROVE  /\ stored # Nothing
                      /\ stored.subnets # <<>>
                      /\ \A i \in DOMAIN stored.subnets :
                            LET s == stored.subnets[i]
                                prefix == ParsePrefix(s.cidr)
                            IN  /\ prefix # Nothing
                                /\ Text(prefix) = s.cidr
                                /\ (prefix.addr % 2^(Width - prefix.bits)) = 0
                                /\ Is4(prefix.family) <=> Is4(s.gateway)
    BY Zenon DEF CheckedSubnetsParse
  <2>1. stored # Nothing /\ stored \in PoolSpecs /\ validate(stored) = "admitted"
    BY DEF ValidationInv
  <2>2. stored.subnets # <<>>
    BY <2>1 DEF validate
  <2> QED BY <2>1, <2>2, AdmittedSubnets, Zenon
<1> QED BY <1>1, ValidationInvInductive, PTL DEF ValidationSpec
=============================================================================
