--------------------------- MODULE InfobloxClient ---------------------------
(***************************************************************************)
(* The Infoblox client wrapper, src/pkg/infoblox/addresses.go, and the     *)
(* part of the Infoblox WAPI server it talks to.                           *)
(*                                                                         *)
(* GetOrAllocateAddress and ReleaseAddress are read-modify-write           *)
(* sequences: they look the host record up, change the list of addresses   *)
(* in memory, and write the whole list back.  Each WAPI call is a step of  *)
(* its own, so anything may happen between two of them, and each of them   *)
(* can fail before the server acts or lose the answer after it acted.      *)
(*                                                                         *)
(* A host record is the set of its addresses: the code looks only for      *)
(* addresses that the subnet contains, which makes the IPv4 and the IPv6   *)
(* list one set.  Infoblox stores no host record without an address, so    *)
(* {} stands for "no such record".                                         *)
(***************************************************************************)
EXTENDS Naturals, FiniteSets

CONSTANTS
    NetworkViews,   \* the network views of the Infoblox grid
    DefaultView,    \* the one the server uses when a request names none
    Hosts,          \* host names
    Subnets,        \* the subnets of all pools that parse as a prefix
    Addrs,          \* IP addresses
    AddrsIn,        \* the addresses of each subnet
    None,           \* the empty string, the nil address, the empty reference
    MaxFaults       \* bound on the failures of a behaviour

ASSUME ClientAssumption ==
    /\ DefaultView \in NetworkViews
    /\ None \notin NetworkViews
    /\ None \notin Hosts
    /\ None \notin Subnets
    /\ None \notin Addrs
    /\ MaxFaults \in Nat

\* Networks of a view that hold addresses do not overlap.
ASSUME SubnetsDisjoint ==
    /\ AddrsIn \in [Subnets -> SUBSET Addrs]
    /\ \A s, t \in Subnets : s # t => AddrsIn[s] \cap AddrsIn[t] = {}

\* controller.Options of the claim controller.  Two is what it would be if
\* the option were raised.
TwoConcurrentReconciles == 2
MaxConcurrentReconciles == 1

Workers == 1 .. MaxConcurrentReconciles

VARIABLES
    hostRecords,    \* hostRecords[v][h]: addresses of the host record h in view v
    foreign,        \* foreign[v]: addresses of v used by others
    call,           \* call[w]: the client call worker w is executing
    faults          \* failures so far

clientVars == <<hostRecords, foreign, call, faults>>

\* The arguments and local variables of a call.  hr is the in-memory list of
\* addresses, ref the view the fetched record is in (None for a new record).
NoCall ==
    [step |-> "idle", op |-> "allocate", view |-> None, host |-> None,
     subnet |-> None, hr |-> {}, ref |-> None, err |-> FALSE, addr |-> None]

CallType ==
    [step   : {"idle", "lookup", "write", "refetch", "returned"},
     op     : {"allocate", "release"},
     view   : NetworkViews \cup {None},
     host   : Hosts \cup {None},
     subnet : Subnets \cup {None},
     hr     : SUBSET Addrs,
     ref    : NetworkViews \cup {None},
     err    : BOOLEAN,
     addr   : Addrs \cup {None}]

----------------------------------------------------------------------------
(* The WAPI server *)

\* The view a request without a network view is about.
ViewOf(v) == IF v = None THEN DefaultView ELSE v

\* Addresses of view v that belong to someone.
Used(v) == foreign[v] \cup UNION {hostRecords[v][h] : h \in Hosts}

UsedByOthers(v, h) ==
    foreign[v] \cup UNION {hostRecords[v][g] : g \in Hosts \ {h}}

\* The views in which a query for host h, restricted to view v unless v is
\* empty, finds a record.
Matching(v, h) ==
    {u \in NetworkViews : (v = None \/ u = v) /\ hostRecords[u][h] # {}}

\* Mutant of NextAvailable: the function is not told the network view.
NextAvailableInDefaultView(v, s) == AddrsIn[s] \ Used(DefaultView)

\* What func:nextavailableip:<subnet>,<view> can return: an address of the
\* subnet that is free in the view the function names.  That need not be the
\* view of the record that is written.
NextAvailable(v, s) == AddrsIn[s] \ Used(ViewOf(v))

\* The server refuses a write that names addresses of another owner.
NoConflict(u, h, addrs) == addrs \cap UsedByOthers(u, h) = {}

----------------------------------------------------------------------------
(* How a step of a call ends *)

\* The call hands err and a to its caller.
Return(w, err, a) ==
    call' = [call EXCEPT ![w] = [@ EXCEPT !.step = "returned", !.err = err, !.addr = a]]

\* The call will write the list addrs to the record ref.
SendNext(w, addrs, ref) ==
    call' = [call EXCEPT ![w] = [@ EXCEPT !.step = "write", !.hr = addrs, !.ref = ref]]

\* The request fails before the server acts on it.
RequestFails(w) ==
    /\ faults < MaxFaults
    /\ faults' = faults + 1
    /\ Return(w, TRUE, None)
    /\ UNCHANGED <<hostRecords, foreign>>

\* The server rejects the request: no fault, but what the call asked for is
\* impossible in the current state.
Rejected(w) ==
    /\ Return(w, TRUE, None)
    /\ UNCHANGED <<hostRecords, foreign, faults>>

\* The server stores addrs as the record of host h in view u.  Either the
\* caller learns about it and its call becomes c, or the answer is lost.
Store(w, u, h, addrs, c) ==
    /\ hostRecords' = [hostRecords EXCEPT ![u][h] = addrs]
    /\ \/ /\ call' = [call EXCEPT ![w] = c]
          /\ UNCHANGED faults
       \/ /\ faults < MaxFaults
          /\ faults' = faults + 1
          /\ Return(w, TRUE, None)
    /\ UNCHANGED foreign

----------------------------------------------------------------------------
(* getOrNewHostRecord *)

\* Mutant of FoundAddr: any address of the record will do.
FoundAnyAddr(w, addrs) == addrs

\* getAllocatedHostRecordAddrInSubnet: the addresses it may return.
FoundAddr(w, addrs) == addrs \cap AddrsIn[call[w].subnet]

\* Mutant of AfterLookupAllocate: an existing address is not looked for.
AllocateWithoutLooking(w, addrs, ref) ==
    SendNext(w, addrs, ref)

\* GetOrAllocateAddress after getOrNewHostRecord: an address of the subnet is
\* returned as it is, otherwise one is requested.
AfterLookupAllocate(w, addrs, ref) ==
    \/ \E a \in FoundAddr(w, addrs) : Return(w, FALSE, a)
    \/ /\ FoundAddr(w, addrs) = {}
       /\ SendNext(w, addrs, ref)

\* Mutant of AfterLookupRelease: a missing address is not noticed.
ReleaseWithoutLooking(w, addrs, ref) ==
    SendNext(w, addrs \ AddrsIn[call[w].subnet], ref)

\* ReleaseAddress after getOrNewHostRecord: the first address of the subnet
\* is cut out of the list; if there is none the call is done.
AfterLookupRelease(w, addrs, ref) ==
    \/ \E a \in FoundAddr(w, addrs) : SendNext(w, addrs \ {a}, ref)
    \/ FoundAddr(w, addrs) = {} /\ Return(w, FALSE, None)

AfterLookup(w, addrs, ref) ==
    \/ call[w].op = "allocate" /\ AfterLookupAllocate(w, addrs, ref)
    \/ call[w].op = "release" /\ AfterLookupRelease(w, addrs, ref)

\* getOrNewHostRecord: one matching record is taken, none gives a new one,
\* more than one is an error.
Lookup(w) ==
    LET h == call[w].host
        m == Matching(call[w].view, h)
    IN
    /\ call[w].step = "lookup"
    /\ \/ RequestFails(w)
       \/ /\ Cardinality(m) > 1
          /\ Rejected(w)
       \/ /\ \/ m = {} /\ AfterLookup(w, {}, None)
             \/ \E u \in NetworkViews : m = {u} /\ AfterLookup(w, hostRecords[u][h], u)
          /\ UNCHANGED <<hostRecords, foreign, faults>>

----------------------------------------------------------------------------
(* createOrUpdateHostRecord *)

\* The create succeeds: the record must not exist yet.
CreateObject(w) ==
    LET c == call[w]
        u == ViewOf(c.view)
    IN
    /\ c.ref = None
    /\ hostRecords[u][c.host] = {}
    /\ \E a \in NextAvailable(c.view, c.subnet) :
          /\ NoConflict(u, c.host, {a})
          /\ Store(w, u, c.host, {a}, [c EXCEPT !.step = "refetch", !.ref = u])

\* The update succeeds: it replaces the whole list.  The record must still be
\* there, and neither the addresses the list names nor the one the function
\* picks may have another owner.
UpdateObject(w) ==
    LET c == call[w] IN
    /\ c.ref # None
    /\ hostRecords[c.ref][c.host] # {}
    /\ \E a \in NextAvailable(c.view, c.subnet) \ c.hr :
          /\ NoConflict(c.ref, c.host, c.hr \cup {a})
          /\ Store(w, c.ref, c.host, c.hr \cup {a}, [c EXCEPT !.step = "refetch"])

\* The server refuses the create or the update: the record exists already or
\* is gone, the subnet is exhausted, or an address of the new list has another
\* owner, which includes one that is free only in the view of the function.
WriteImpossible(w) ==
    LET c == call[w]
        u == IF c.ref = None THEN ViewOf(c.view) ELSE c.ref
    IN
    \/ (c.ref = None) # (hostRecords[u][c.host] = {})
    \/ NextAvailable(c.view, c.subnet) = {}
    \/ \E a \in NextAvailable(c.view, c.subnet) :
          a \in c.hr \/ ~NoConflict(u, c.host, c.hr \cup {a})

WriteHostRecord(w) ==
    /\ call[w].step = "write"
    /\ call[w].op = "allocate"
    /\ \/ RequestFails(w)
       \/ CreateObject(w)
       \/ UpdateObject(w)
       \/ WriteImpossible(w) /\ Rejected(w)

\* The record is fetched again by its reference to learn which address the
\* server picked.
Refetch(w) ==
    LET c == call[w]
        now == hostRecords[c.ref][c.host]
    IN
    /\ c.step = "refetch"
    /\ \/ RequestFails(w)
       \/ FoundAddr(w, now) = {} /\ Rejected(w)
       \/ /\ \E a \in FoundAddr(w, now) : Return(w, FALSE, a)
          /\ UNCHANGED <<hostRecords, foreign, faults>>

----------------------------------------------------------------------------
(* The write of ReleaseAddress *)

\* Mutant of WriteRelease: the record is deleted although addresses are left.
DeleteHostRecordAlways(w) ==
    LET c == call[w] IN
    /\ c.step = "write"
    /\ c.op = "release"
    /\ Store(w, c.ref, c.host, {}, [c EXCEPT !.step = "returned"])

\* Mutant of WriteRelease: the error of the request is not looked at.
WriteReleaseUnchecked(w) ==
    LET c == call[w] IN
    /\ c.step = "write"
    /\ c.op = "release"
    /\ \/ Store(w, c.ref, c.host, c.hr, [c EXCEPT !.step = "returned"])
       \/ Return(w, FALSE, None) /\ UNCHANGED <<hostRecords, foreign, faults>>

\* A record that has lost its last address is deleted, another one is updated
\* with the addresses that are left.
WriteRelease(w) ==
    LET c == call[w] IN
    /\ c.step = "write"
    /\ c.op = "release"
    /\ \/ RequestFails(w)
       \/ /\ hostRecords[c.ref][c.host] # {}
          /\ NoConflict(c.ref, c.host, c.hr)
          /\ Store(w, c.ref, c.host, c.hr, [c EXCEPT !.step = "returned"])
       \/ /\ \/ hostRecords[c.ref][c.host] = {}
             \/ ~NoConflict(c.ref, c.host, c.hr)
          /\ Rejected(w)

----------------------------------------------------------------------------
(* The caller, other users of Infoblox, and crashes of the manager *)

Begin(w, op, v, h, s) ==
    /\ call[w].step = "idle"
    /\ call' = [call EXCEPT ![w] =
                  [NoCall EXCEPT !.step = "lookup", !.op = op, !.view = v,
                                 !.host = h, !.subnet = s]]

BeginCall(w) ==
    /\ \E op \in {"allocate", "release"}, v \in NetworkViews \cup {None},
          h \in Hosts, s \in Subnets : Begin(w, op, v, h, s)
    /\ UNCHANGED <<hostRecords, foreign, faults>>

EndCall(w) ==
    /\ call[w].step = "returned"
    /\ call' = [call EXCEPT ![w] = NoCall]
    /\ UNCHANGED <<hostRecords, foreign, faults>>

\* The process dies and forgets what it was doing; the server does not.
CrashClient ==
    /\ faults < MaxFaults
    /\ faults' = faults + 1
    /\ call' = [w \in Workers |-> NoCall]
    /\ UNCHANGED <<hostRecords, foreign>>

ForeignTake(v, a) ==
    /\ a \in Addrs \ Used(v)
    /\ foreign' = [foreign EXCEPT ![v] = @ \cup {a}]
    /\ UNCHANGED <<hostRecords, call, faults>>

ForeignFree(v, a) ==
    /\ a \in foreign[v]
    /\ foreign' = [foreign EXCEPT ![v] = @ \ {a}]
    /\ UNCHANGED <<hostRecords, call, faults>>

ForeignStep ==
    \E v \in NetworkViews, a \in Addrs : ForeignTake(v, a) \/ ForeignFree(v, a)

\* One WAPI call of worker w.
WapiStep(w) == Lookup(w) \/ WriteHostRecord(w) \/ Refetch(w) \/ WriteRelease(w)

ClientInit ==
    /\ hostRecords = [v \in NetworkViews |-> [h \in Hosts |-> {}]]
    /\ foreign \in [NetworkViews -> SUBSET Addrs]
    /\ call = [w \in Workers |-> NoCall]
    /\ faults = 0

ClientNext ==
    \/ \E w \in Workers : BeginCall(w) \/ WapiStep(w) \/ EndCall(w)
    \/ CrashClient
    \/ ForeignStep

ClientSpec == ClientInit /\ [][ClientNext]_clientVars

----------------------------------------------------------------------------
(* Properties *)

\* A call that is under way has a host and a subnet, and a reference to a
\* record where it needs one.
ArgsOK(c) ==
    /\ c.step # "idle" => c.host \in Hosts /\ c.subnet \in Subnets
    /\ c.step = "refetch" \/ (c.step = "write" /\ c.op = "release") => c.ref \in NetworkViews

TypeOK ==
    /\ hostRecords \in [NetworkViews -> [Hosts -> SUBSET Addrs]]
    /\ foreign \in [NetworkViews -> SUBSET Addrs]
    /\ call \in [Workers -> CallType]
    /\ \A w \in Workers : ArgsOK(call[w])
    /\ faults \in 0 .. MaxFaults

\* What a call has read is still true when it writes: the record has exactly
\* the addresses the new list was made from, or is still missing; and what it
\* has written is still there when it fetches the record again.  Nothing in
\* the protocol ensures it (no lock, no revision); it holds because one worker
\* makes all the calls ("To avoid race conditions when allocating IP
\* Addresses, we explicitly set this to 1", ipaddressclaim.go:82).
SnapshotFresh ==
    \A w \in Workers :
        LET c == call[w]
            m == Matching(c.view, c.host)
        IN
        /\ c.step = "write" /\ c.ref = None =>
               c.op = "allocate" /\ c.hr = {} /\ m = {}
        /\ c.step = "write" /\ c.ref # None =>
               LET now == hostRecords[c.ref][c.host] IN
               /\ m = {c.ref}
               /\ c.op = "allocate" => c.hr = now /\ FoundAddr(w, now) = {}
               /\ c.op = "release" => \E a \in FoundAddr(w, now) : c.hr = now \ {a}
        /\ c.step = "refetch" =>
               /\ c.op = "allocate" /\ c.ref \in NetworkViews /\ c.view \in {None, c.ref}
               /\ FoundAddr(w, hostRecords[c.ref][c.host]) # {}

Ledger == INSTANCE AddressLedger WITH held <- hostRecords

\* The read-modify-write sequences implement the ledger's atomic steps: every
\* write of a list read earlier adds one address of the subnet asked for, or
\* removes one, and never drops or resurrects an address of another subnet.
ImplementsLedger == Ledger!Spec

\* No address is in two host records of a view, or in one while others use it.
\* The server alone ensures it (NoConflict); the client's proofs rely on it.
Exclusive == Ledger!Exclusive

\* Apart from faults, a request after the lookup is refused in one case only:
\* an allocation finds every address of the subnet in use.  No release and no
\* second fetch is refused, and no allocation because its list is out of date
\* or names another view's address ("nextavailableip:%s,%s",
\* addresses.go:143-145).  Excepted are records in another view than the
\* default one that a call with an empty network view has found: there the
\* function is evaluated in the default view.
RefusedOnlyWhenFull ==
    [][\A w \in Workers :
          LET c == call[w]
              u == IF c.ref = None THEN ViewOf(c.view) ELSE c.ref
          IN
          /\ c.step \in {"write", "refetch"}
          /\ call'[w].step = "returned" /\ ~c.err /\ call'[w].err
          /\ faults' = faults
          => /\ c.step = "write" /\ c.op = "allocate"
             /\ c.view # None \/ u = DefaultView => AddrsIn[c.subnet] \subseteq Used(u)
      ]_clientVars

\* Retrying an allocation whose answer was lost gives no second address.
OnePerSubnet == Ledger!OnePerSubnet

\* GetOrAllocateAddress returns an address of the subnet asked for that the
\* host's record holds at that time ("returns the new or existing address",
\* client.go:29).
AllocateContract ==
    \A w \in Workers :
        LET c == call[w] IN
        c.step = "returned" /\ c.op = "allocate" /\ ~c.err =>
            /\ c.addr \in AddrsIn[c.subnet]
            /\ \E u \in Matching(c.view, c.host) : c.addr \in hostRecords[u][c.host]

\* When ReleaseAddress reports success the host has no address of the subnet
\* left in any record the same query finds, so nobody needs to call it again.
ReleaseContract ==
    \A w \in Workers :
        LET c == call[w] IN
        c.step = "returned" /\ c.op = "release" /\ ~c.err =>
            \A u \in Matching(c.view, c.host) :
                hostRecords[u][c.host] \cap AddrsIn[c.subnet] = {}
=============================================================================
