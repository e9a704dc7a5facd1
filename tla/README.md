# A TLA+ model of the Infoblox IPAM provider for Cluster API

The provider watches `IPAddressClaim`s that reference an `InfobloxIPPool`,
allocates an address for each of them in Infoblox, and writes it into an
`IPAddress`. These modules model the parts of it that are hard to test: the
requests to Infoblox and to the Kubernetes API that make up one reconciliation
can fail, lose their answer, be cut off by a crash, and interleave with other
controllers, users and other clients of Infoblox; and the configuration that allocations rest on is
searched, checked and admitted by code with surprises of its own.

All paths are relative to the repository (`src/`).

## The system

| Component | State | Operations | Talks to |
|---|---|---|---|
| Client wrapper, `pkg/infoblox/addresses.go`, `client.go` | none of its own; a fetched host record while a call runs | `GetOrAllocateAddress`, `ReleaseAddress`, `Check*` | Infoblox WAPI |
| Infoblox (external) | host records per network view, addresses of others | lookup, create, update, delete, `func:nextavailableip` | |
| Claim controller, `internal/controllers/ipaddressclaim.go`, inside the generic `ClaimReconciler` (external) | claim: finalizer, host name annotation, Ready; `IPAddress` | `FetchPool`, `EnsureAddress`, `ReleaseAddress` | client wrapper, pool, owners of the claim |
| Pool controller, `internal/controllers/infobloxippool.go` | pool: finalizer, `spec.networkView`, Ready | `Reconcile` | client wrapper, claims (`internal/poolutil`) |
| Pool webhook, `internal/webhooks/infobloxippool.go` | none | `ValidateCreate/Update/Delete` | `IPAddress`es of the pool |
| Instance controller, `internal/controllers/infobloxinstance.go` | instance: Ready | `Reconcile` | secret, client wrapper |
| Host name resolver, `internal/hostname/resolver.go` | none | depth-limited search of the owner references | API server |
| Indexes, predicates, `main.go`, API types | none | selection and wiring | |

What is hard about it:

* The client's calls read a host record, change the list of addresses in
  memory and write the whole list back. There is no lock and no revision; the
  only protection is that the claim controller has one worker
  (`ipaddressclaim.go:82`).
* A request can take effect although its caller gets an error.
* A reconciliation changes Infoblox first and stores the claim's finalizer,
  annotation and condition in a patch at its very end.
* Several claims are served by one host record: those of one machine, and those
  with the same name in different namespaces.
* The pool controller and the claim controller run concurrently and share the
  pool. The pool's view is filled in, and its finalizer removed, by a patch
  based on what was read several requests earlier.
* A pool waits for its claims, and claims wait for their pool.
* The instance controller judges a configuration with another client than the
  one that uses it: its own does not get `spec.port`, the other no
  `customCAPath`. What it
  reads may change between two reads, and only changes of the instance itself
  make it look again.
* The host name search ends at the first owner that cannot be read, so the order
  of the owners matters, and the comparison that makes this order is not a
  consistent one.
* The webhook and the controllers parse subnets with different libraries, and
  the shipped configuration does not make the API server ask the webhook.

What makes each component correct, in a sentence:

* client: every call adds or removes one address of the subnet asked for and
  touches nothing else; repeating a call repeats no allocation;
* claim controller: a live claim keeps the address it was given, a released
  claim holds none, and both states are reached;
* pool controller: Ready reflects the checks, the finalizer protects the claims,
  and the view does not change under them;
* webhook: a pool in use is not deleted or emptied, and what it accepts can be
  used by the controllers;
* instance controller: Ready tells whether allocations can work (the code falls
  short of it: what holds is that Ready is the verdict of its checks);
* resolver: it finds the Machine if there is one within the depth.

## Modules

| Module | Models | Used by |
|---|---|---|
| `AddressLedger` | what the client promises: an atomic ledger of who holds which address | refined by `InfobloxClient` |
| `InfobloxClient` | `addresses.go` with one step per WAPI request, and the server | extended by `ClaimReconciler` |
| `InfobloxClientProofs` | proofs about it | |
| `ClaimReconciler` | `ipaddressclaim.go` and the reconciler around it, composed with the client | |
| `ClaimReconcilerProofs`, `ClaimHeldProofs`, `ClaimLeakProofs` | proofs about it | |
| `InfobloxIPPool` | pool controller, deletion webhook and claims around one pool | |
| `InfobloxIPPoolProofs` | proofs about it | |
| `HostnameResolver` | the search of `resolver.go`, one step per object read | `MCConfiguration` |
| `HostnameResolverProofs` | proofs about it | |
| `InfobloxInstance` | `infobloxinstance.go`, and the client of `util.go` | `MCConfiguration` |
| `InfobloxInstanceProofs` | proofs about it | |
| `PoolValidation` | creation and update of pools, with and without the webhook | `MCConfiguration` |
| `PoolValidationProofs` | proofs about it | |
| `MC...` | instances for TLC | |

### InfobloxClient

`hostRecords[v][h]` is the set of addresses of host `h` in network view `v`
(empty: no such record), `foreign[v]` what others use. `call[w]` holds the
arguments and local variables of the call that worker `w` executes; its `step`
is the request that comes next:

* `lookup`: `getOrNewHostRecord`. No record gives a new one, several are an
  error. A pool without a view searches all views. `AfterLookup` is what the
  two calls do with the result.
* `write`: `createOrUpdateHostRecord` (`WriteHostRecord`), or the delete or
  update at the end of `ReleaseAddress` (`WriteRelease`).
* `refetch`: the record is read again to see which address was picked.

Every request may fail before the server acts (`RequestFails`), and a write may
succeed without its caller knowing (the second case of `Store`). The order of
addresses in a record is not kept: where the code takes the first match, the
model takes any. IPv4 and IPv6 lists are one set, since the code only compares
addresses with the subnet. DNS view and zone do not influence which addresses
are held and are left out.

Assumptions about the server: `func:nextavailableip` returns an address that is
free in the view it names, writes that would take an address from another record
are refused, networks that hold addresses do not overlap (`SubnetsDisjoint`).
So that an address has one owner in a view (`Exclusive`) is the server's doing
and is not checked as a property of the client; its proofs use it.

What the client can get wrong is to be refused. It names its own view in the
function (`NextAvailable`), not the record's. The two differ if the view is
empty and the lookup has found the record in another view than the default one:
the server then picks an address that is free in the default view and refuses
the write if it is in use in the record's view. `RefusedOnlyWhenFull` says that,
this case and faults apart, no request after the lookup is refused unless the
subnet is full.

### ClaimReconciler

`claims[c]` is the stored claim, `rec[w]` the one in memory together with the
progress of the reconciliation. `Start`, `WriteAddress`, `DeleteAddress` and
`PatchClaim` are the generic reconciler; `FetchPool`, `EnsureHostname`,
`ReleaseHostname`, `SkipSubnet`, `CallClient`, `AllocateReturns`,
`ReleaseReturns` and `LoopEnds` are the handler, in the order of the code. The
final patch sends metadata and conditions separately, so either may fail. Owners
disappear (`OwnerChainBreaks`), users delete claims at any time and preset the
annotation (`Presets`), the pool becomes unusable and usable again, the manager
crashes. `swallowed` is a history variable: the claims whose last
`ReleaseAddress` dropped an error. Pool data (`PoolSubnets`, `PoolView`) is
constant here; `InfobloxIPPool` is about its changes.

`Alone(c)` excludes claims that share host name, subnet and view with another
one; for those the properties are false, which the run `claim_same_name` shows.

### InfobloxIPPool

`pool` is the stored pool, `prec` the pool controller's reconciliation with the
pool as it was read (`old`) and as it will be stored (`new`). `Reconcile`,
`ListClaims`, `CheckClient`, `CheckNetworkView`, `CheckDNSView`,
`CheckNetworks` follow the code; the deferred patch is `PatchConditions`
followed by `PatchSpec`, as in the patch helper, and writes only what differs
between `old` and `new`. `broken` is the set of checks that fail at present.
The claim controller has three steps here (read claim and pool, change
Infoblox, store the outcome); that one change in Infoblox is atomic is what
`ClaimImplementsLedger` proves. One subnet stands for the pool's list, so
`held[c]` only tells the views in which `c` has an address. `explicit` and
`late` are history: the view a user asked for, and whether a claim was created
after the pool was deleted.

### HostnameResolver

`owners` is the owner graph, `path` and `rest` are the recursion of `find`: the
objects from the claim to the one whose owners are being tried, and the owners
left to try of each of them. `GetHostname` is the first call of `find`;
`TryOwner` reads one owner and calls `find` for it, or ends the search when the
owner is not `readable`; `Backtrack` is a call that returns an empty name.
`Find` looks for a Machine among the owners first and sorts the others with the
comparison of the code (`ComesBefore`) by insertion, as `slices.SortFunc` does
for up to twelve elements. Objects may become unreadable and readable again at
any time; `lost` remembers those that were unreadable.

`KindOf` stands for kind and API group together. `MachineKindsSuffice` is what
is left of the comment that says which owners are tried first
(`resolver.go:89-91`): owners with "Machine" in their kind come first, so an
unreadable owner of another kind does no harm where they lead to the Machine.
The other half of the comment is not true of the code: the group of the
*second* argument is looked at (line 96), so owners in the infrastructure group
come last, and the third branch cannot be reached. No run is kept for that, as
the comment calls the order an optimization.

### InfobloxInstance

`instance` (its spec), `ready` (the reason of its Ready condition), `secret` and
`server` (Infoblox) are stored or outside; `irec` is the reconciliation, with
the spec and condition as they were read and the condition to be stored. The
steps `ReconcileInstance`, `FetchSecret`, `CheckDefaultNetworkView`,
`CheckDefaultDNSView` and `PatchInstance` are the code's requests in their
order; between two of them users and administrators change anything
(`EditInstance`, `EditSecret`, `ChangeServer`), requests fail
(`InstanceRequestFails`) and the manager crashes. `disturbed` is history:
something of that kind happened since the last reconciliation began.

`InstanceClient` and `ClientForInstance` are the two clients built from one
instance, both through `NewClient`, which splits a port off the host
(`client.go:79-85`); `hostPorts` is what `spec.host` says after its name. The
instance controller passes the host as it is, so it connects to the port in the
host or to 443, whatever `spec.port` says; the other controllers append
`spec.port` even to a host that has a port (`util.go:31`), which gives an
address nothing answers at. Only the first uses `customCAPath`. And a default
view must be set for the instance controller to make a request at all.

`ChecksPass` says what the controller's checks find out, `Usable` what the other
controllers need. Ready follows the first (`ReadyIsTheVerdict`, `ReadySettles`).
It implies the second only for specs with which both connections are set up
alike and a request is made (`AskedAlike`): no port in the host, port 443, no
`customCAPath` unless verification is disabled, and a default view
(`ReadyMeansUsable`). Without this premise TLC finds violations at once: with no
default view an instance is Ready while Infoblox is down, with another port it
is Ready because of another server. So the message "Successfully connected to
Infoblox instance and validated configuration" (`infobloxinstance.go:165`) and
the description of `port`, "Port to use when connecting to the Infoblox
instance" (`infobloxinstance_types.go:28`), are not true of the code.

Whether Infoblox accepts the credentials is not told apart from whether it
answers.

### PoolValidation

`validate` is an operator on pools. Whether it is called depends on
`webhookVersions`, the API versions that the webhook configuration names. The
repository ships `v1alpha2` (`webhooks/infobloxippool.go:52-53`,
`config/webhook/manifests.yaml`), while the custom resource definition serves
`v1alpha1` only. The API server matches rules against the versions of a resource
that are served (`matchPolicy: Equivalent` adds no version that is not), so it
does not call the webhook: `StoreUnchecked` stores any pool the schema accepts.
This is the initial state; administrators may name the served version and take
it back (`ChangeWebhookVersions`). `Admit` is a request that reaches `validate`:
it stores the pool if it is accepted, and otherwise leaves what was stored.
`checked` is history: the stored pool has passed `validate`.

A text is the record of family, address, prefix length and spelling; `ParseCIDR`
(package `net`, used by the webhook) and `ParsePrefix` (`net/netip`, used by the
controllers) differ in spellings they accept, in host bits, and in IPv4
addresses mapped to IPv6. `CheckedSubnetsParse` says that what `validate`
accepts the controllers read in the same way, which rests on the webhook's
comparison with the printed network. Its premise is that the pool passed
`validate`, so it says nothing as long as the shipped configuration is used: of
every stored pool it is false, contrary to the comment "this should be caught by
validation" (`controllers/infobloxippool.go:172`). A text that does not parse at
all makes the webhook panic (line 154), which the API server sees as an error:
the pool is not stored, but the message "is not a valid CIDR" is lost. An update
is not compared with the stored pool.

In `InfobloxIPPool` the deletion webhook may be skipped in any deletion, as the
annotation allows, which covers that it is not called.

The gateway is optional in the API type (`infobloxippool_types.go:63`) but
required by the webhook; a mapped gateway passes for an IPv6 subnet.

### MCConfiguration

The three modules share no variable and none of them calls another. Their union
is checked in one run: a behaviour is about one of them, its `topic`, and the
others stand still. So it has as many behaviours as the three together and not
their product, and one configuration file holds all bounds.

## Runs

| Run | What it shows |
|---|---|
| `client` | The calls keep their contracts (`AllocateContract`, `ReleaseContract`), never write a list that is out of date (`SnapshotFresh`), never give two addresses of a subnet to one host (`OnePerSubnet`), are refused only when a subnet is full (`RefusedOnlyWhenFull`), and implement `AddressLedger`. |
| `claim_machine` | Two claims of one machine from two pools share a host record; nothing that happens to one takes the address of the other. In these bounds the pools stay usable and their subnets differ; that pools degrade, and that claims with different names share a subnet, is covered by the proofs of `BoundAddressHeld` and `NoDoubleAssignment`. |
| `claim` | One claim of a pool with two subnets, others taking and freeing addresses: Ready means held, released means freed in every subnet unless an error was dropped (also for allocations nobody heard back from); claims are served and deleted claims go away. |
| `pool` | Claims older than the deletion of their pool are not orphaned; an explicit view strands no address; pools become Ready again; deleted pools go, unless Ready stays False. |
| `configuration` | The search finds the Machine in every owner graph in which it should, reports none only if there is none, makes progress with every call, and ends; Ready of an instance is the verdict of the checks about one moment, means that the other controllers can use it where both connections are set up alike, and becomes right and stays right once nothing changes; the subnets of pools that passed `validate` can be parsed by the controllers. |

Seven runs show a disagreement between the code and what it says about itself;
each is expected to end in a violation:

| Run | Statement that fails | What happens |
|---|---|---|
| `claim_release_error` | the record is deleted with the claim (`ipaddressclaim.go:260`) | a failed request in `ReleaseAddress` is only logged; the address is leaked |
| `claim_stuck` | deletion does not need the Machine (`ipaddressclaim.go:260`) | the finalizer was stored by a reconciliation that failed before the annotation was set |
| `claim_second_address` | an address from the first subnet with available addresses (`README.md:86`) | once the first subnet has room, a claim served from the second takes another address |
| `claim_same_name` | every claim has an address (`README.md:84`) | claims of the same name in two namespaces share one, and deleting one frees it |
| `pool_protected` | the finalizer protects addresses (`infobloxippool.go:42`) | a claim is created and served between the list of claims and the patch |
| `pool_inherits` | pools inherit the view (`infobloxinstance_types.go:49`) | a claim is served before the pool controller stored the view |
| `pool_stuck` | a pool can go once its claims are removed (`infobloxippool.go:118`) | a deleted pool is not checked any more, so Ready stays False and its claims cannot be released |

`pool_inherits` also explains why waiting for Ready would not be enough: the
condition is stored before the view is. The same patch can also replace a view
that a user set while the checks were running; no run is kept for that.

### Bounds

Failures and crashes are counted and bounded (`MaxFaults`, `MaxApiFaults`,
`MaxTroubles`, `MaxEdits`); everything else is unbounded in time.

* `client`: two views, two hosts, a subnet with two addresses and one with one,
  two failures. Two failures allow a lost answer followed by a failed retry;
  two hosts and two views are what a conflict needs. Hosts and the two addresses
  of the first subnet are interchangeable (symmetry).
* `claim_machine`: two claims and two failures: requests to Infoblox that fail or
  whose answer is lost, and crashes of the manager. No separate failures of the
  Kubernetes API: a write that fails has the effect of a crash just before it,
  and run `claim` has both. Two claims are enough for interference through a
  record or a subnet, since the properties speak of pairs; they are proved for
  any number of claims and failures of either kind. A claim is created once; its
  successors would have other names.
* `claim`: one claim, two failures on each side, two subnets of one address,
  other users that take and free addresses at any time.
* `pool`: one claim, one broken check, one change of the view by a user, one
  failure; the instance's default view differs from the server's. Claims meet
  only in the list of the pool controller; `NoOrphanedClaim` is proved for any
  number of them.
* `configuration`: five objects, of every kind the order tells apart, with lists
  of up to two owners (three for the claim), so that there are shared
  owners, cycles, and chains of four references where `MaxDepth` is three (five
  in the code, which would only make the chains longer); one disappearance. One
  network view and one DNS view, each of which may be set and may exist, one
  change and one failure; specs with at most one setting out of the ordinary (a
  host with a port, another port, no verification, a private authority), each of
  which bears on whether the two clients differ; secrets with no, half, mixed and complete pairs of
  credentials; a server that works, is down, has a private certificate or
  another port, or lacks a view. Addresses of two bits in every spelling, pools
  of up to two subnets, one of which is of a small choice: `validate` looks at
  one subnet at a time, two are needed to see that no later one makes up for a
  bad one. Both webhook configurations, changed at any time.

Deadlock is not checked in the runs with claims and pools nor in
`configuration`: a behaviour may end with everything deleted, a search and an
admission end. It is checked for the client.

### Fairness

* A worker goes on with its reconciliation (weak fairness of its steps): requests
  return or time out.
* The work queue gets to every existing object again and again (strong fairness
  of `Start` and `FetchPool`, as one worker serves all claims; weak fairness of
  the pool controller's `Reconcile`): the queue is first-in-first-out, errors are
  requeued, changes trigger events. For failed pool checks, which return no
  error, only the periodic resync justifies it.
* The search goes on (weak fairness of its steps). The instance controller's steps
  are weakly fair as a whole, which includes the start of another reconciliation
  although nothing changed: `main.go` does not set `SyncPeriod`, so the manager's
  default resync, every ten hours or so, enqueues every instance. `ReadySettles`
  needs it after a change of the secret or of Infoblox and after a failed check.
* Nothing is assumed of users, of Infoblox, of the pool seen by the claim
  controller or of crashes, except that there are finitely many failures. What
  a liveness property needs of them is its premise.

## Proofs

TLAPS checks the following for all values of the constants.

*InfobloxClientProofs.* `TypeCorrect`; the inductive invariant `ClientInv`
(`InvariantHolds`); from it `NeverStale`, `AtMostOneAddress`,
`AllocateKeepsContract`, `ReleaseKeepsContract`, `RefusalMeansFull`
(`RefusedOnlyWhenFull`); and `ClientImplementsLedger`.
The argument rests on `SnapshotFresh`: as there is one worker
(`MaxConcurrentReconciles == 1`, which is unfolded in the proof), no other call
changes a record between lookup and write. Foreigners change `foreign` only, and
only take addresses no record has. So a write adds one free address to the
current list or removes one from it, which is a step of the ledger. The
contracts are not inductive without it: after the write, what the call returns
must be in the record that the same query finds. A write is not refused because what it
writes back is in the record still, and the address it adds is free in the view
of the record (`RefusedStep`).

*ClaimReconcilerProofs.* `ClaimTypeCorrect`; `ClaimImplementsClient`: each step
of the composed system is a step of the client or leaves its variables alone,
for which the type invariant is needed (host and subnet of a call are never
empty); `ClaimImplementsLedger` follows.

*ClaimHeldProofs.* `BoundClaimsHeld`, `ReadyClaimsHold` and `NeverAssignedTwice`
(the properties `BoundAddressHeld`, `ReadyClaimHolds`, `NoDoubleAssignment`).
Between the answer of Infoblox and the final patch a reconciliation acts on what
it has read and found, so `HeldInv` says what that is worth: the host name in
memory is the one the claim is served under, a call under way is about this name
and a subnet of the claim's pool, an address that is about to be written is in
the host record, and so is one wherever Ready says so, in memory or stored.
`Alone` cannot be used for the induction, since it also speaks of claims that do
not exist yet; `Unrivalled` speaks of those there are or were, so that it can
only get false, and a claim that is `Served` after a step was served before it.
The argument then has two parts. `StepsGo`: no step takes an address from a
served claim. A request that frees one is made for a deleted claim, hence for
another one, with the same host name, a subnet in common and a matching view
(`WapiKeepsHolds`), which makes it a rival. `RecHandler`: a step of the handler
adds only what is true, which for the returned address is the client's
`AllocateContract`. `NeverAssignedTwice` follows with `Exclusive`, for different
host names, and disjoint subnets, for the same one.

*ClaimLeakProofs.* `NothingLeaks` (`NoLeakWithoutError`). Its invariant
`LeakInv` follows the loop of `ReleaseAddress`: the subnets before index `i` hold
nothing of the claim, because each of them was the subject of a call that
returned success (`ReleaseContract`), and nothing is added, because an
allocation for the same addresses would be made for a rival (`WapiShrinks`). An
error puts the claim into `swallowed` and ends what the invariant promises until
the next loop. That the finalizer in memory is dropped only after the loop, and
that no reconciliation of a released claim is under way, are parts of it.

Both rest on `ClientInv`, which holds here since the client is used as it is
specified, and both unfold that there is one worker.

*InfobloxIPPoolProofs.* `PoolTypeCorrect`; `PoolOutlivesItsClaims`. Its
invariant `FinalizerInv` says what the pool controller may rely on between its
list of claims and its patch: the pool is already deleted, hence every claim
that exists now and was not listed is a late one. It is the strongest protection
the code gives, as `pool_protected` shows. `ExplicitViewIsSafe`. The pool
controller writes the view it computed from what it read earlier, so the
invariant `ViewInv` says that as long as the user leaves an explicit view alone,
the stored pool, the pool as read and the pool to be stored all have this view,
that claims in progress use it too, and that addresses are held in no other.

*InfobloxInstanceProofs.* `InstanceTypeCorrect`; `ReadyIsRight`; `ReadyIsUsable`. Its invariant
describes an undisturbed reconciliation step by step: the spec it works on is
the stored one, each check that was passed still holds, and the condition to be
stored is the verdict on the present state. At the patch this becomes
`ReadyIsTheVerdict`. It is a theorem about the order of reads and the comparison
with the old condition, not about what the other controllers can do.
`ReadyIsUsable` (`ReadyMeansUsable`) adds that under `AskedAlike` the two
connections are the same and one default view was found over it.

*HostnameResolverProofs.* `ResolverTypeCorrect`, `NameIsRight` (`NameOfAnOwner`),
`NothingIsMissed` (`NotFoundMeansNone`), `MachineKindsComeFirst`
(`MachineKindsSuffice`), `CallsMakeProgress` (`SearchProgresses`), for all owner
graphs, with cycles and shared owners, and all depths.

* `SortIs` says what the sort by insertion with the code's comparison returns: the
  same owners, and in front the first one with "Machine" in its kind if
  there is one. Nothing else is used of the order. In particular it is not used
  that the comparison is an order, which it is not.
* `SearchInv` says of each level `n` of a search that goes on (`LevelOK`): its
  object is reached by `n - 1` references, has no Machine among its owners, and
  every owner is accounted for (`Accounted`): it is still to be tried, or is the
  next object of the path, or was given up, and then no chain of the references
  that were left leads from it to a Machine (`Clean`). The number of references
  left is what makes this inductive: an object may be given up at one level and
  be the way to the Machine from a higher one, as it can then be followed further.
  When the first level has nothing left, the claim itself is clean (`CleanUp`),
  which `CleanMeans` turns into `NotFoundMeansNone`.
* `FavouritesInv` says that as long as the chain of favourites leads to a Machine
  at distance `n` and none of them was unreadable, the search has not failed: it
  has found a Machine, or its path is the beginning of that chain, is shorter than
  `n`, and nothing was taken yet from the list of its last object. So what is read
  next is the next favourite, and what is reached last has the Machine as owner.
* `ProgressStep` compares what is left before and after a step level by level.
  It is the part of `SearchEnds` that does not depend on fairness: the levels are
  naturals and `MaxDepth + 1` of them, so the search cannot go on getting smaller
  for ever.

The sets of owners at a distance and the sort are recursive functions, about which
the induction rules of the library cannot be used. `LeastMember`, that a set of
naturals has a least member, takes their place: the set of counterexamples up to
some length or depth has no least member, hence no member. In the same way the
definitions are unfolded (`SortedDef`, `OwnersAtDef`, `FavouriteAtDef`): for every
bound there is a function that satisfies the recursive equation.

*PoolValidationProofs.* `CheckedPoolsParse` (`CheckedSubnetsParse`), for every
width of addresses, lists of any length and any sequence of requests, with the
webhook asked about all, some or none of them. The invariant is that a pool for
which `checked` is true has passed `validate`; `CanonicalText` is the
argument: a network that prints as the text in the pool has the spelling both
libraries accept, and clearing its host bits changed nothing.

Assumptions: `ClientAssumption`, `SubnetsDisjoint`, `ClaimAssumption`,
`ZoneAssumption`, `PoolAssumption`, `InstanceAssumption`, `ResolverAssumption`,
`ValidationAssumption`, all evaluated by TLC in the runs.

Every invariant and action property that a passing run checks is proved. Only
model-checked: the liveness properties `DeletionCompletes`, `ClaimIsServed`,
`PoolBecomesReady`, `PoolDeletionCompletes`, `SearchEnds` and `ReadySettles`, as
the provers do not reason about `ENABLED`, on which fairness rests.

## Not modelled

* Stale informer caches: reads return what is stored. The pool controller's list
  of claims and the claim's annotation are read from a cache in reality.
* The generic reconciler beyond its calls of the handler. When it stores the
  finalizer decides about one leak: a claim that is deleted after its first
  allocation and before its finalizer is stored vanishes with its address held.
  The model has this behaviour (`vanished`), no property forbids it;
  `NoLeakWithoutError` is about claims that went through `ReleaseAddress`.
* A request that is still on its way when the manager dies and takes effect
  after the restart; retries inside the connector.
* The immutability of `IPAddress.spec` in Cluster API: the model lets a later
  reconciliation replace the address.
* Users who change the annotation of an existing claim.
* DNS views and zones of host records; gateways and prefixes of `IPAddress`es.
  With them `determineDNSView`: it chooses what one of the pool controller's
  checks asks for, and a check that fails is all the model tells apart.
* Changes of `spec.subnets` while addresses are held. `ValidateUpdate` allows
  them; an address of a subnet that was removed is never released.
* `OwnerChainResolver`: nothing constructs it. Owner references that change
  during a search. Lists of more than twelve owners, where the sort is not by
  insertion any more and the inconsistent comparison may give another order.
* Timeouts. `client.go:101` passes `int(time.Second)` as the timeout of requests;
  that requests return is an assumption of the fairness.
* Text of errors: `isNotFound` tells a missing view from a failed request by it,
  but every caller treats the two alike. `tryParseWapiError` only changes a
  message.
* Indexes and predicates: they select objects by kind and name. The index ignores
  the API group, so claims of another provider's pool with the same kind and name
  keep a pool's finalizer longer than needed; the models contain the claims of
  one pool only.
* Start-up (`main.go`), version information, generated code and mocks: no
  behaviour of their own. That there is one manager is a
  premise of `SnapshotFresh` that the deployment must keep: the flag for leader
  election is off by default (`main.go:83`), the shipped deployment sets it
  (`config/manager/manager.yaml:31`).

## State of the plan

Everything that was planned as a module is there: the client and its ledger, the
claim controller, the pool controller, the instance controller, the host name
search and the admission of pools. What could be added:

1. `spec.subnets` as state of `InfobloxIPPool`, with edits while addresses are
   held, once it is decided what the provider promises for them.
2. More than one worker: the proofs of the claim controller lean on there being
   one at the same place as the client's do, and would have to be redone with a
   protocol that makes concurrent calls for one host record safe.
