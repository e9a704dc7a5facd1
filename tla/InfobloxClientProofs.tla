------------------------ MODULE InfobloxClientProofs ------------------------
(***************************************************************************)
(* Proofs about InfobloxClient: type correctness, the inductive invariant  *)
(* (a single worker's snapshot of a host record is never stale), and that  *)
(* the client implements AddressLedger.                                    *)
(***************************************************************************)
EXTENDS InfobloxClient, TLAPS

\* There is one worker.
LEMMA OneWorker == Workers = {1}
BY DEF Workers, MaxConcurrentReconciles

\* A step of a call that is under way never changes the call's arguments.
SameArgs(w) ==
    /\ call'[w].op = call[w].op
    /\ call'[w].view = call[w].view
    /\ call'[w].host = call[w].host
    /\ call'[w].subnet = call[w].subnet

\* The worker's call has ended.
Returned(w) == SameArgs(w) /\ call'[w].step = "returned"

\* The worker's call has ended with an error.
Failed(w) == Returned(w) /\ call'[w].err = TRUE

\* Return changes the step and the results of the worker's call only.
LEMMA ReturnFacts ==
    ASSUME TypeOK, NEW w \in Workers, NEW err \in BOOLEAN,
           NEW a \in Addrs \cup {None}, Return(w, err, a)
    PROVE  /\ call' \in [Workers -> CallType]
           /\ Returned(w)
           /\ call'[w].err = err
           /\ call'[w].addr = a
<1> DEFINE r == [call[w] EXCEPT !.step = "returned", !.err = err, !.addr = a]
<1>1. call[w] \in CallType
  BY DEF TypeOK
<1>2. r \in CallType
  BY <1>1 DEF CallType
<1>3. call' = [call EXCEPT ![w] = r]
  BY DEF Return
<1>4. call' \in [Workers -> CallType] /\ call'[w] = r
  BY <1>2, <1>3 DEF TypeOK
<1> QED BY <1>1, <1>4 DEF Returned, SameArgs, CallType

\* SendNext changes the in-memory record of the worker's call only.
LEMMA SendNextFacts ==
    ASSUME TypeOK, NEW w \in Workers, NEW addrs \in SUBSET Addrs,
           NEW ref \in NetworkViews \cup {None}, SendNext(w, addrs, ref)
    PROVE  /\ call' \in [Workers -> CallType]
           /\ SameArgs(w)
           /\ call'[w].step = "write"
           /\ call'[w].hr = addrs
           /\ call'[w].ref = ref
<1> DEFINE r == [call[w] EXCEPT !.step = "write", !.hr = addrs, !.ref = ref]
<1>1. call[w] \in CallType
  BY DEF TypeOK
<1>2. r \in CallType
  BY <1>1 DEF CallType
<1>3. call' = [call EXCEPT ![w] = r]
  BY DEF SendNext
<1>4. call' \in [Workers -> CallType] /\ call'[w] = r
  BY <1>2, <1>3 DEF TypeOK
<1> QED BY <1>1, <1>4 DEF SameArgs, CallType

\* The fault counter stays within its bound.
LEMMA FaultsBounded ==
    ASSUME TypeOK, faults' = faults \/ (faults < MaxFaults /\ faults' = faults + 1)
    PROVE  faults' \in 0 .. MaxFaults
BY ClientAssumption DEF TypeOK, ClientAssumption

\* The caller of Store goes on, or its call has failed.
LEMMA StoreOutcome ==
    ASSUME TypeOK, NEW w \in Workers, NEW u, NEW h, NEW addrs, NEW c \in CallType,
           Store(w, u, h, addrs, c)
    PROVE  /\ call' \in [Workers -> CallType]
           /\ call'[w] = c \/ Failed(w)
<1>1. CASE call' = [call EXCEPT ![w] = c]
  BY <1>1 DEF TypeOK
<1>2. CASE Return(w, TRUE, None)
  BY <1>2, ReturnFacts DEF Failed
<1> QED BY <1>1, <1>2 DEF Store

\* Store writes one host record and tells the caller about it, or does not.
LEMMA StoreFacts ==
    ASSUME TypeOK, NEW w \in Workers, NEW u \in NetworkViews, NEW h \in Hosts,
           NEW addrs \in SUBSET Addrs, NEW c \in CallType, Store(w, u, h, addrs, c)
    PROVE  /\ hostRecords' \in [NetworkViews -> [Hosts -> SUBSET Addrs]]
           /\ hostRecords'[u][h] = addrs
           /\ \A v \in NetworkViews, g \in Hosts :
                 v # u \/ g # h => hostRecords'[v][g] = hostRecords[v][g]
           /\ call' \in [Workers -> CallType]
           /\ call'[w] = c \/ Failed(w)
           /\ foreign' = foreign
           /\ faults' \in 0 .. MaxFaults
<1>1. /\ call' \in [Workers -> CallType]
      /\ call'[w] = c \/ Failed(w)
  BY StoreOutcome
<1>2. faults' \in 0 .. MaxFaults
  <2>1. faults' = faults \/ (faults < MaxFaults /\ faults' = faults + 1)
    BY DEF Store
  <2> QED BY <2>1, FaultsBounded
<1>3. /\ hostRecords' \in [NetworkViews -> [Hosts -> SUBSET Addrs]]
      /\ hostRecords'[u][h] = addrs
      /\ \A v \in NetworkViews, g \in Hosts :
            v # u \/ g # h => hostRecords'[v][g] = hostRecords[v][g]
  <2>1. hostRecords' = [hostRecords EXCEPT ![u][h] = addrs]
    BY DEF Store
  <2>2. hostRecords \in [NetworkViews -> [Hosts -> SUBSET Addrs]]
    BY DEF TypeOK
  <2> QED BY <2>1, <2>2
<1>4. foreign' = foreign
  BY DEF Store
<1> QED BY <1>1, <1>2, <1>3, <1>4

\* RequestFails and Rejected end the call with an error and change no record.
LEMMA FailureFacts ==
    ASSUME TypeOK, NEW w \in Workers, RequestFails(w) \/ Rejected(w)
    PROVE  /\ call' \in [Workers -> CallType]
           /\ Failed(w)
           /\ hostRecords' = hostRecords
           /\ foreign' = foreign
           /\ faults' \in 0 .. MaxFaults
<1>1. Return(w, TRUE, None)
  BY DEF RequestFails, Rejected
<1>2. call' \in [Workers -> CallType] /\ Failed(w)
  BY <1>1, ReturnFacts DEF Failed
<1>3. faults' \in 0 .. MaxFaults
  <2>1. faults' = faults \/ (faults < MaxFaults /\ faults' = faults + 1)
    BY DEF RequestFails, Rejected
  <2> QED BY <2>1, FaultsBounded
<1> QED BY <1>2, <1>3 DEF RequestFails, Rejected

-----------------------------------------------------------------------------
(* Type correctness *)

\* The conjuncts of TypeOK about the calls, given that worker w moved.
LEMMA TypeFromArgs ==
    ASSUME TypeOK, NEW w \in Workers, call[w].step # "idle",
           call' \in [Workers -> CallType], SameArgs(w),
           \/ call'[w].step = "returned"
           \/ call'[w].step = "write" /\ call'[w].op = "allocate"
           \/ call'[w].step \in {"write", "refetch"} /\ call'[w].ref \in NetworkViews,
           hostRecords' \in [NetworkViews -> [Hosts -> SUBSET Addrs]],
           foreign' = foreign, faults' \in 0 .. MaxFaults
    PROVE  TypeOK'
<1>1. \A v \in Workers : v = w
  BY OneWorker
<1>2. ArgsOK(call'[w])
  BY DEF SameArgs, TypeOK, ArgsOK
<1> QED BY <1>1, <1>2, OneWorker DEF TypeOK, Workers

\* A WAPI call keeps the types.
LEMMA TypeWapi ==
    ASSUME TypeOK, NEW w \in Workers, WapiStep(w)
    PROVE  TypeOK'
<1> DEFINE c == call[w]
<1>0. c \in CallType
  BY DEF TypeOK
<1>1. c.step # "idle"
  BY <1>0 DEF WapiStep, Lookup, WriteHostRecord, Refetch, WriteRelease
<1>2. c.host \in Hosts /\ c.subnet \in Subnets
  BY <1>1 DEF TypeOK, ArgsOK
<1>3. CASE RequestFails(w) \/ Rejected(w)
  BY <1>1, <1>3, FailureFacts, TypeFromArgs DEF Returned, Failed, TypeOK
<1>4. CASE Lookup(w)
  <2>1. SUFFICES ASSUME NEW addrs \in SUBSET Addrs, NEW ref \in NetworkViews \cup {None},
                        AfterLookup(w, addrs, ref), UNCHANGED <<hostRecords, foreign, faults>>,
                        addrs # {} => ref \in NetworkViews
                 PROVE  TypeOK'
    <3>1. \A u \in NetworkViews : hostRecords[u][c.host] \in SUBSET Addrs
      BY <1>2 DEF TypeOK
    <3> QED BY <1>3, <1>4, <3>1 DEF Lookup
  <2>2. FoundAddr(w, addrs) \subseteq Addrs
    BY DEF FoundAddr
  <2>3. CASE \E err \in BOOLEAN, a \in Addrs \cup {None} : Return(w, err, a)
    BY <1>1, <2>1, <2>3, ReturnFacts, TypeFromArgs DEF Returned, TypeOK
  <2>4. CASE \E more \in SUBSET Addrs :
               SendNext(w, more, ref) /\ (c.op = "allocate" \/ ref \in NetworkViews)
    <3>1. PICK more \in SUBSET Addrs :
              SendNext(w, more, ref) /\ (c.op = "allocate" \/ ref \in NetworkViews)
      BY <2>4
    <3>2. /\ call' \in [Workers -> CallType] /\ SameArgs(w)
          /\ call'[w].step = "write" /\ call'[w].ref = ref
      BY <3>1, SendNextFacts
    <3>3. call'[w].op = "allocate" \/ call'[w].ref \in NetworkViews
      BY <3>1, <3>2 DEF SameArgs
    <3>4. /\ hostRecords' \in [NetworkViews -> [Hosts -> SUBSET Addrs]]
          /\ foreign' = foreign /\ faults' \in 0 .. MaxFaults
      BY <2>1 DEF TypeOK
    <3> QED BY <1>1, <3>2, <3>3, <3>4, TypeFromArgs
  <2>5. FoundAddr(w, addrs) # {} => ref \in NetworkViews
    BY <2>1 DEF FoundAddr
  <2> QED BY <2>1, <2>2, <2>3, <2>4, <2>5 DEF AfterLookup, AfterLookupAllocate, AfterLookupRelease
<1>5. CASE \E u \in NetworkViews, addrs \in SUBSET Addrs, d \in CallType :
            /\ Store(w, u, c.host, addrs, d)
            /\ d.op = c.op /\ d.view = c.view /\ d.host = c.host /\ d.subnet = c.subnet
            /\ d.step = "returned" \/ (d.step = "refetch" /\ d.ref \in NetworkViews)
  <2>1. PICK u \in NetworkViews, addrs \in SUBSET Addrs, d \in CallType :
            /\ Store(w, u, c.host, addrs, d)
            /\ d.op = c.op /\ d.view = c.view /\ d.host = c.host /\ d.subnet = c.subnet
            /\ d.step = "returned" \/ (d.step = "refetch" /\ d.ref \in NetworkViews)
    BY <1>5
  <2>2. /\ hostRecords' \in [NetworkViews -> [Hosts -> SUBSET Addrs]]
        /\ call' \in [Workers -> CallType]
        /\ call'[w] = d \/ Failed(w)
        /\ foreign' = foreign
        /\ faults' \in 0 .. MaxFaults
    <3>1. PICK h \in Hosts : h = c.host
      BY <1>2
    <3>2. Store(w, u, h, addrs, d)
      BY <2>1, <3>1
    <3>3. call'[w] = d \/ Failed(w)
      BY <2>1, StoreOutcome
    <3>4. /\ hostRecords' \in [NetworkViews -> [Hosts -> SUBSET Addrs]]
          /\ call' \in [Workers -> CallType]
          /\ foreign' = foreign
          /\ faults' \in 0 .. MaxFaults
      BY <3>2, StoreFacts
    <3> QED BY <3>3, <3>4
  <2>3. SameArgs(w)
    BY <2>1, <2>2 DEF SameArgs, Returned, Failed
  <2> QED BY <1>1, <2>1, <2>2, <2>3, TypeFromArgs DEF Returned, Failed
<1>6. CASE CreateObject(w)
  <2> DEFINE d == [c EXCEPT !.step = "refetch", !.ref = ViewOf(c.view)]
  <2>1. PICK a \in NextAvailable(c.view, c.subnet) :
            Store(w, ViewOf(c.view), c.host, {a}, d)
    BY <1>6 DEF CreateObject
  <2>2. ViewOf(c.view) \in NetworkViews
    BY <1>0, ClientAssumption DEF ViewOf, CallType, ClientAssumption
  <2>3. {a} \in SUBSET Addrs
    BY <1>2, SubnetsDisjoint DEF NextAvailable, SubnetsDisjoint
  <2>4. /\ d \in CallType /\ d.step = "refetch" /\ d.ref = ViewOf(c.view)
        /\ d.op = c.op /\ d.view = c.view /\ d.host = c.host /\ d.subnet = c.subnet
    BY <1>0, <2>2 DEF CallType
  <2> HIDE DEF d
  <2> QED BY <1>5, <2>1, <2>2, <2>3, <2>4
<1>7. CASE UpdateObject(w)
  <2>1. PICK a \in NextAvailable(c.view, c.subnet) :
            Store(w, c.ref, c.host, c.hr \cup {a}, [c EXCEPT !.step = "refetch"])
    BY <1>7 DEF UpdateObject
  <2>2. c.ref \in NetworkViews
    BY <1>0, <1>7 DEF UpdateObject, CallType
  <2>3. c.hr \cup {a} \in SUBSET Addrs
    BY <1>0, <1>2, SubnetsDisjoint DEF NextAvailable, SubnetsDisjoint, CallType
  <2>4. [c EXCEPT !.step = "refetch"] \in CallType
    BY <1>0 DEF CallType
  <2> QED BY <1>0, <1>5, <2>1, <2>2, <2>3, <2>4 DEF CallType
<1>8. CASE \E a \in FoundAddr(w, hostRecords[c.ref][c.host]) :
            Return(w, FALSE, a) /\ UNCHANGED <<hostRecords, foreign, faults>>
  <2>1. FoundAddr(w, hostRecords[c.ref][c.host]) \subseteq Addrs
    BY <1>2, SubnetsDisjoint DEF FoundAddr, SubnetsDisjoint
  <2> QED BY <1>1, <1>8, <2>1, ReturnFacts, TypeFromArgs DEF Returned, TypeOK
<1>9. CASE /\ call[w].op = "release" /\ c.ref \in NetworkViews
           /\ Store(w, c.ref, c.host, c.hr, [c EXCEPT !.step = "returned"])
  <2>1. [c EXCEPT !.step = "returned"] \in CallType /\ c.hr \in SUBSET Addrs
    BY <1>0 DEF CallType
  <2> QED BY <1>0, <1>5, <1>9, <2>1 DEF CallType
<1>10. CASE Refetch(w)
  BY <1>3, <1>8, <1>10 DEF Refetch
<1>11. CASE WriteRelease(w)
  <2>1. c.ref \in NetworkViews
    BY <1>11 DEF WriteRelease, TypeOK, ArgsOK
  <2> QED BY <1>0, <2>1, <1>3, <1>9, <1>11 DEF WriteRelease
<1> QED BY <1>3, <1>4, <1>6, <1>7, <1>10, <1>11 DEF WapiStep, WriteHostRecord

\* An idle call has the right type.
LEMMA NoCallType == NoCall \in CallType /\ ArgsOK(NoCall) /\ NoCall.step = "idle"
BY DEF NoCall, CallType, ArgsOK

\* Starting a call, ending it, and losing it in a crash keep the types.
LEMMA TypeCaller ==
    ASSUME TypeOK,
           (\E w \in Workers : BeginCall(w) \/ EndCall(w)) \/ CrashClient
    PROVE  TypeOK'
<1>1. CASE \E w \in Workers, d \in CallType :
            /\ call' = [call EXCEPT ![w] = d]
            /\ ArgsOK(d)
            /\ UNCHANGED <<hostRecords, foreign, faults>>
  BY <1>1 DEF TypeOK
<1>2. ASSUME NEW w \in Workers, BeginCall(w)
      PROVE  TypeOK'
  <2>1. PICK op \in {"allocate", "release"}, v \in NetworkViews \cup {None},
             h \in Hosts, s \in Subnets : Begin(w, op, v, h, s)
    BY <1>2 DEF BeginCall
  <2> DEFINE d == [NoCall EXCEPT !.step = "lookup", !.op = op, !.view = v,
                                 !.host = h, !.subnet = s]
  <2>2. d \in CallType /\ ArgsOK(d)
    BY <2>1 DEF NoCall, CallType, ArgsOK
  <2>3. call' = [call EXCEPT ![w] = d]
    BY <2>1 DEF Begin
  <2> HIDE DEF d
  <2> QED BY <1>1, <1>2, <2>2, <2>3 DEF BeginCall
<1>3. ASSUME NEW w \in Workers, EndCall(w)
      PROVE  TypeOK'
  BY <1>1, <1>3, NoCallType DEF EndCall
<1>4. CASE CrashClient
  <2>1. faults' \in 0 .. MaxFaults
    BY <1>4, FaultsBounded DEF CrashClient
  <2> QED BY <1>4, <2>1, NoCallType DEF CrashClient, TypeOK
<1> QED BY <1>2, <1>3, <1>4

\* Other users of Infoblox keep the types.
LEMMA TypeForeign ==
    ASSUME TypeOK, ForeignStep
    PROVE  TypeOK'
<1>1. PICK v \in NetworkViews, a \in Addrs : ForeignTake(v, a) \/ ForeignFree(v, a)
  BY DEF ForeignStep
<1>2. UNCHANGED <<hostRecords, call, faults>> /\ foreign' \in [NetworkViews -> SUBSET Addrs]
  BY <1>1 DEF ForeignTake, ForeignFree, TypeOK
<1> QED BY <1>2 DEF TypeOK

\* One step keeps the types.
LEMMA TypeStep ==
    ASSUME TypeOK, [ClientNext]_clientVars
    PROVE  TypeOK'
<1>1. CASE ClientNext
  BY <1>1, TypeWapi, TypeCaller, TypeForeign DEF ClientNext
<1>2. CASE UNCHANGED clientVars
  BY <1>2 DEF clientVars, TypeOK
<1> QED BY <1>1, <1>2

\* The initial state is of the right type.
LEMMA TypeInit == ClientInit => TypeOK
<1> SUFFICES ASSUME ClientInit PROVE TypeOK
  OBVIOUS
<1>1. faults \in 0 .. MaxFaults
  BY ClientAssumption DEF ClientInit, ClientAssumption
<1> QED BY <1>1, NoCallType DEF ClientInit, TypeOK

\* Every state of the client is of the right type; in particular a call that
\* is about to write or to fetch a record by reference has the reference
\* (hr.Ref and ref in addresses.go), and the counter of faults is bounded.
THEOREM TypeCorrect == ClientSpec => []TypeOK
BY TypeInit, TypeStep, PTL DEF ClientSpec

-----------------------------------------------------------------------------
(* The inductive invariant *)

\* Contracts of returned calls and snapshots of calls under way; none of it is
\* inductive without the rest.
ClientInv ==
    /\ TypeOK
    /\ SnapshotFresh
    /\ Exclusive
    /\ OnePerSubnet
    /\ AllocateContract
    /\ ReleaseContract

\* A host without an address in subnet s gets one that is free.
Added(u, h, s, a) ==
    /\ hostRecords[u][h] \cap AddrsIn[s] = {}
    /\ a \in AddrsIn[s] \ Used(u)
    /\ hostRecords' = [hostRecords EXCEPT ![u][h] = hostRecords[u][h] \cup {a}]

\* A host loses one address.
Removed(u, h, a) ==
    /\ a \in hostRecords[u][h]
    /\ hostRecords' = [hostRecords EXCEPT ![u][h] = hostRecords[u][h] \ {a}]

\* Adding a free address is the ledger's Allocate and keeps its invariants.
LEMMA AddedKeepsLedger ==
    ASSUME TypeOK, Exclusive, OnePerSubnet, NEW u \in NetworkViews, NEW h \in Hosts,
           NEW s \in Subnets, NEW a, Added(u, h, s, a), foreign' = foreign
    PROVE  Ledger!Next /\ Exclusive' /\ OnePerSubnet'
<1> USE DEF TypeOK
<1>1. a \in AddrsIn[s] /\ a \in Addrs
  BY SubnetsDisjoint DEF Added, SubnetsDisjoint
<1>2. a \notin foreign[u] /\ \A g \in Hosts : a \notin hostRecords[u][g]
  BY DEF Added, Used
<1>3. /\ hostRecords'[u][h] = hostRecords[u][h] \cup {a}
      /\ \A v \in NetworkViews, g \in Hosts :
            v # u \/ g # h => hostRecords'[v][g] = hostRecords[v][g]
  BY DEF Added
<1>4. Exclusive'
  BY <1>2, <1>3 DEF Exclusive, Ledger!Exclusive
<1>5. \A t \in Subnets : t # s => a \notin AddrsIn[t]
  BY <1>1, SubnetsDisjoint DEF SubnetsDisjoint
<1>6. OnePerSubnet'
  BY <1>3, <1>5 DEF OnePerSubnet, Ledger!OnePerSubnet, Added
<1>7. Ledger!Allocate(u, h, s, a)
  BY DEF Ledger!Allocate, Ledger!Used, Added, Used
<1> QED BY <1>1, <1>4, <1>6, <1>7 DEF Ledger!Next

\* Removing an address is the ledger's Release and keeps its invariants.
LEMMA RemovedKeepsLedger ==
    ASSUME TypeOK, Exclusive, OnePerSubnet, NEW u \in NetworkViews, NEW h \in Hosts,
           NEW a, Removed(u, h, a), foreign' = foreign
    PROVE  Ledger!Next /\ Exclusive' /\ OnePerSubnet'
<1> USE DEF TypeOK
<1>1. a \in Addrs
  BY DEF Removed
<1>2. /\ hostRecords'[u][h] = hostRecords[u][h] \ {a}
      /\ \A v \in NetworkViews, g \in Hosts :
            v # u \/ g # h => hostRecords'[v][g] = hostRecords[v][g]
  BY DEF Removed
<1>3. Exclusive'
  BY <1>2 DEF Exclusive, Ledger!Exclusive
<1>4. OnePerSubnet'
  BY <1>2 DEF OnePerSubnet, Ledger!OnePerSubnet
<1>5. Ledger!Release(u, h, a)
  BY DEF Ledger!Release, Removed
<1> QED BY <1>1, <1>3, <1>4, <1>5 DEF Ledger!Next

\* If neither the records nor the foreign addresses change, nor do the
\* ledger's invariants.
LEMMA UnchangedKeepsLedger ==
    ASSUME Exclusive, OnePerSubnet, UNCHANGED <<hostRecords, foreign>>
    PROVE  Exclusive' /\ OnePerSubnet'
BY DEF Exclusive, OnePerSubnet, Ledger!Exclusive, Ledger!OnePerSubnet

\* A call that failed, or was not made, has no obligations.
LEMMA NothingPromised ==
    ASSUME NEW w \in Workers,
           \/ call'[w].step = "returned" /\ call'[w].err = TRUE
           \/ call'[w].step \in {"idle", "lookup"}
    PROVE  SnapshotFresh' /\ AllocateContract' /\ ReleaseContract'
<1>1. Workers = {w} /\ Workers' = Workers
  BY OneWorker DEF Workers
<1>2. SnapshotFresh'
  BY <1>1 DEF SnapshotFresh
<1>3. AllocateContract'
  BY <1>1 DEF AllocateContract
<1>4. ReleaseContract'
  BY <1>1 DEF ReleaseContract
<1> QED BY <1>2, <1>3, <1>4

\* What calls rely on stays true if neither they nor the records change.
LEMMA NothingHappens ==
    ASSUME SnapshotFresh, AllocateContract, ReleaseContract, UNCHANGED <<hostRecords, call>>
    PROVE  SnapshotFresh' /\ AllocateContract' /\ ReleaseContract'
<1>1. Workers' = Workers
  BY DEF Workers
<1>2. SnapshotFresh'
  BY <1>1 DEF SnapshotFresh, Matching, FoundAddr
<1>3. AllocateContract'
  BY <1>1 DEF AllocateContract, Matching
<1>4. ReleaseContract'
  BY <1>1 DEF ReleaseContract, Matching
<1> QED BY <1>2, <1>3, <1>4

\* The lookup: what is returned is in the record, and what will be written was
\* made from the record as it is.
LEMMA InvLookup ==
    ASSUME ClientInv, TypeOK', NEW w \in Workers, Lookup(w), ~RequestFails(w), ~Rejected(w)
    PROVE  ClientInv' /\ UNCHANGED <<hostRecords, foreign>>
<1> DEFINE c == call[w]
           m == Matching(c.view, c.host)
<1>0. TypeOK /\ c \in CallType /\ Workers = {w} /\ Workers' = {w}
  BY OneWorker DEF ClientInv, TypeOK, Workers
<1>1. c.host \in Hosts /\ c.subnet \in Subnets
  BY <1>0 DEF TypeOK, ArgsOK, Lookup
<1>2. PICK addrs \in SUBSET Addrs, ref \in NetworkViews \cup {None} :
          /\ AfterLookup(w, addrs, ref)
          /\ \/ m = {} /\ addrs = {} /\ ref = None
             \/ m = {ref} /\ ref \in NetworkViews /\ addrs = hostRecords[ref][c.host]
  <2>1. \A u \in NetworkViews : hostRecords[u][c.host] \in SUBSET Addrs
    BY <1>0, <1>1 DEF TypeOK
  <2> QED BY <2>1 DEF Lookup
<1>3. UNCHANGED <<hostRecords, foreign>>
  BY DEF Lookup
<1>4. Exclusive' /\ OnePerSubnet'
  BY <1>3, UnchangedKeepsLedger DEF ClientInv
<1>5. FoundAddr(w, addrs) = addrs \cap AddrsIn[c.subnet] /\ FoundAddr(w, addrs) \subseteq Addrs
  BY DEF FoundAddr
<1>6. ASSUME NEW a \in FoundAddr(w, addrs), c.op = "allocate", Return(w, FALSE, a)
      PROVE  SnapshotFresh' /\ AllocateContract' /\ ReleaseContract'
  <2>1. Returned(w) /\ call'[w].addr = a
    BY <1>0, <1>5, <1>6, ReturnFacts
  <2>2. ref \in m /\ a \in hostRecords[ref][c.host] /\ a \in AddrsIn[c.subnet]
    BY <1>2, <1>5
  <2>3. AllocateContract'
    BY <1>0, <1>3, <2>1, <2>2 DEF AllocateContract, Matching, Returned, SameArgs
  <2> QED BY <1>0, <1>6, <2>1, <2>3 DEF SnapshotFresh, ReleaseContract, Returned, SameArgs
<1>7. ASSUME c.op = "release", FoundAddr(w, addrs) = {}, Return(w, FALSE, None)
      PROVE  SnapshotFresh' /\ AllocateContract' /\ ReleaseContract'
  <2>1. Returned(w)
    BY <1>0, <1>7, ReturnFacts
  <2>2. \A u \in m : hostRecords[u][c.host] \cap AddrsIn[c.subnet] = {}
    BY <1>2, <1>5, <1>7
  <2>3. ReleaseContract'
    BY <1>0, <1>3, <2>1, <2>2 DEF ReleaseContract, Matching, Returned, SameArgs
  <2> QED BY <1>0, <1>7, <2>1, <2>3 DEF SnapshotFresh, AllocateContract, Returned, SameArgs
<1>8. ASSUME NEW more \in SUBSET Addrs, SendNext(w, more, ref),
             \/ c.op = "allocate" /\ FoundAddr(w, addrs) = {} /\ more = addrs
             \/ c.op = "release" /\ \E a \in FoundAddr(w, addrs) : more = addrs \ {a}
      PROVE  SnapshotFresh' /\ AllocateContract' /\ ReleaseContract'
  <2>1. /\ SameArgs(w) /\ call'[w].step = "write"
        /\ call'[w].hr = more /\ call'[w].ref = ref
    BY <1>0, <1>8, SendNextFacts
  <2>2. Matching(call[w].view, call[w].host)' = m
    BY <1>3, <2>1 DEF Matching, SameArgs
  <2>3. FoundAddr(w, hostRecords[call[w].ref][call[w].host])'
            = hostRecords[ref][c.host] \cap AddrsIn[c.subnet]
    BY <1>3, <2>1 DEF FoundAddr, SameArgs
  <2>4. None \notin NetworkViews
    BY ClientAssumption DEF ClientAssumption
  <2>5. SnapshotFresh'
    <3>1. CASE ref = None
      <4>1. c.op = "allocate" /\ more = {} /\ m = {}
        BY <1>2, <1>5, <1>8, <2>4, <3>1
      <4> QED BY <1>0, <2>1, <2>2, <3>1, <4>1 DEF SnapshotFresh, SameArgs
    <3>2. CASE ref # None
      <4>1. m = {ref} /\ addrs = hostRecords[ref][c.host]
        BY <1>2, <3>2
      <4>2. /\ c.op = "allocate" => more = addrs /\ FoundAddr(w, addrs) = {}
            /\ c.op = "release" => \E a \in FoundAddr(w, addrs) : more = addrs \ {a}
        BY <1>8
      <4> QED BY <1>0, <1>3, <1>5, <2>1, <2>2, <2>3, <3>2, <4>1, <4>2 DEF SnapshotFresh, SameArgs
    <3> QED BY <3>1, <3>2
  <2> QED BY <1>0, <2>1, <2>5 DEF AllocateContract, ReleaseContract
<1>9. SnapshotFresh' /\ AllocateContract' /\ ReleaseContract'
  BY <1>2, <1>5, <1>6, <1>7, <1>8 DEF AfterLookup, AfterLookupAllocate, AfterLookupRelease
<1> QED BY <1>3, <1>4, <1>9 DEF ClientInv

\* A failed call changes no record and promises nothing.
LEMMA InvFailure ==
    ASSUME ClientInv, TypeOK', NEW w \in Workers, RequestFails(w) \/ Rejected(w)
    PROVE  ClientInv' /\ UNCHANGED <<hostRecords, foreign>>
<1>1. TypeOK /\ Exclusive /\ OnePerSubnet
  BY DEF ClientInv
<1>2. Failed(w) /\ UNCHANGED <<hostRecords, foreign>>
  BY <1>1, FailureFacts
<1>3. SnapshotFresh' /\ AllocateContract' /\ ReleaseContract'
  BY <1>2, NothingPromised DEF Failed, Returned
<1> QED BY <1>1, <1>2, <1>3, UnchangedKeepsLedger DEF ClientInv

\* A create or an update adds one address of the subnet to the record.
LEMMA InvWrite ==
    ASSUME ClientInv, TypeOK', NEW w \in Workers, call[w].step = "write",
           call[w].op = "allocate", CreateObject(w) \/ UpdateObject(w)
    PROVE  ClientInv' /\ Ledger!Next
<1> DEFINE c == call[w]
           m == Matching(c.view, c.host)
<1>0. /\ TypeOK /\ c \in CallType /\ Workers = {w} /\ Workers' = {w}
      /\ Exclusive /\ OnePerSubnet
  BY OneWorker DEF ClientInv, TypeOK, Workers
<1>1. c.host \in Hosts /\ c.subnet \in Subnets
  BY <1>0 DEF TypeOK, ArgsOK
<1>2. ClientAssumption /\ SubnetsDisjoint
  BY ClientAssumption, SubnetsDisjoint
<1>3. SUFFICES ASSUME NEW u \in NetworkViews, NEW a, NEW d \in CallType,
                      c.view \in {None, u},
                      hostRecords[u][c.host] \cap AddrsIn[c.subnet] = {},
                      a \in AddrsIn[c.subnet] \ Used(u),
                      Store(w, u, c.host, hostRecords[u][c.host] \cup {a}, d),
                      d.step = "refetch", d.ref = u, d.op = c.op, d.view = c.view,
                      d.host = c.host, d.subnet = c.subnet
               PROVE  ClientInv' /\ Ledger!Next
  <2>1. CASE CreateObject(w)
    <3> DEFINE u == ViewOf(c.view)
               d == [c EXCEPT !.step = "refetch", !.ref = u]
    <3>1. PICK a \in NextAvailable(c.view, c.subnet) : Store(w, u, c.host, {a}, d)
      BY <2>1 DEF CreateObject
    <3>2. u \in NetworkViews /\ c.view \in {None, u}
      BY <1>0, <1>2 DEF ViewOf, CallType, ClientAssumption
    <3>3. /\ d \in CallType /\ d.step = "refetch" /\ d.ref = u
          /\ d.op = c.op /\ d.view = c.view /\ d.host = c.host /\ d.subnet = c.subnet
      BY <1>0, <3>2 DEF CallType
    <3>4. hostRecords[u][c.host] = {} /\ hostRecords[u][c.host] \cup {a} = {a}
      BY <2>1 DEF CreateObject
    <3>5. a \in AddrsIn[c.subnet] \ Used(u)
      BY <3>1 DEF NextAvailable
    <3>6. Store(w, u, c.host, hostRecords[u][c.host] \cup {a}, d)
      BY <3>1, <3>4
    <3>7. hostRecords[u][c.host] \cap AddrsIn[c.subnet] = {}
      BY <3>4
    <3> HIDE DEF d, u
    <3> QED BY <1>3, <3>2, <3>3, <3>5, <3>6, <3>7
  <2>2. CASE UpdateObject(w)
    <3> DEFINE u == c.ref
               d == [c EXCEPT !.step = "refetch"]
    <3>1. PICK a \in NextAvailable(c.view, c.subnet) \ c.hr :
              NoConflict(u, c.host, c.hr \cup {a}) /\ Store(w, u, c.host, c.hr \cup {a}, d)
      BY <2>2 DEF UpdateObject
    <3>2. /\ m = {u} /\ c.hr = hostRecords[u][c.host]
          /\ hostRecords[u][c.host] \cap AddrsIn[c.subnet] = {}
      BY <2>2 DEF ClientInv, SnapshotFresh, UpdateObject, FoundAddr
    <3>3. u \in NetworkViews /\ c.view \in {None, u}
      BY <3>2 DEF Matching
    <3>4. /\ d \in CallType /\ d.step = "refetch" /\ d.ref = u
          /\ d.op = c.op /\ d.view = c.view /\ d.host = c.host /\ d.subnet = c.subnet
      BY <1>0 DEF CallType
    <3>5. a \in AddrsIn[c.subnet] \ Used(u)
      <4>1. a \in AddrsIn[c.subnet] /\ a \notin hostRecords[u][c.host]
        BY <3>1, <3>2 DEF NextAvailable
      <4>2. a \notin UsedByOthers(u, c.host)
        BY <3>1 DEF NoConflict
      <4> QED BY <1>1, <4>1, <4>2 DEF Used, UsedByOthers
    <3>6. Store(w, u, c.host, hostRecords[u][c.host] \cup {a}, d)
      BY <3>1, <3>2
    <3> HIDE DEF d, u
    <3> QED BY <1>3, <3>2, <3>3, <3>4, <3>5, <3>6
  <2> QED BY <2>1, <2>2
<1>4. PICK h \in Hosts : h = c.host
  BY <1>1
<1>5. Store(w, u, h, hostRecords[u][h] \cup {a}, d)
  BY <1>3, <1>4
<1>6. call'[w] = d \/ Failed(w)
  <2>1. CASE call' = [call EXCEPT ![w] = d]
    BY <1>0, <2>1 DEF TypeOK
  <2>2. CASE Return(w, TRUE, None)
    BY <1>0, <2>2, ReturnFacts DEF Failed
  <2> QED BY <1>5, <2>1, <2>2 DEF Store
<1>7. Added(u, h, c.subnet, a) /\ foreign' = foreign
  BY <1>3, <1>4, <1>5 DEF Added, Store
<1>8. Exclusive' /\ OnePerSubnet' /\ Ledger!Next
  BY <1>0, <1>1, <1>7, AddedKeepsLedger
<1>9. CASE Failed(w)
  BY <1>8, <1>9, NothingPromised DEF ClientInv, Failed, Returned
<1>10. CASE call'[w] = d
  <2>1. FoundAddr(w, hostRecords[call[w].ref][call[w].host])' # {}
    <3>1. a \in hostRecords'[u][c.host]
      BY <1>0, <1>3, <1>4, <1>7 DEF Added, TypeOK
    <3> QED BY <1>3, <1>10, <3>1 DEF FoundAddr
  <2> QED BY <1>0, <1>3, <1>8, <1>10, <2>1
          DEF ClientInv, SnapshotFresh, AllocateContract, ReleaseContract
<1> QED BY <1>6, <1>9, <1>10

\* The refetch returns an address the record has.
LEMMA InvRefetch ==
    ASSUME ClientInv, TypeOK', NEW w \in Workers, Refetch(w), ~RequestFails(w), ~Rejected(w)
    PROVE  ClientInv' /\ UNCHANGED <<hostRecords, foreign>>
<1> DEFINE c == call[w]
<1>0. TypeOK /\ c \in CallType /\ Workers = {w} /\ Workers' = {w}
  BY OneWorker DEF ClientInv, TypeOK, Workers
<1>1. c.host \in Hosts /\ c.subnet \in Subnets
  BY <1>0 DEF TypeOK, ArgsOK, Refetch
<1>2. c.op = "allocate" /\ c.ref \in NetworkViews /\ c.view \in {None, c.ref}
  BY DEF ClientInv, SnapshotFresh, Refetch
<1>3. PICK a : /\ a \in hostRecords[c.ref][c.host] /\ a \in AddrsIn[c.subnet]
               /\ Return(w, FALSE, a)
  BY DEF Refetch, FoundAddr
<1>4. a \in Addrs
  BY <1>1, <1>3, SubnetsDisjoint DEF SubnetsDisjoint
<1>5. Returned(w) /\ call'[w].addr = a
  BY <1>0, <1>3, <1>4, ReturnFacts
<1>6. UNCHANGED <<hostRecords, foreign>>
  BY DEF Refetch
<1>7. AllocateContract'
  BY <1>0, <1>2, <1>3, <1>5, <1>6 DEF AllocateContract, Matching, Returned, SameArgs
<1>8. SnapshotFresh' /\ ReleaseContract'
  BY <1>0, <1>2, <1>5 DEF SnapshotFresh, ReleaseContract, Returned, SameArgs
<1> QED BY <1>6, <1>7, <1>8, UnchangedKeepsLedger DEF ClientInv

\* A release removes the one address of the subnet from the record.
LEMMA InvRelease ==
    ASSUME ClientInv, TypeOK', NEW w \in Workers, WriteRelease(w),
           ~RequestFails(w), ~Rejected(w)
    PROVE  ClientInv' /\ Ledger!Next
<1> DEFINE c == call[w]
           u == c.ref
           d == [c EXCEPT !.step = "returned"]
<1>0. /\ TypeOK /\ c \in CallType /\ Workers = {w} /\ Workers' = {w}
      /\ Exclusive /\ OnePerSubnet
  BY OneWorker DEF ClientInv, TypeOK, Workers
<1>1. c.host \in Hosts /\ c.subnet \in Subnets /\ u \in NetworkViews /\ c.op = "release"
  BY <1>0 DEF TypeOK, ArgsOK, WriteRelease
<1>2. Store(w, u, c.host, c.hr, d)
  BY DEF WriteRelease
<1>3. PICK a \in hostRecords[u][c.host] :
          /\ a \in AddrsIn[c.subnet]
          /\ c.hr = hostRecords[u][c.host] \ {a}
  BY <1>1, ClientAssumption
     DEF ClientInv, SnapshotFresh, WriteRelease, FoundAddr, ClientAssumption
<1>4. Matching(c.view, c.host) = {u}
  BY <1>1, ClientAssumption DEF ClientInv, SnapshotFresh, WriteRelease, ClientAssumption
<1>5. Removed(u, c.host, a) /\ foreign' = foreign
  BY <1>2, <1>3 DEF Removed, Store
<1>6. Exclusive' /\ OnePerSubnet' /\ Ledger!Next
  BY <1>0, <1>1, <1>5, RemovedKeepsLedger
<1>7. CASE Return(w, TRUE, None)
  <2>1. Failed(w)
    BY <1>0, <1>7, ReturnFacts DEF Failed
  <2> QED BY <1>6, <2>1, NothingPromised DEF ClientInv, Failed, Returned
<1>8. CASE call' = [call EXCEPT ![w] = d]
  <2>1. /\ call'[w].step = "returned" /\ call'[w].op = "release"
        /\ call'[w].view = c.view /\ call'[w].host = c.host /\ call'[w].subnet = c.subnet
    BY <1>0, <1>1, <1>8 DEF TypeOK, CallType
  <2>2. hostRecords'[u][c.host] \cap AddrsIn[c.subnet] = {}
    <3>1. \A b \in hostRecords[u][c.host] \cap AddrsIn[c.subnet] : b = a
      BY <1>0, <1>1, <1>3 DEF OnePerSubnet, Ledger!OnePerSubnet
    <3>2. hostRecords'[u][c.host] = hostRecords[u][c.host] \ {a}
      BY <1>0, <1>1, <1>5 DEF Removed, TypeOK
    <3> QED BY <3>1, <3>2
  <2>3. \A v \in NetworkViews : v # u => hostRecords'[v][c.host] = hostRecords[v][c.host]
    BY <1>0, <1>1, <1>5 DEF Removed, TypeOK
  <2>4. ReleaseContract'
    BY <1>0, <1>1, <1>4, <2>1, <2>2, <2>3 DEF ReleaseContract, Matching
  <2> QED BY <1>0, <1>6, <2>1, <2>4 DEF ClientInv, SnapshotFresh, AllocateContract
<1> QED BY <1>2, <1>7, <1>8 DEF Store

\* Starting a call, ending it, and losing it in a crash change no record.
LEMMA InvCaller ==
    ASSUME ClientInv, TypeOK',
           (\E w \in Workers : BeginCall(w) \/ EndCall(w)) \/ CrashClient
    PROVE  ClientInv' /\ UNCHANGED <<hostRecords, foreign>>
<1>1. UNCHANGED <<hostRecords, foreign>>
  BY DEF BeginCall, EndCall, CrashClient
<1>2. call'[1].step \in {"idle", "lookup"}
  <2>1. call \in [{1} -> CallType] /\ Workers = {1}
    BY OneWorker DEF ClientInv, TypeOK
  <2>2. CASE BeginCall(1)
    BY <2>1, <2>2 DEF BeginCall, Begin, NoCall
  <2>3. CASE EndCall(1)
    BY <2>1, <2>3 DEF EndCall, NoCall
  <2>4. CASE CrashClient
    BY <2>1, <2>4 DEF CrashClient, NoCall
  <2> QED BY <2>1, <2>2, <2>3, <2>4
<1>3. SnapshotFresh' /\ AllocateContract' /\ ReleaseContract'
  BY <1>2, OneWorker, NothingPromised
<1> QED BY <1>1, <1>3, UnchangedKeepsLedger DEF ClientInv

\* Other users take only free addresses: the ledger's foreign steps.
LEMMA InvForeign ==
    ASSUME ClientInv, TypeOK', ForeignStep
    PROVE  ClientInv' /\ Ledger!Next
<1>1. PICK v \in NetworkViews, a \in Addrs : ForeignTake(v, a) \/ ForeignFree(v, a)
  BY DEF ForeignStep
<1>2. UNCHANGED <<hostRecords, call>>
  BY <1>1 DEF ForeignTake, ForeignFree
<1>3. OnePerSubnet'
  BY <1>2 DEF ClientInv, OnePerSubnet, Ledger!OnePerSubnet
<1>4. SnapshotFresh' /\ AllocateContract' /\ ReleaseContract'
  BY <1>2, NothingHappens DEF ClientInv
<1>5. Exclusive' /\ Ledger!Next
  <2>1. CASE ForeignTake(v, a)
    <3>1. \A h \in Hosts : a \notin hostRecords[v][h]
      BY <2>1 DEF ForeignTake, Used
    <3>2. Exclusive'
      BY <1>1, <2>1, <3>1
         DEF ForeignTake, ClientInv, TypeOK, Exclusive, Ledger!Exclusive
    <3>3. Ledger!ForeignTake(v, a)
      BY <2>1 DEF ForeignTake, Used, Ledger!ForeignTake, Ledger!Used
    <3> QED BY <1>1, <3>2, <3>3 DEF Ledger!Next
  <2>2. CASE ForeignFree(v, a)
    <3>1. Exclusive'
      BY <1>1, <2>2 DEF ForeignFree, ClientInv, TypeOK, Exclusive, Ledger!Exclusive
    <3>2. Ledger!ForeignFree(v, a)
      BY <2>2 DEF ForeignFree, Ledger!ForeignFree
    <3> QED BY <1>1, <3>1, <3>2 DEF Ledger!Next
  <2> QED BY <1>1, <2>1, <2>2
<1> QED BY <1>3, <1>4, <1>5 DEF ClientInv

\* Every step keeps the invariant, and is a step of the ledger or changes
\* nothing the ledger sees.
LEMMA InvStep ==
    ASSUME ClientInv, [ClientNext]_clientVars
    PROVE  ClientInv' /\ [Ledger!Next]_(Ledger!vars)
<1>0. TypeOK'
  BY TypeStep DEF ClientInv
<1>1. ASSUME NEW w \in Workers, WapiStep(w)
      PROVE  ClientInv' /\ (Ledger!Next \/ UNCHANGED <<hostRecords, foreign>>)
  <2>1. CASE RequestFails(w) \/ Rejected(w)
    BY <1>0, <2>1, InvFailure
  <2>2. CASE Lookup(w) /\ ~RequestFails(w) /\ ~Rejected(w)
    BY <1>0, <2>2, InvLookup
  <2>3. CASE WriteHostRecord(w) /\ ~RequestFails(w) /\ ~Rejected(w)
    BY <1>0, <2>3, InvWrite DEF WriteHostRecord
  <2>4. CASE Refetch(w) /\ ~RequestFails(w) /\ ~Rejected(w)
    BY <1>0, <2>4, InvRefetch
  <2>5. CASE WriteRelease(w) /\ ~RequestFails(w) /\ ~Rejected(w)
    BY <1>0, <2>5, InvRelease
  <2> QED BY <1>1, <2>1, <2>2, <2>3, <2>4, <2>5 DEF WapiStep
<1>2. CASE (\E w \in Workers : BeginCall(w) \/ EndCall(w)) \/ CrashClient
  BY <1>0, <1>2, InvCaller DEF Ledger!vars
<1>3. CASE ForeignStep
  BY <1>0, <1>3, InvForeign
<1>4. CASE UNCHANGED clientVars
  <2>1. UNCHANGED <<hostRecords, foreign, call>>
    BY <1>4 DEF clientVars
  <2>2. SnapshotFresh' /\ AllocateContract' /\ ReleaseContract'
    BY <2>1, NothingHappens DEF ClientInv
  <2> QED BY <1>0, <2>1, <2>2, UnchangedKeepsLedger DEF ClientInv, Ledger!vars
<1> QED BY <1>1, <1>2, <1>3, <1>4 DEF ClientNext, Ledger!vars

\* Initially nobody holds anything and nobody calls.
LEMMA InvInit == ClientInit => ClientInv /\ Ledger!Init
<1> SUFFICES ASSUME ClientInit PROVE ClientInv /\ Ledger!Init
  OBVIOUS
<1>1. TypeOK
  BY TypeInit
<1>2. \A v \in NetworkViews, h \in Hosts : hostRecords[v][h] = {}
  BY DEF ClientInit
<1>3. Exclusive /\ OnePerSubnet
  BY <1>2 DEF Exclusive, OnePerSubnet, Ledger!Exclusive, Ledger!OnePerSubnet
<1>4. \A w \in Workers : call[w].step = "idle"
  BY NoCallType DEF ClientInit
<1>5. SnapshotFresh /\ AllocateContract /\ ReleaseContract
  BY <1>4 DEF SnapshotFresh, AllocateContract, ReleaseContract
<1>6. Ledger!Init
  BY DEF ClientInit, Ledger!Init
<1> QED BY <1>1, <1>3, <1>5, <1>6 DEF ClientInv

-----------------------------------------------------------------------------
(* The theorems *)

\* The invariant holds in every reachable state.
THEOREM InvariantHolds == ClientSpec => []ClientInv
<1>1. ClientInv /\ [ClientNext]_clientVars => ClientInv'
  BY InvStep
<1>2. ClientInit => ClientInv
  BY InvInit
<1> QED BY <1>1, <1>2, PTL DEF ClientSpec

\* The list of addresses that createOrUpdateHostRecord and ReleaseAddress
\* write back is never based on an outdated read, for any number of hosts,
\* subnets, addresses, views and failures, as long as there is one worker.
THEOREM NeverStale == ClientSpec => []SnapshotFresh
<1>1. ClientInv => SnapshotFresh
  BY DEF ClientInv
<1> QED BY <1>1, InvariantHolds, PTL

\* GetOrAllocateAddress is idempotent: retries after lost answers and crashes
\* never give a host a second address in a subnet.
THEOREM AtMostOneAddress == ClientSpec => []OnePerSubnet
<1>1. ClientInv => OnePerSubnet
  BY DEF ClientInv
<1> QED BY <1>1, InvariantHolds, PTL

\* What GetOrAllocateAddress returns, the host has.
THEOREM AllocateKeepsContract == ClientSpec => []AllocateContract
<1>1. ClientInv => AllocateContract
  BY DEF ClientInv
<1> QED BY <1>1, InvariantHolds, PTL

\* When ReleaseAddress succeeds, nothing of the subnet is left.
THEOREM ReleaseKeepsContract == ClientSpec => []ReleaseContract
<1>1. ClientInv => ReleaseContract
  BY DEF ClientInv
<1> QED BY <1>1, InvariantHolds, PTL

\* A step that refuses a request for no fault: an allocation finds the subnet
\* full, or its function is evaluated in another view than the record's.
LEMMA RefusedStep ==
    ASSUME ClientInv, NEW w \in Workers, WapiStep(w),
           call[w].step \in {"write", "refetch"},
           call'[w].step = "returned", ~call[w].err, call'[w].err, faults' = faults
    PROVE  LET c == call[w]
               u == IF c.ref = None THEN ViewOf(c.view) ELSE c.ref
           IN  /\ c.step = "write" /\ c.op = "allocate"
               /\ c.view # None \/ u = DefaultView => AddrsIn[c.subnet] \subseteq Used(u)
<1> DEFINE c == call[w]
           u == IF c.ref = None THEN ViewOf(c.view) ELSE c.ref
<1>0. /\ TypeOK /\ SnapshotFresh /\ Exclusive /\ c \in CallType
      /\ c.host \in Hosts /\ c.subnet \in Subnets
  BY DEF ClientInv, TypeOK, ArgsOK
<1>a. faults' # faults + 1
  BY <1>0, ClientAssumption DEF TypeOK, ClientAssumption
<1>1. ~RequestFails(w)
  BY <1>a DEF RequestFails
<1>2. \A v \in NetworkViews, h \in Hosts : NoConflict(v, h, hostRecords[v][h])
  BY <1>0 DEF NoConflict, UsedByOthers, Exclusive, Ledger!Exclusive
<1>3. ~Refetch(w)
  <2>1. SUFFICES ASSUME Refetch(w) PROVE FALSE
    OBVIOUS
  <2>2. FoundAddr(w, hostRecords[c.ref][c.host]) # {}
    BY <1>0, <2>1 DEF SnapshotFresh, Refetch
  <2>3. PICK a \in FoundAddr(w, hostRecords[c.ref][c.host]) : Return(w, FALSE, a)
    BY <1>1, <2>1, <2>2 DEF Refetch
  <2>4. call'[w].err = FALSE
    BY <1>0, <2>3 DEF Return, TypeOK, CallType
  <2> QED BY <2>4
<1>4. ~WriteRelease(w)
  <2>1. SUFFICES ASSUME WriteRelease(w) PROVE FALSE
    OBVIOUS
  <2>2. c.ref \in NetworkViews /\ c.ref # None
    BY <1>0, <2>1, ClientAssumption DEF WriteRelease, TypeOK, ArgsOK, ClientAssumption
  <2>3. /\ c.hr \subseteq hostRecords[c.ref][c.host]
        /\ hostRecords[c.ref][c.host] # {}
    BY <1>0, <2>1, <2>2 DEF SnapshotFresh, WriteRelease, FoundAddr, Matching
  <2>4. NoConflict(c.ref, c.host, c.hr)
    BY <1>0, <1>2, <2>2, <2>3 DEF NoConflict
  <2>5. call' = [call EXCEPT ![w] = [c EXCEPT !.step = "returned"]]
    <3>1. Store(w, c.ref, c.host, c.hr, [c EXCEPT !.step = "returned"])
      BY <1>1, <2>1, <2>3, <2>4 DEF WriteRelease
    <3> QED BY <1>a, <3>1 DEF Store
  <2>6. call'[w].err = c.err
    BY <1>0, <2>5 DEF TypeOK, CallType
  <2> QED BY <2>6
<1>5. c.step = "write" /\ c.op = "allocate" /\ WriteHostRecord(w)
  BY <1>3, <1>4 DEF WapiStep, Lookup, WriteHostRecord
<1>6. ~CreateObject(w) /\ ~UpdateObject(w)
  <2>1. ASSUME NEW v, NEW addrs, NEW d,
               d.step = "refetch", Store(w, v, c.host, addrs, d)
        PROVE  FALSE
    <3>1. call' = [call EXCEPT ![w] = d]
      BY <1>a, <2>1 DEF Store
    <3>2. call'[w] = d
      BY <1>0, <3>1 DEF TypeOK
    <3> QED BY <2>1, <3>2
  <2>2. \A v : [c EXCEPT !.step = "refetch", !.ref = v].step = "refetch"
    BY <1>0 DEF CallType
  <2>3. [c EXCEPT !.step = "refetch"].step = "refetch"
    BY <1>0 DEF CallType
  <2> QED BY <2>1, <2>2, <2>3 DEF CreateObject, UpdateObject
<1>7. WriteImpossible(w)
  BY <1>1, <1>5, <1>6 DEF WriteHostRecord
<1>8. ASSUME c.view # None \/ u = DefaultView
      PROVE  AddrsIn[c.subnet] \subseteq Used(u)
  <2>1. u \in NetworkViews /\ u = ViewOf(c.view)
    BY <1>0, <1>5, <1>8, ClientAssumption
       DEF SnapshotFresh, Matching, ViewOf, CallType, ClientAssumption
  <2>2. c.hr = hostRecords[u][c.host] /\ ((c.ref = None) <=> (hostRecords[u][c.host] = {}))
    BY <1>0, <1>5, <2>1 DEF SnapshotFresh, Matching, ViewOf
  <2>3. SUFFICES ASSUME NextAvailable(c.view, c.subnet) # {} PROVE FALSE
    BY <2>1 DEF NextAvailable
  <2>4. PICK a \in NextAvailable(c.view, c.subnet) :
            a \in c.hr \/ ~NoConflict(u, c.host, c.hr \cup {a})
    BY <1>7, <2>2, <2>3 DEF WriteImpossible
  <2>5. a \notin Used(u)
    BY <2>1, <2>4 DEF NextAvailable
  <2>6. a \notin c.hr /\ a \notin UsedByOthers(u, c.host)
    BY <1>0, <2>2, <2>5 DEF Used, UsedByOthers
  <2>7. NoConflict(u, c.host, c.hr)
    BY <1>0, <1>2, <2>1, <2>2
  <2> QED BY <2>4, <2>6, <2>7 DEF NoConflict
<1> QED BY <1>5, <1>8

\* For any number of hosts, subnets and views the server refuses a request
\* after the lookup only because the subnet is full, as long as there is one
\* worker and the function is evaluated in the view of the record.
THEOREM RefusalMeansFull == ClientSpec => RefusedOnlyWhenFull
<1> DEFINE Step(w) ==
      LET c == call[w]
          u == IF c.ref = None THEN ViewOf(c.view) ELSE c.ref
      IN
      /\ c.step \in {"write", "refetch"}
      /\ call'[w].step = "returned" /\ ~c.err /\ call'[w].err
      /\ faults' = faults
      => /\ c.step = "write" /\ c.op = "allocate"
         /\ c.view # None \/ u = DefaultView => AddrsIn[c.subnet] \subseteq Used(u)
<1>1. ASSUME ClientInv, ClientNext, NEW w \in Workers
      PROVE  Step(w)
  <2>1. CASE WapiStep(w)
    BY <1>1, <2>1, RefusedStep
  <2>2. CASE BeginCall(w) \/ EndCall(w)
    BY <2>2 DEF BeginCall, Begin, EndCall
  <2>3. CASE CrashClient
    BY <1>1, <2>3 DEF CrashClient, ClientInv, TypeOK
  <2>4. CASE ForeignStep
    <3>1. call' = call
      BY <2>4 DEF ForeignStep, ForeignTake, ForeignFree
    <3> QED BY <3>1
  <2>5. \A v \in Workers : v = w
    BY OneWorker
  <2> QED BY <1>1, <2>1, <2>2, <2>3, <2>4, <2>5 DEF ClientNext
<1>2. ClientInv /\ [ClientNext]_clientVars => [\A w \in Workers : Step(w)]_clientVars
  BY <1>1
<1> QED BY <1>2, InvariantHolds, PTL DEF ClientSpec, RefusedOnlyWhenFull

\* The client implements the ledger: its sequences of lookup, write and fetch
\* behave as atomic allocations and releases of single addresses.
THEOREM ClientImplementsLedger == ClientSpec => ImplementsLedger
<1>1. ClientInit => Ledger!Init
  BY InvInit
<1>2. ClientInv /\ [ClientNext]_clientVars => [Ledger!Next]_(Ledger!vars)
  BY InvStep
<1>3. ClientSpec => Ledger!Spec
  BY <1>1, <1>2, InvariantHolds, PTL DEF ClientSpec, Ledger!Spec
<1> QED BY <1>3 DEF ImplementsLedger
=============================================================================
