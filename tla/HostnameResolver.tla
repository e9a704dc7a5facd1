-------------------------- MODULE HostnameResolver --------------------------
(***************************************************************************)
(* SearchOwnerReferenceResolver of src/internal/hostname/resolver.go: the  *)
(* search for the Machine among the owners of an IPAddressClaim, their     *)
(* owners, and so on down to MaxDepth.                                     *)
(*                                                                         *)
(* Every owner that the search descends to is read from the API server, a  *)
(* step of its own, so objects may disappear and reappear meanwhile.  The  *)
(* recursion of find is the sequence path, from the claim to the object    *)
(* whose owners are being tried; rest[i] are the owners of path[i] that    *)
(* are left to try.                                                        *)
(*                                                                         *)
(* Names stand for objects: an owner reference is the object it names.     *)
(***************************************************************************)
EXTENDS Naturals, Sequences, SequencesExt

CONSTANTS
    Objects,            \* everything that can own something, and the claim
    Claim,              \* the claim whose host name is looked for
    KindOf,             \* the kind of an object
    OwnerGraphs,        \* what the owner references of the objects may be
    MaxDepth,           \* how far the search goes, 5 in getHostnameResolver
    MaxDisappearances   \* bound on how often an object becomes unreadable

\* "Machine" is the kind searched for.  The other kinds differ in what the
\* order of the search looks at: "Machine" in the kind, and an API group that
\* starts with "infrastructure".
Kinds == {"Machine", "InfraMachine", "MachineSet", "Infra", "Other"}

ASSUME ResolverAssumption ==
    /\ Claim \in Objects
    /\ KindOf \in [Objects -> Kinds]
    /\ \A g \in OwnerGraphs : g \in [Objects -> Seq(Objects)]
    /\ MaxDepth \in Nat \ {0}
    /\ MaxDisappearances \in Nat
    /\ Objects \cap {"pending", "notFound", "error"} = {}

VARIABLES
    owners,         \* owners[o]: the owner references of o, in order
    readable,       \* the objects that a request would return
    lost,           \* the objects that were unreadable at some time
    disappearances, \* how often an object became unreadable
    path, rest,     \* the search
    result          \* how the search ended: an object, "notFound" or "error"

resolverVars == <<owners, readable, lost, disappearances, path, rest, result>>

----------------------------------------------------------------------------
(* The order in which owners are tried *)

Machines == {o \in Objects : KindOf[o] = "Machine"}
NamedMachine == {o \in Objects : KindOf[o] \in {"Machine", "InfraMachine", "MachineSet"}}
InInfrastructure == {o \in Objects : KindOf[o] \in {"InfraMachine", "Infra"}}

\* Mutant of ComesBefore: the name of the kind is not looked at.
ComesBeforeByGroup(a, b) == a \in InInfrastructure /\ b \notin InInfrastructure

\* The comparison returns a negative number.  The group of b counts, not that
\* of a, so owners in the infrastructure group come last.
ComesBefore(a, b) == b \notin NamedMachine /\ (a \in NamedMachine \/ b \in InInfrastructure)

\* slices.SortFunc sorts lists of up to twelve by insertion: o moves to the
\* front as long as it comes before its neighbour.
InsertOwner(sorted, o) ==
    LET stays(k) == \A j \in k + 1 .. Len(sorted) : ComesBefore(o, sorted[j])
        k == CHOOSE k \in 0 .. Len(sorted) : stays(k) /\ \A i \in 0 .. k - 1 : ~stays(i)
    IN SubSeq(sorted, 1, k) \o <<o>> \o SubSeq(sorted, k + 1, Len(sorted))

SortOwners(refs) ==
    LET sorted[n \in 0 .. Len(refs)] ==
            IF n = 0 THEN <<>> ELSE InsertOwner(sorted[n - 1], refs[n])
    IN sorted[Len(refs)]

----------------------------------------------------------------------------
(* The search *)

\* The first member of T in the list refs, if there is one.
First(refs, T) ==
    refs[CHOOSE i \in DOMAIN refs : refs[i] \in T /\ \A j \in 1 .. i - 1 : refs[j] \notin T]

\* find is called for object o: a Machine among its owners is the answer,
\* otherwise its owners are tried one after the other.
Find(o, p, r) ==
    /\ path' = Append(p, o)
    /\ rest' = Append(r, SortOwners(owners[o]))
    /\ result' = IF Range(owners[o]) \cap Machines # {} THEN First(owners[o], Machines)
                 ELSE "pending"

GetHostname ==
    /\ result = "pending"
    /\ path = <<>>
    /\ Find(Claim, <<>>, <<>>)
    /\ UNCHANGED <<owners, readable, lost, disappearances>>

\* Mutant of MayDescend: one level too many.
MayDescendTooFar(n) == rest[n] # <<>> /\ n <= MaxDepth

\* An owner of the n-th object is left and may be read.
MayDescend(n) == rest[n] # <<>> /\ n < MaxDepth

\* Mutant of TryOwner: the owner stays in the list.
TryOwnerAgain ==
    LET n == Len(path)
        o == Head(rest[n])
    IN
    /\ result = "pending"
    /\ n > 0 /\ MayDescend(n)
    /\ IF o \in readable THEN Find(o, path, rest)
       ELSE result' = "error" /\ UNCHANGED <<path, rest>>
    /\ UNCHANGED <<owners, readable, lost, disappearances>>

\* Mutant of TryOwner: an owner that cannot be read is passed over.
TryReadableOwner ==
    LET n == Len(path)
        o == Head(rest[n])
        r == [rest EXCEPT ![n] = Tail(@)]
    IN
    /\ result = "pending"
    /\ n > 0 /\ MayDescend(n)
    /\ IF o \in readable THEN Find(o, path, r)
       ELSE rest' = r /\ UNCHANGED <<path, result>>
    /\ UNCHANGED <<owners, readable, lost, disappearances>>

\* The next owner is read; an error ends the whole search, also if another
\* owner would lead to the Machine.
TryOwner ==
    LET n == Len(path)
        o == Head(rest[n])
    IN
    /\ result = "pending"
    /\ n > 0 /\ MayDescend(n)
    /\ \/ o \in readable /\ Find(o, path, [rest EXCEPT ![n] = Tail(@)])
       \/ o \notin readable /\ result' = "error" /\ UNCHANGED <<path, rest>>
    /\ UNCHANGED <<owners, readable, lost, disappearances>>

\* find returns an empty name: its caller goes on with the next owner.
Backtrack ==
    LET n == Len(path) IN
    /\ result = "pending"
    /\ n > 0 /\ ~MayDescend(n)
    /\ \/ n = 1 /\ result' = "notFound" /\ UNCHANGED <<path, rest>>
       \/ /\ n > 1
          /\ path' = Front(path)
          /\ rest' = Front(rest)
          /\ UNCHANGED result
    /\ UNCHANGED <<owners, readable, lost, disappearances>>

----------------------------------------------------------------------------
(* The API server *)

\* Object o is deleted, or may not be read, or cannot be read for a while.
Disappear(o) ==
    /\ disappearances < MaxDisappearances
    /\ o \in readable
    /\ disappearances' = disappearances + 1
    /\ readable' = readable \ {o}
    /\ lost' = lost \cup {o}
    /\ UNCHANGED <<owners, path, rest, result>>

Reappear(o) ==
    /\ o \notin readable
    /\ readable' = readable \cup {o}
    /\ UNCHANGED <<owners, lost, disappearances, path, rest, result>>

ResolverInit ==
    /\ owners \in OwnerGraphs
    /\ readable = Objects
    /\ lost = {}
    /\ disappearances = 0
    /\ path = <<>>
    /\ rest = <<>>
    /\ result = "pending"

ResolverStep == GetHostname \/ TryOwner \/ Backtrack

ResolverNext ==
    \/ ResolverStep
    \/ \E o \in Objects \ {Claim} : Disappear(o) \/ Reappear(o)

ResolverSpec ==
    ResolverInit /\ [][ResolverNext]_resolverVars /\ WF_resolverVars(ResolverStep)

----------------------------------------------------------------------------
(* Properties *)

\* The search is a chain of owners from the claim, never longer than MaxDepth.
ResolverTypeOK ==
    /\ owners \in [Objects -> Seq(Objects)]
    /\ readable \subseteq Objects /\ lost \subseteq Objects
    /\ disappearances \in 0 .. MaxDisappearances
    /\ path \in Seq(Objects) /\ rest \in Seq(Seq(Objects))
    /\ Len(rest) = Len(path) /\ Len(path) <= MaxDepth
    /\ result \in Objects \cup {"pending", "notFound", "error"}

\* OwnersAt(g)[n]: the objects that a chain of n references leads to.
OwnersAt(g) ==
    LET at[n \in 0 .. MaxDepth] ==
            IF n = 0 THEN {Claim} ELSE UNION {Range(g[o]) : o \in at[n - 1]}
    IN at

\* The name returned is that of a Machine which owns the claim, directly or
\* through at most MaxDepth references ("performs a depth search on the owner
\* references until it finds the specified GroupKind", resolver.go:55).
NameOfAnOwner ==
    result \in Objects =>
        result \in Machines /\ \E n \in 1 .. MaxDepth : result \in OwnersAt(owners)[n]

\* find reports that there is no Machine only if there is none, whatever
\* disappears during the search, in which order the owners are tried, and
\* although an object may be reached by chains of different lengths.
NotFoundMeansNone ==
    result = "notFound" => \A n \in 1 .. MaxDepth : OwnersAt(owners)[n] \cap Machines = {}

\* The n-th object of the chain from the claim that always takes the first
\* owner with "Machine" in its kind, if there is one.
FavouriteAt(g) ==
    LET at[n \in 0 .. MaxDepth] ==
            IF n = 0 THEN {Claim}
            ELSE {First(g[o], NamedMachine) :
                     o \in {p \in at[n - 1] : Range(g[p]) \cap NamedMachine # {}}}
    IN at

\* "anything that contains Machine in it's name comes first" (resolver.go:89-91):
\* owners that cannot be read do not matter where such kinds, all of them
\* readable, lead to the Machine.
MachineKindsSuffice ==
    result \in {"notFound", "error"} =>
        ~ \E n \in 1 .. MaxDepth :
            /\ FavouriteAt(owners)[n] \cap Machines # {}
            /\ \A i \in 1 .. n - 1 : FavouriteAt(owners)[i] \cap lost = {}

\* What is left of the search: whether it has begun and ended, and how many
\* owners are to be tried at each level of the recursion.
Left == [n \in 0 .. MaxDepth |->
            IF n = 0 THEN (IF result # "pending" THEN 0 ELSE IF path = <<>> THEN 2 ELSE 1)
            ELSE IF n <= Len(path) THEN Len(rest[n]) + 1
            ELSE 0]

\* Left is u after a step and v before: smaller at the first level that differs.
Smaller(u, v) ==
    \E n \in 0 .. MaxDepth : u[n] < v[n] /\ \A m \in 0 .. n - 1 : u[m] = v[m]

\* Every call and return of find brings the search nearer to its end, although
\* a call may add any number of owners to be tried and objects may own each
\* other ("if currentDepth >= r.MaxDepth", resolver.go:106).
SearchProgresses ==
    [][UNCHANGED <<path, rest, result>> \/ Smaller(Left', Left)]_resolverVars

\* The search ends, even if objects own each other.
SearchEnds == <>(result # "pending")
=============================================================================
