----------------------- MODULE HostnameResolverProofs -----------------------
(***************************************************************************)
(* TLAPS proofs about HostnameResolver: type correctness, that the name    *)
(* returned is that of a Machine among the owners, that no Machine is      *)
(* missed when the search ends without one, that owners with "Machine" in  *)
(* their kind are tried first, and that every call brings it to its end.   *)
(*                                                                         *)
(* The sort and the sets of owners at a distance are recursive functions.  *)
(* What holds of all their values is shown by the least counterexample,    *)
(* with sets of naturals in place of the induction rule.                   *)
(***************************************************************************)
EXTENDS HostnameResolver, SequenceTheorems, WellFoundedInduction, TLAPS

\* A set of naturals that is not empty has a member without predecessor in it.
LEMMA LeastMember ==
    ASSUME NEW S \in SUBSET Nat, S # {}
    PROVE  \E n \in S : /\ \A m \in S : n <= m
                        /\ n = 0 \/ (n - 1 \in Nat /\ n - 1 \notin S)
<1>1. IsWellFoundedOn(OpToRel(<, Nat), Nat)
  BY NatLessThanWellFounded
<1>2. PICK n \in S : \A m \in S : ~(<<m, n>> \in OpToRel(<, Nat))
  BY <1>1, WFMin
<1>3. \A m \in S : ~(m < n)
  BY <1>2 DEF OpToRel
<1> QED BY <1>3

----------------------------------------------------------------------------
(* The owners of an object in the order in which they are tried *)

\* First is what it is called.
LEMMA FirstIs ==
    ASSUME NEW S, NEW refs \in Seq(S), NEW T, Range(refs) \cap T # {}
    PROVE  \E i \in DOMAIN refs :
               /\ First(refs, T) = refs[i] /\ refs[i] \in T
               /\ \A j \in 1 .. i - 1 : refs[j] \notin T
<1> DEFINE I == {i \in DOMAIN refs : refs[i] \in T}
<1>1. I # {} /\ I \in SUBSET Nat
  BY DEF Range
<1>2. PICK i \in I : \A m \in I : i <= m
  BY <1>1, LeastMember
<1>3. i \in DOMAIN refs /\ refs[i] \in T /\ \A j \in 1 .. i - 1 : refs[j] \notin T
  BY <1>2
<1> QED BY <1>3, Zenon DEF First

\* An owner is inserted somewhere, and not before all others unless it comes
\* before the first of them.
LEMMA InsertOwnerIs ==
    ASSUME NEW sorted \in Seq(Objects), NEW o \in Objects
    PROVE  /\ InsertOwner(sorted, o) \in Seq(Objects)
           /\ Range(InsertOwner(sorted, o)) = Range(sorted) \cup {o}
           /\ InsertOwner(sorted, o) # <<>>
           /\ (\A j \in DOMAIN sorted : ComesBefore(o, sorted[j])) => Head(InsertOwner(sorted, o)) = o
           /\ sorted # <<>> /\ ~ComesBefore(o, Head(sorted)) =>
                  Head(InsertOwner(sorted, o)) = Head(sorted)
<1> DEFINE stays(k) == \A j \in k + 1 .. Len(sorted) : ComesBefore(o, sorted[j])
           place(k) == stays(k) /\ \A i \in 0 .. k - 1 : ~stays(i)
           K == {k \in 0 .. Len(sorted) : stays(k)}
           k == CHOOSE k \in 0 .. Len(sorted) : place(k)
           left == SubSeq(sorted, 1, k)
           right == SubSeq(sorted, k + 1, Len(sorted))
<1>1. k \in 0 .. Len(sorted) /\ place(k)
  <2>1. Len(sorted) \in K /\ K \in SUBSET Nat
    OBVIOUS
  <2>2. PICK m \in K : \A i \in K : m <= i
    BY <2>1, LeastMember
  <2>3. m \in 0 .. Len(sorted) /\ place(m)
    BY <2>2
  <2> HIDE DEF place
  <2> QED BY <2>3
<1>2. InsertOwner(sorted, o) = left \o <<o>> \o right
  BY DEF InsertOwner
<1> HIDE DEF k, stays
<1>3. /\ left \in Seq(Objects) /\ Len(left) = k /\ \A i \in 1 .. k : left[i] = sorted[i]
      /\ right \in Seq(Objects) /\ Len(right) = Len(sorted) - k
      /\ \A i \in 1 .. Len(sorted) - k : right[i] = sorted[k + i]
  BY <1>1
<1> DEFINE new == left \o <<o>> \o right
<1> HIDE DEF left, right
<1>4. /\ new \in Seq(Objects) /\ Len(new) = Len(sorted) + 1
      /\ \A i \in 1 .. Len(new) :
            new[i] = IF i <= k THEN sorted[i] ELSE IF i = k + 1 THEN o ELSE sorted[i - 1]
  <2> DEFINE upto == left \o <<o>>
  <2>k. k \in Nat /\ k <= Len(sorted) /\ Len(sorted) \in Nat
    BY <1>1
  <2>1. /\ upto \in Seq(Objects) /\ Len(upto) = k + 1
        /\ \A i \in 1 .. k + 1 : upto[i] = IF i <= k THEN sorted[i] ELSE o
    BY <1>3, <2>k
  <2> HIDE DEF upto
  <2>2. /\ upto \o right \in Seq(Objects) /\ Len(upto \o right) = Len(sorted) + 1
        /\ \A i \in 1 .. Len(sorted) + 1 :
              (upto \o right)[i] = IF i <= k + 1 THEN upto[i] ELSE right[i - (k + 1)]
    <3>1. Len(upto) + Len(right) = Len(sorted) + 1
      BY <1>3, <2>1, <2>k
    <3>2. upto \in Seq(Objects) /\ right \in Seq(Objects)
      BY <1>3, <2>1
    <3>3. /\ upto \o right \in Seq(Objects) /\ Len(upto \o right) = Len(upto) + Len(right)
          /\ \A i \in 1 .. Len(upto) + Len(right) :
                (upto \o right)[i] = IF i <= Len(upto) THEN upto[i] ELSE right[i - Len(upto)]
      BY <3>2, ConcatProperties, Zenon
    <3> QED BY <3>1, <3>3, <2>1
  <2>3. new = upto \o right
    BY <1>3 DEF upto
  <2> HIDE DEF new
  <2>4. ASSUME NEW i \in 1 .. Len(sorted) + 1
        PROVE  new[i] = IF i <= k THEN sorted[i] ELSE IF i = k + 1 THEN o ELSE sorted[i - 1]
    <3>1. CASE i <= k + 1
      BY <3>1, <2>1, <2>2, <2>3, <2>k
    <3>2. CASE i > k + 1
      <4>1. i - (k + 1) \in 1 .. Len(sorted) - k /\ k + (i - (k + 1)) = i - 1
        BY <3>2, <2>k
      <4>2. right[i - (k + 1)] = sorted[i - 1]
        BY <4>1, <1>3
      <4> QED BY <4>2, <3>2, <2>2, <2>3, <2>k
    <3>3. i <= k + 1 \/ i > k + 1
      BY <2>k
    <3> QED BY <3>1, <3>2, <3>3
  <2> QED BY <2>2, <2>3, <2>4
<1> HIDE DEF new
<1>5. Range(new) = Range(sorted) \cup {o}
  <2>1. ASSUME NEW x \in Range(new) PROVE x \in Range(sorted) \cup {o}
    BY <1>1, <1>4 DEF Range
  <2>2. ASSUME NEW i \in DOMAIN sorted PROVE sorted[i] \in Range(new)
    <3>1. CASE i <= k
      <4>1. i \in DOMAIN new /\ new[i] = sorted[i]
        BY <3>1, <1>1, <1>4
      <4> QED BY <4>1 DEF Range
    <3>2. CASE i > k
      <4>1. i + 1 \in DOMAIN new /\ new[i + 1] = sorted[i]
        BY <3>2, <1>1, <1>4
      <4> QED BY <4>1 DEF Range
    <3> QED BY <3>1, <3>2, <1>1
  <2>3. o \in Range(new)
    <3>1. k + 1 \in DOMAIN new /\ new[k + 1] = o
      BY <1>1, <1>4
    <3> QED BY <3>1 DEF Range
  <2> QED BY <2>1, <2>2, <2>3 DEF Range
<1>6. new # <<>> /\ Head(new) = new[1]
  BY <1>4
<1>7. ASSUME \A j \in DOMAIN sorted : ComesBefore(o, sorted[j]) PROVE Head(new) = o
  <2>1. stays(0)
    BY <1>7 DEF stays
  <2>2. k = 0
    BY <2>1, <1>1
  <2> QED BY <2>2, <1>4, <1>6
<1>8. ASSUME sorted # <<>>, ~ComesBefore(o, Head(sorted)) PROVE Head(new) = Head(sorted)
  <2>1. ~stays(0)
    <3>1. 1 \in 0 + 1 .. Len(sorted) /\ sorted[1] = Head(sorted)
      BY <1>8
    <3> QED BY <3>1, <1>8 DEF stays
  <2>2. k >= 1
    BY <2>1, <1>1
  <2> QED BY <2>2, <1>1, <1>4, <1>6, <1>8
<1> QED BY <1>2, <1>4, <1>5, <1>6, <1>7, <1>8 DEF new

\* The recursion of the sort is well-founded.
LEMMA SortedDef ==
    ASSUME NEW refs \in Seq(Objects)
    PROVE  \E f : /\ SortOwners(refs) = f[Len(refs)]
                 /\ f[0] = <<>>
                 /\ \A n \in 1 .. Len(refs) : f[n] = InsertOwner(f[n - 1], refs[n])
<1> DEFINE sorts(f, m) ==
               f = [n \in 0 .. m |-> IF n = 0 THEN <<>> ELSE InsertOwner(f[n - 1], refs[n])]
           S == {m \in Nat : ~ \E f : sorts(f, m)}
<1>1. S = {}
  <2> SUFFICES ASSUME S # {} PROVE FALSE
    OBVIOUS
  <2>1. PICK m \in S : m = 0 \/ (m - 1 \in Nat /\ m - 1 \notin S)
    BY LeastMember
  <2>2. m # 0
    <3>1. sorts([n \in 0 .. 0 |-> <<>>], 0)
      OBVIOUS
    <3> QED BY <3>1
  <2>3. PICK f : sorts(f, m - 1)
    BY <2>1, <2>2
  <2> DEFINE h == [n \in 0 .. m |-> IF n = m THEN InsertOwner(f[m - 1], refs[m]) ELSE f[n]]
             next(n) == IF n = 0 THEN <<>> ELSE InsertOwner(h[n - 1], refs[n])
  <2>4. ASSUME NEW n \in 0 .. m PROVE h[n] = next(n)
    <3>1. CASE n = m
      <4>1. h[n - 1] = f[m - 1]
        BY <3>1, <2>1, <2>2
      <4> QED BY <4>1, <3>1, <2>2
    <3>2. CASE n # m
      <4>1. h[n] = f[n] /\ n \in 0 .. m - 1 /\ m \in Nat
        BY <3>2
      <4>2. n # 0 => h[n - 1] = f[n - 1]
        BY <4>1
      <4>3. f[n] = IF n = 0 THEN <<>> ELSE InsertOwner(f[n - 1], refs[n])
        BY <2>3, <4>1
      <4> QED BY <4>1, <4>2, <4>3
    <3> QED BY <3>1, <3>2
  <2>5. sorts(h, m)
    BY <2>4
  <2> QED BY <2>5
<1>2. \E f : sorts(f, Len(refs))
  BY <1>1
<1> DEFINE w == CHOOSE f : sorts(f, Len(refs))
<1>3. sorts(w, Len(refs))
  BY <1>2
<1>4. SortOwners(refs) = w[Len(refs)]
  BY DEF SortOwners
<1> HIDE DEF w
<1>5. w[0] = <<>> /\ \A n \in 1 .. Len(refs) : w[n] = InsertOwner(w[n - 1], refs[n])
  BY <1>3
<1> QED BY <1>4, <1>5

\* The sort keeps all owners, and the first with "Machine" in its kind, if there
\* is one, becomes the first of all.
LEMMA SortIs ==
    ASSUME NEW refs \in Seq(Objects)
    PROVE  /\ SortOwners(refs) \in Seq(Objects)
           /\ Range(SortOwners(refs)) = Range(refs)
           /\ Range(refs) \cap NamedMachine # {} =>
                  SortOwners(refs) # <<>> /\ Head(SortOwners(refs)) = First(refs, NamedMachine)
<1>1. PICK f : /\ SortOwners(refs) = f[Len(refs)]
               /\ f[0] = <<>>
               /\ \A n \in 1 .. Len(refs) : f[n] = InsertOwner(f[n - 1], refs[n])
  BY SortedDef
<1> DEFINE front(n) == {refs[i] : i \in 1 .. n}
           leads(n, i) == /\ refs[i] \in NamedMachine
                          /\ \A j \in 1 .. i - 1 : refs[j] \notin NamedMachine
           good(n) == /\ f[n] \in Seq(Objects) /\ Range(f[n]) = front(n)
                      /\ \A i \in 1 .. n :
                            leads(n, i) => f[n] # <<>> /\ Head(f[n]) = refs[i]
           S == {n \in 0 .. Len(refs) : ~good(n)}
<1>2. S = {}
  <2> SUFFICES ASSUME S # {} PROVE FALSE
    OBVIOUS
  <2>1. PICK n \in S : n = 0 \/ (n - 1 \in Nat /\ n - 1 \notin S)
    <3>1. S \in SUBSET Nat
      OBVIOUS
    <3> HIDE DEF S
    <3> QED BY <3>1, LeastMember
  <2>2. n # 0
    <3>1. f[0] \in Seq(Objects) /\ Range(f[0]) = {} /\ front(0) = {}
      BY <1>1 DEF Range
    <3>2. good(0)
      BY <3>1
    <3> QED BY <3>2
  <2>3. n \in 1 .. Len(refs) /\ n - 1 \in 0 .. Len(refs) /\ good(n - 1)
    BY <2>1, <2>2
  <2>4. refs[n] \in Objects /\ f[n] = InsertOwner(f[n - 1], refs[n])
    BY <2>3, <1>1
  <2>5. /\ f[n] \in Seq(Objects) /\ Range(f[n]) = Range(f[n - 1]) \cup {refs[n]} /\ f[n] # <<>>
        /\ (\A j \in DOMAIN f[n - 1] : ComesBefore(refs[n], f[n - 1][j])) => Head(f[n]) = refs[n]
        /\ f[n - 1] # <<>> /\ ~ComesBefore(refs[n], Head(f[n - 1])) => Head(f[n]) = Head(f[n - 1])
    <3>1. f[n - 1] \in Seq(Objects)
      BY <2>3
    <3>2. refs[n] \in Objects /\ f[n] = InsertOwner(f[n - 1], refs[n])
      BY <2>4
    <3> HIDE DEF good
    <3> QED BY <3>1, <3>2, InsertOwnerIs
  <2>6. front(n) = front(n - 1) \cup {refs[n]}
    <3>1. 1 .. n = (1 .. n - 1) \cup {n}
      BY <2>3
    <3> QED BY <3>1
  <2>7. ASSUME NEW i \in 1 .. n, leads(n, i) PROVE Head(f[n]) = refs[i]
    <3>1. CASE i = n
      <4>1. ASSUME NEW j \in DOMAIN f[n - 1] PROVE ComesBefore(refs[n], f[n - 1][j])
        <5>1. f[n - 1][j] \in front(n - 1)
          BY <2>3 DEF Range
        <5>2. f[n - 1][j] \notin NamedMachine
          BY <5>1, <3>1, <2>7
        <5> QED BY <5>2, <3>1, <2>7 DEF ComesBefore
      <4> QED BY <4>1, <2>5, <3>1
    <3>2. CASE i # n
      <4>1. i \in 1 .. n - 1 /\ leads(n - 1, i)
        BY <3>2, <2>3, <2>7
      <4>2. f[n - 1] # <<>> /\ Head(f[n - 1]) = refs[i]
        BY <4>1, <2>3
      <4>3. ~ComesBefore(refs[n], Head(f[n - 1]))
        BY <4>2, <2>7 DEF ComesBefore
      <4> QED BY <4>2, <4>3, <2>5
    <3> QED BY <3>1, <3>2
  <2>8. good(n)
    BY <2>3, <2>5, <2>6, <2>7
  <2> QED BY <2>8
<1>3. good(Len(refs))
  <2>1. Len(refs) \in 0 .. Len(refs)
    OBVIOUS
  <2> HIDE DEF good
  <2> QED BY <1>2, <2>1
<1>4. Range(refs) = front(Len(refs))
  BY DEF Range
<1>5. ASSUME Range(refs) \cap NamedMachine # {}
      PROVE  SortOwners(refs) # <<>> /\ Head(SortOwners(refs)) = First(refs, NamedMachine)
  <2>1. PICK i \in DOMAIN refs : /\ First(refs, NamedMachine) = refs[i]
                                 /\ refs[i] \in NamedMachine
                                 /\ \A j \in 1 .. i - 1 : refs[j] \notin NamedMachine
    BY <1>5, FirstIs
  <2>2. i \in 1 .. Len(refs) /\ leads(Len(refs), i)
    BY <2>1
  <2> QED BY <2>1, <2>2, <1>1, <1>3
<1> QED BY <1>1, <1>3, <1>4, <1>5
----------------------------------------------------------------------------
(* Type correctness *)

\* One call of find.
LEMMA FindIs ==
    ASSUME ResolverTypeOK, NEW o \in Objects, NEW p \in Seq(Objects), NEW r \in Seq(Seq(Objects)),
           Len(r) = Len(p), Len(p) < MaxDepth, Find(o, p, r)
    PROVE  /\ path' \in Seq(Objects) /\ rest' \in Seq(Seq(Objects))
           /\ Len(path') = Len(p) + 1 /\ Len(rest') = Len(p) + 1
           /\ path'[Len(p) + 1] = o /\ \A n \in 1 .. Len(p) : path'[n] = p[n]
           /\ rest'[Len(p) + 1] = SortOwners(owners[o]) /\ \A n \in 1 .. Len(p) : rest'[n] = r[n]
           /\ Range(owners[o]) \cap Machines = {} => result' = "pending"
           /\ Range(owners[o]) \cap Machines # {} => result' \in Range(owners[o]) \cap Machines
<1>1. owners[o] \in Seq(Objects)
  BY DEF ResolverTypeOK
<1> DEFINE s == SortOwners(owners[o])
<1>2. s \in Seq(Objects)
  BY <1>1, SortIs
<1>3. path' = Append(p, o) /\ rest' = Append(r, s)
  BY DEF Find
<1> HIDE DEF s
<1>4. ASSUME Range(owners[o]) \cap Machines # {} PROVE result' \in Range(owners[o]) \cap Machines
  <2>1. PICK i \in DOMAIN owners[o] :
            First(owners[o], Machines) = owners[o][i] /\ owners[o][i] \in Machines
    BY <1>1, <1>4, FirstIs
  <2> QED BY <2>1, <1>4 DEF Find, Range
<1>5. Range(owners[o]) \cap Machines = {} => result' = "pending"
  BY DEF Find
<1>6. /\ path' \in Seq(Objects) /\ Len(path') = Len(p) + 1
      /\ path'[Len(p) + 1] = o /\ \A n \in 1 .. Len(p) : path'[n] = p[n]
  BY <1>3
<1>7. /\ rest' \in Seq(Seq(Objects)) /\ Len(rest') = Len(r) + 1
      /\ rest'[Len(r) + 1] = s /\ \A n \in 1 .. Len(r) : rest'[n] = r[n]
  BY <1>2, <1>3
<1> QED BY <1>4, <1>5, <1>6, <1>7 DEF s

\* The owner that is tried next, and the lists without it.
LEMMA NextOwner ==
    ASSUME ResolverTypeOK, NEW n \in Nat, n = Len(path), n > 0, MayDescend(n)
    PROVE  /\ rest[n] \in Seq(Objects) /\ Head(rest[n]) \in Range(rest[n])
           /\ Head(rest[n]) \in Objects /\ n < MaxDepth
           /\ [rest EXCEPT ![n] = Tail(@)] \in Seq(Seq(Objects))
           /\ Len([rest EXCEPT ![n] = Tail(@)]) = n
           /\ \A m \in 1 .. n - 1 : [rest EXCEPT ![n] = Tail(@)][m] = rest[m]
           /\ [rest EXCEPT ![n] = Tail(@)][n] = Tail(rest[n])
           /\ Range(rest[n]) = Range(Tail(rest[n])) \cup {Head(rest[n])}
<1>1. rest \in Seq(Seq(Objects)) /\ n \in 1 .. Len(rest) /\ Len(rest) = n
  BY DEF ResolverTypeOK
<1>2. rest[n] \in Seq(Objects) /\ rest[n] # <<>> /\ n < MaxDepth
  BY <1>1, ElementOfSeq DEF MayDescend
<1> DEFINE t == Tail(rest[n])
           l == rest[n]
<1>3. t \in Seq(Objects) /\ Len(t) = Len(l) - 1 /\ \A i \in 1 .. Len(t) : t[i] = l[i + 1]
  BY <1>2, HeadTailProperties
<1>4. Head(l) \in Objects /\ Head(l) = l[1] /\ Len(l) >= 1 /\ Len(l) \in Nat /\ DOMAIN l = 1 .. Len(l)
  BY <1>2
<1>5. Range(l) = Range(t) \cup {Head(l)}
  <2>0. DOMAIN t = 1 .. Len(t)
    BY <1>3
  <2> HIDE DEF t, l
  <2>1. ASSUME NEW i \in 1 .. Len(l) PROVE l[i] \in Range(t) \cup {Head(l)}
    <3>1. CASE i = 1
      BY <3>1, <1>4
    <3>2. CASE i > 1
      <4>1. i - 1 \in 1 .. Len(t) /\ t[i - 1] = l[i]
        BY <3>2, <1>3, <1>4
      <4> QED BY <4>1, <2>0 DEF Range
    <3> QED BY <3>1, <3>2
  <2>2. ASSUME NEW i \in 1 .. Len(t) PROVE t[i] \in Range(l)
    <3>1. i + 1 \in 1 .. Len(l) /\ t[i] = l[i + 1]
      BY <1>3, <1>4
    <3> QED BY <3>1, <1>4 DEF Range
  <2>3. Head(l) \in Range(l)
    BY <1>4 DEF Range
  <2> QED BY <2>0, <2>1, <2>2, <2>3, <1>4 DEF Range
<1> DEFINE r == [rest EXCEPT ![n] = t]
<1>6. /\ r \in Seq(Seq(Objects)) /\ Len(r) = Len(rest)
      /\ \A m \in 1 .. Len(rest) : r[m] = IF m = n THEN t ELSE rest[m]
  <2> HIDE DEF t
  <2>1. t \in Seq(Objects)
    BY <1>3
  <2> QED BY <2>1, <1>1, ExceptSeq
<1>7. [rest EXCEPT ![n] = Tail(@)] = r
  OBVIOUS
<1> HIDE DEF r, t, l
<1>8. /\ r \in Seq(Seq(Objects)) /\ Len(r) = n /\ r[n] = t
      /\ \A m \in 1 .. n - 1 : r[m] = rest[m]
  <2>1. \A m \in 1 .. n - 1 : m \in 1 .. Len(rest) /\ m # n
    BY <1>1
  <2> QED BY <2>1, <1>1, <1>6
<1> QED BY <1>2, <1>4, <1>5, <1>7, <1>8 DEF t, l

\* The search one level up.
LEMMA FrontIs ==
    ASSUME ResolverTypeOK, Len(path) > 1
    PROVE  /\ Front(path) \in Seq(Objects) /\ Len(Front(path)) = Len(path) - 1
           /\ \A n \in 1 .. Len(path) - 1 : Front(path)[n] = path[n]
           /\ Front(rest) \in Seq(Seq(Objects)) /\ Len(Front(rest)) = Len(path) - 1
           /\ \A n \in 1 .. Len(path) - 1 : Front(rest)[n] = rest[n]
BY DEF ResolverTypeOK, Front

LEMMA ResolverTypeStep ==
    ASSUME ResolverTypeOK, [ResolverNext]_resolverVars
    PROVE  ResolverTypeOK'
<1> USE ResolverAssumption
<1>1. CASE GetHostname
  <2> DEFINE e == <<>>
  <2>1. e \in Seq(Objects) /\ e \in Seq(Seq(Objects)) /\ Len(e) = 0
    OBVIOUS
  <2>2. Find(Claim, e, e) /\ Claim \in Objects /\ Len(e) < MaxDepth
    BY <1>1, <2>1 DEF GetHostname
  <2> HIDE DEF e
  <2>3. /\ path' \in Seq(Objects) /\ rest' \in Seq(Seq(Objects))
        /\ Len(path') = Len(e) + 1 /\ Len(rest') = Len(e) + 1
        /\ result' = "pending" \/ result' \in Machines
    BY <2>1, <2>2, FindIs
  <2>4. Len(path') = 1 /\ Len(rest') = 1 /\ result' \in Objects \cup {"pending"}
    BY <2>1, <2>3 DEF Machines
  <2>5. 1 <= MaxDepth
    OBVIOUS
  <2>6. UNCHANGED <<owners, readable, lost, disappearances>>
    BY <1>1 DEF GetHostname
  <2> QED BY <2>3, <2>4, <2>5, <2>6 DEF ResolverTypeOK
<1>2. CASE TryOwner
  <2> DEFINE n == Len(path)
             r == [rest EXCEPT ![n] = Tail(@)]
             o == Head(rest[n])
  <2>1. n \in Nat /\ n > 0 /\ MayDescend(n)
    BY <1>2 DEF TryOwner, ResolverTypeOK
  <2>2. r \in Seq(Seq(Objects)) /\ Len(r) = Len(path) /\ o \in Objects /\ Len(path) < MaxDepth
    BY <2>1, NextOwner
  <2>3. CASE o \in readable /\ Find(o, path, r)
    <3>0. Find(o, path, r) /\ path \in Seq(Objects)
      BY <2>3 DEF ResolverTypeOK
    <3> HIDE DEF o, r
    <3>1. /\ path' \in Seq(Objects) /\ rest' \in Seq(Seq(Objects))
          /\ Len(path') = n + 1 /\ Len(rest') = n + 1
          /\ result' \in Objects \cup {"pending"}
      BY <3>0, <2>2, FindIs DEF Machines
    <3> QED BY <1>2, <2>1, <2>2, <3>1 DEF TryOwner, ResolverTypeOK
  <2>4. CASE result' = "error" /\ UNCHANGED <<path, rest>>
    BY <1>2, <2>4 DEF TryOwner, ResolverTypeOK
  <2> QED BY <1>2, <2>3, <2>4 DEF TryOwner
<1>3. CASE Backtrack
  <2>1. CASE result' = "notFound" /\ UNCHANGED <<path, rest>>
    BY <1>3, <2>1 DEF Backtrack, ResolverTypeOK
  <2>2. CASE Len(path) > 1 /\ path' = Front(path) /\ rest' = Front(rest) /\ UNCHANGED result
    BY <1>3, <2>2, FrontIs DEF Backtrack, ResolverTypeOK
  <2> QED BY <1>3, <2>1, <2>2 DEF Backtrack
<1>4. ASSUME NEW o \in Objects \ {Claim}, Disappear(o) \/ Reappear(o) PROVE ResolverTypeOK'
  BY <1>4 DEF Disappear, Reappear, ResolverTypeOK
<1>5. CASE UNCHANGED resolverVars
  BY <1>5 DEF resolverVars, ResolverTypeOK
<1> QED BY <1>1, <1>2, <1>3, <1>4, <1>5 DEF ResolverNext, ResolverStep

\* The search is a chain of objects, with as many lists of owners, never longer
\* than MaxDepth.
THEOREM ResolverTypeCorrect == ResolverSpec => []ResolverTypeOK
<1>1. ResolverInit => ResolverTypeOK
  BY ResolverAssumption DEF ResolverInit, ResolverTypeOK
<1> QED BY <1>1, ResolverTypeStep, PTL DEF ResolverSpec
----------------------------------------------------------------------------
(* Chains of owners *)

\* p[0], ..., p[n] is a chain in which g says that each is owned by the next.
Chain(g, p, n) ==
    p \in [0 .. n -> Objects] /\ \A i \in 1 .. n : p[i] \in Range(g[p[i - 1]])

\* No chain of up to k references leads from o to a Machine.
Clean(g, o, k) ==
    \A n \in 1 .. k : \A p \in [0 .. n -> Objects] :
        Chain(g, p, n) /\ p[0] = o => p[n] \notin Machines

\* The recursion of OwnersAt is well-founded.
LEMMA OwnersAtDef ==
    ASSUME NEW g
    PROVE  /\ OwnersAt(g)[0] = {Claim}
           /\ \A n \in 1 .. MaxDepth : OwnersAt(g)[n] = UNION {Range(g[o]) : o \in OwnersAt(g)[n - 1]}
<1> USE ResolverAssumption
<1> DEFINE step(s) == UNION {Range(g[o]) : o \in s}
           defines(f, m) == f = [n \in 0 .. m |-> IF n = 0 THEN {Claim} ELSE step(f[n - 1])]
           S == {m \in Nat : ~ \E f : defines(f, m)}
           w == CHOOSE f : defines(f, MaxDepth)
<1>1. OwnersAt(g) = w
  BY DEF OwnersAt
<1> HIDE DEF step
<1>2. S = {}
  <2> SUFFICES ASSUME S # {} PROVE FALSE
    OBVIOUS
  <2>1. PICK m \in S : m = 0 \/ (m - 1 \in Nat /\ m - 1 \notin S)
    BY LeastMember
  <2>2. m # 0
    <3>1. defines([n \in 0 .. 0 |-> {Claim}], 0)
      OBVIOUS
    <3> QED BY <3>1
  <2>3. PICK f : defines(f, m - 1)
    BY <2>1, <2>2
  <2> DEFINE h == [n \in 0 .. m |-> IF n = m THEN step(f[m - 1]) ELSE f[n]]
             next(n) == IF n = 0 THEN {Claim} ELSE step(h[n - 1])
  <2>4. ASSUME NEW n \in 0 .. m PROVE h[n] = next(n)
    <3>1. CASE n = m
      <4>1. h[n - 1] = f[m - 1]
        BY <3>1, <2>1, <2>2
      <4> QED BY <4>1, <3>1, <2>2
    <3>2. CASE n # m
      <4>1. h[n] = f[n] /\ n \in 0 .. m - 1 /\ m \in Nat
        BY <3>2
      <4>2. n # 0 => h[n - 1] = f[n - 1]
        BY <4>1
      <4>3. f[n] = IF n = 0 THEN {Claim} ELSE step(f[n - 1])
        BY <2>3, <4>1
      <4> QED BY <4>1, <4>2, <4>3
    <3> QED BY <3>1, <3>2
  <2>5. defines(h, m)
    BY <2>4
  <2> QED BY <2>5
<1>3. defines(w, MaxDepth)
  <2>1. \E f : defines(f, MaxDepth)
    BY <1>2
  <2> QED BY <2>1
<1> HIDE DEF w
<1>4. w[0] = {Claim} /\ \A n \in 1 .. MaxDepth : w[n] = step(w[n - 1])
  <2>1. \A n \in 0 .. MaxDepth : w[n] = IF n = 0 THEN {Claim} ELSE step(w[n - 1])
    BY <1>3
  <2>2. 0 \in 0 .. MaxDepth /\ \A n \in 1 .. MaxDepth : n \in 0 .. MaxDepth /\ n # 0
    OBVIOUS
  <2> QED BY <2>1, <2>2
<1> QED BY <1>1, <1>4 DEF step

\* A chain leads to every object of OwnersAt.
LEMMA ChainTo ==
    ASSUME NEW g \in [Objects -> Seq(Objects)], NEW n \in 0 .. MaxDepth, NEW o \in OwnersAt(g)[n]
    PROVE  \E p : Chain(g, p, n) /\ p[0] = Claim /\ p[n] = o
<1> USE ResolverAssumption
<1> DEFINE at == OwnersAt(g)
           reached(m, q) == \E p : Chain(g, p, m) /\ p[0] = Claim /\ p[m] = q
           S == {m \in 0 .. MaxDepth : \E q \in at[m] : ~reached(m, q)}
<1>1. at[0] = {Claim} /\ \A m \in 1 .. MaxDepth : at[m] = UNION {Range(g[q]) : q \in at[m - 1]}
  BY OwnersAtDef
<1> HIDE DEF at
<1>2. S = {}
  <2> SUFFICES ASSUME S # {} PROVE FALSE
    OBVIOUS
  <2>1. PICK m \in S : m = 0 \/ (m - 1 \in Nat /\ m - 1 \notin S)
    <3>1. S \in SUBSET Nat
      OBVIOUS
    <3> HIDE DEF S
    <3> QED BY <3>1, LeastMember
  <2>2. PICK q \in at[m] : ~reached(m, q)
    OBVIOUS
  <2>3. m # 0
    <3>1. Chain(g, [i \in 0 .. 0 |-> Claim], 0)
      BY DEF Chain
    <3>2. reached(0, Claim)
      BY <3>1
    <3> QED BY <3>2, <2>2, <1>1
  <2>4. m \in 1 .. MaxDepth /\ m - 1 \in 0 .. MaxDepth
    BY <2>3
  <2>5. PICK b \in at[m - 1] : q \in Range(g[b])
    <3>1. at[m] = UNION {Range(g[b]) : b \in at[m - 1]}
      BY <2>4, <1>1
    <3> QED BY <3>1, <2>2
  <2>6. reached(m - 1, b)
    BY <2>1, <2>3, <2>4
  <2>7. PICK p : Chain(g, p, m - 1) /\ p[0] = Claim /\ p[m - 1] = b
    BY <2>6
  <2> DEFINE c == [i \in 0 .. m |-> IF i = m THEN q ELSE p[i]]
  <2>8. b \in Objects /\ q \in Objects
    <3>1. b \in Objects
      BY <2>4, <2>7 DEF Chain
    <3>2. g[b] \in Seq(Objects)
      BY <3>1
    <3> QED BY <3>1, <3>2, <2>5 DEF Range
  <2>9. c \in [0 .. m -> Objects]
    BY <2>4, <2>7, <2>8 DEF Chain
  <2>10. ASSUME NEW i \in 1 .. m PROVE c[i] \in Range(g[c[i - 1]])
    <3>1. c[i - 1] = p[i - 1]
      BY <2>4
    <3>2. CASE i = m
      BY <3>1, <3>2, <2>5, <2>7
    <3>3. CASE i # m
      <4>1. c[i] = p[i] /\ i \in 1 .. m - 1
        BY <3>3
      <4> QED BY <4>1, <3>1, <2>7 DEF Chain
    <3> QED BY <3>2, <3>3
  <2>11. c[0] = Claim /\ c[m] = q
    BY <2>4, <2>7
  <2> HIDE DEF c
  <2>12. Chain(g, c, m)
    BY <2>9, <2>10 DEF Chain
  <2> QED BY <2>11, <2>12, <2>2
<1>3. o \in at[n] /\ n \notin S
  BY <1>2 DEF at
<1> QED BY <1>3

\* Nothing is missed if nothing can be reached.
LEMMA CleanMeans ==
    ASSUME NEW g \in [Objects -> Seq(Objects)], Clean(g, Claim, MaxDepth), NEW n \in 1 .. MaxDepth
    PROVE  OwnersAt(g)[n] \cap Machines = {}
<1> SUFFICES ASSUME NEW o \in OwnersAt(g)[n] PROVE o \notin Machines
  OBVIOUS
<1>1. n \in 0 .. MaxDepth
  BY ResolverAssumption
<1>2. PICK p : Chain(g, p, n) /\ p[0] = Claim /\ p[n] = o
  BY <1>1, ChainTo
<1>3. p \in [0 .. n -> Objects]
  BY <1>2 DEF Chain
<1> QED BY <1>2, <1>3 DEF Clean

\* An object is clean if no owner is a Machine and all are clean one step less.
LEMMA CleanUp ==
    ASSUME NEW g \in [Objects -> Seq(Objects)], NEW o \in Objects, NEW k \in Nat,
           Range(g[o]) \cap Machines = {}, \A q \in Range(g[o]) : Clean(g, q, k)
    PROVE  Clean(g, o, k + 1)
<1> SUFFICES ASSUME NEW n \in 1 .. k + 1, NEW p \in [0 .. n -> Objects],
                    Chain(g, p, n), p[0] = o
             PROVE  p[n] \notin Machines
  BY DEF Clean
<1>1. p[1] \in Range(g[o])
  <2>1. 1 \in 1 .. n
    OBVIOUS
  <2> QED BY <2>1 DEF Chain
<1>2. CASE n = 1
  BY <1>1, <1>2
<1>3. CASE n # 1
  <2> DEFINE c == [i \in 0 .. n - 1 |-> p[i + 1]]
  <2>1. n - 1 \in 1 .. k
    BY <1>3
  <2>2. c \in [0 .. n - 1 -> Objects]
    OBVIOUS
  <2>3. ASSUME NEW i \in 1 .. n - 1 PROVE c[i] \in Range(g[c[i - 1]])
    <3>1. c[i] = p[i + 1] /\ c[i - 1] = p[i] /\ i + 1 \in 1 .. n /\ (i + 1) - 1 = i
      OBVIOUS
    <3> QED BY <3>1 DEF Chain
  <2>4. c[0] = p[1] /\ c[n - 1] = p[n]
    BY <1>3
  <2> HIDE DEF c
  <2>5. Chain(g, c, n - 1)
    BY <2>2, <2>3 DEF Chain
  <2>6. Clean(g, p[1], k)
    BY <1>1
  <2> QED BY <2>1, <2>2, <2>4, <2>5, <2>6 DEF Clean
<1> QED BY <1>2, <1>3
----------------------------------------------------------------------------
(* The search *)

\* What becomes of owner o of the n-th object: it is left to try, or its own
\* owners are being tried, or they were tried in vain as far as they may be.
Accounted(g, n, o) ==
    \/ o \in Range(rest[n])
    \/ n < Len(path) /\ o = path[n + 1]
    \/ Clean(g, o, MaxDepth - n)

\* The n-th object of the search.
LevelOK(g, n) ==
    /\ path[n] \in OwnersAt(g)[n - 1]
    /\ Range(g[path[n]]) \cap Machines = {}
    /\ Range(rest[n]) \subseteq Range(g[path[n]])
    /\ \A o \in Range(g[path[n]]) : Accounted(g, n, o)

\* The search owes nothing to an owner that it has left, and its result is right.
SearchOK(g) ==
    /\ result = "pending" => \A n \in 1 .. Len(path) : LevelOK(g, n)
    /\ Len(path) > 0 => path[1] = Claim
    /\ result \in Objects =>
           result \in Machines /\ \E n \in 1 .. MaxDepth : result \in OwnersAt(g)[n]
    /\ result = "notFound" => Clean(g, Claim, MaxDepth)

SearchInv == ResolverTypeOK /\ SearchOK(owners)

\* find is called for an object n references away from the claim.
LEMMA FindKeeps ==
    ASSUME ResolverTypeOK, NEW g, g = owners, NEW p \in Seq(Objects), NEW r \in Seq(Seq(Objects)),
           Len(r) = Len(p), Len(p) < MaxDepth,
           NEW o \in OwnersAt(g)[Len(p)], o \in Objects, Find(o, p, r),
           Len(p) = 0 => o = Claim
    PROVE  /\ result' = "pending" => LevelOK(g, Len(p) + 1)'
           /\ result' # "pending" =>
                  result' \in Machines /\ \E n \in 1 .. MaxDepth : result' \in OwnersAt(g)[n]
<1> DEFINE n == Len(p) + 1
<1>1. n \in 1 .. MaxDepth /\ n - 1 = Len(p) /\ n \in Nat
  BY ResolverAssumption
<1>2. /\ Len(path') = n /\ path'[n] = o /\ rest'[n] = SortOwners(g[o])
      /\ Range(g[o]) \cap Machines = {} => result' = "pending"
      /\ Range(g[o]) \cap Machines # {} => result' \in Range(g[o]) \cap Machines
  BY FindIs
<1>3. g[o] \in Seq(Objects)
  BY DEF ResolverTypeOK
<1>4. Range(rest'[n]) = Range(g[o])
  BY <1>2, <1>3, SortIs
<1>5. "pending" \notin Machines
  BY ResolverAssumption DEF Machines
<1> HIDE DEF n
<1>6. CASE Range(g[o]) \cap Machines = {}
  <2>1. LevelOK(g, n)'
    BY <1>1, <1>2, <1>4, <1>6 DEF LevelOK, Accounted
  <2> QED BY <1>2, <1>6, <2>1 DEF n
<1>7. CASE Range(g[o]) \cap Machines # {}
  <2>1. result' \in Range(g[o]) /\ result' \in Machines
    BY <1>2, <1>7
  <2>2. OwnersAt(g)[n] = UNION {Range(g[q]) : q \in OwnersAt(g)[n - 1]}
    BY <1>1, OwnersAtDef
  <2>3. result' \in OwnersAt(g)[n]
    BY <1>1, <2>1, <2>2
  <2> QED BY <1>1, <1>5, <2>1, <2>3
<1> QED BY <1>6, <1>7

\* All owners of the object were tried: nothing is to be found from it.
LEMMA LevelDone ==
    ASSUME ResolverTypeOK, NEW g, g = owners, NEW n \in 1 .. MaxDepth, n = Len(path),
           LevelOK(g, n), ~MayDescend(n)
    PROVE  Clean(g, path[n], MaxDepth - n + 1)
<1>1. g \in [Objects -> Seq(Objects)] /\ path[n] \in Objects /\ MaxDepth - n \in Nat
  BY ResolverAssumption, ElementOfSeq DEF ResolverTypeOK
<1>2. ASSUME NEW q \in Range(g[path[n]]) PROVE Clean(g, q, MaxDepth - n)
  <2>1. CASE n < MaxDepth
    <3>1. rest[n] = <<>>
      BY <2>1 DEF MayDescend
    <3>2. q \notin Range(rest[n])
      BY <3>1 DEF Range
    <3> QED BY <3>2, <1>2 DEF LevelOK, Accounted
  <2>2. CASE n >= MaxDepth
    <3>1. 1 .. MaxDepth - n = {}
      BY <2>2, ResolverAssumption
    <3> QED BY <3>1 DEF Clean
  <2> QED BY <2>1, <2>2, ResolverAssumption
<1>3. Range(g[path[n]]) \cap Machines = {}
  BY DEF LevelOK
<1> QED BY <1>1, <1>2, <1>3, CleanUp

LEMMA SearchStep ==
    ASSUME ResolverTypeOK, ResolverTypeOK', NEW g, g = owners, g = owners', SearchOK(g),
           [ResolverNext]_resolverVars
    PROVE  SearchOK(g)'
<1> USE ResolverAssumption
<1>t. /\ g \in [Objects -> Seq(Objects)] /\ path \in Seq(Objects) /\ rest \in Seq(Seq(Objects))
      /\ Len(path) \in Nat /\ Len(rest) = Len(path) /\ Len(path) <= MaxDepth
  BY DEF ResolverTypeOK
<1>s. "pending" \notin Objects /\ "notFound" \notin Objects /\ "error" \notin Objects
  OBVIOUS
<1>1. CASE GetHostname
  <2> DEFINE e == <<>>
  <2>1. e \in Seq(Objects) /\ e \in Seq(Seq(Objects)) /\ Len(e) = 0 /\ path = e
    BY <1>1 DEF GetHostname
  <2>2. Find(Claim, e, e) /\ Claim \in Objects /\ Len(e) < MaxDepth
    BY <1>1, <2>1 DEF GetHostname
  <2>3. Claim \in OwnersAt(g)[Len(e)]
    BY <2>1, OwnersAtDef
  <2> HIDE DEF e
  <2>4. /\ result' = "pending" => LevelOK(g, Len(e) + 1)'
        /\ result' # "pending" =>
               result' \in Machines /\ \E n \in 1 .. MaxDepth : result' \in OwnersAt(g)[n]
    BY <2>1, <2>2, <2>3, FindKeeps
  <2>5. Len(path') = Len(e) + 1 /\ path'[Len(e) + 1] = Claim
    BY <2>1, <2>2, FindIs
  <2>6. Len(e) + 1 = 1
    BY <2>1
  <2>7. Machines \subseteq Objects
    BY DEF Machines
  <2> QED BY <1>s, <2>4, <2>5, <2>6, <2>7 DEF SearchOK
<1>2. CASE TryOwner
  <2>n. PICK n \in Nat : n = Len(path)
    BY <1>t
  <2>o. PICK o : o = Head(rest[n])
    OBVIOUS
  <2>r. PICK r : r = [rest EXCEPT ![n] = Tail(@)]
    OBVIOUS
  <2>1. n \in 1 .. MaxDepth /\ n \in Nat /\ n > 0 /\ MayDescend(n) /\ result = "pending"
    BY <1>2, <1>t, <2>n DEF TryOwner
  <2>2. /\ o \in Range(rest[n]) /\ o \in Objects /\ n < MaxDepth
        /\ r \in Seq(Seq(Objects)) /\ Len(r) = n
        /\ \A m \in 1 .. n - 1 : r[m] = rest[m]
        /\ Range(rest[n]) = Range(r[n]) \cup {o}
    BY <2>1, <2>n, <2>o, <2>r, NextOwner
  <2>3. \A m \in 1 .. n : LevelOK(g, m)
    BY <2>n, <2>1 DEF SearchOK
  <2>4. CASE o \in readable /\ Find(o, path, r)
    <3>0. Find(o, path, r)
      BY <2>4
    <3>1. o \in OwnersAt(g)[n]
      <4>1. path[n] \in OwnersAt(g)[n - 1] /\ Range(rest[n]) \subseteq Range(g[path[n]])
        BY <2>1, <2>3 DEF LevelOK
      <4>2. OwnersAt(g)[n] = UNION {Range(g[q]) : q \in OwnersAt(g)[n - 1]}
        BY <2>1, OwnersAtDef
      <4>3. o \in Range(g[path[n]])
        BY <4>1, <2>2
      <4> QED BY ONLY <4>1, <4>2, <4>3
    <3>2. /\ result' = "pending" => LevelOK(g, n + 1)'
          /\ result' # "pending" =>
                 result' \in Machines /\ \E m \in 1 .. MaxDepth : result' \in OwnersAt(g)[m]
      BY <1>t, <2>n, <2>1, <2>2, <3>0, <3>1, FindKeeps
    <3>3. /\ Len(path') = n + 1 /\ path'[n + 1] = o /\ \A m \in 1 .. n : path'[m] = path[m]
          /\ \A m \in 1 .. n : rest'[m] = r[m]
      BY <1>t, <2>n, <2>2, <3>0, FindIs
    <3>4. ASSUME NEW m \in 1 .. n PROVE LevelOK(g, m)'
      <4>0. m \in Nat /\ m + 1 \in 1 .. n + 1 /\ path'[m] = path[m] /\ rest'[m] = r[m] /\ LevelOK(g, m)
        BY <2>3, <3>3
      <4>1. CASE m < n
        <5>1. r[m] = rest[m] /\ path'[m + 1] = path[m + 1] /\ m < n + 1
          <6>1. m \in 1 .. n - 1 /\ m + 1 \in 1 .. n
            BY <4>1
          <6> QED BY <6>1, <2>2, <3>3
        <5> QED BY <4>0, <4>1, <5>1, <3>3 DEF LevelOK, Accounted
      <4>2. CASE m = n
        <5>1. Range(r[n]) \subseteq Range(rest[n])
          BY <2>2
        <5>2. ASSUME NEW q \in Range(g[path[n]]) PROVE Accounted(g, n, q)'
          <6>1. q \in Range(rest[n]) \/ Clean(g, q, MaxDepth - n)
            BY <4>0, <4>2, <2>n DEF LevelOK, Accounted
          <6>2. q \in Range(r[n]) \/ q = o \/ Clean(g, q, MaxDepth - n)
            BY <6>1, <2>2
          <6> QED BY <6>2, <4>0, <4>2, <3>3, <2>1 DEF Accounted
        <5> QED BY <4>0, <4>2, <5>1, <5>2 DEF LevelOK
      <4> QED BY <4>1, <4>2, <2>1
    <3>5. result' = "pending" => \A m \in 1 .. Len(path') : LevelOK(g, m)'
      <4>1. 1 .. Len(path') = (1 .. n) \cup {n + 1}
        BY <2>1, <3>3
      <4> QED BY <4>1, <3>2, <3>4
    <3>6. path'[1] = Claim
      BY <2>1, <2>n, <3>3 DEF SearchOK
    <3>7. Machines \subseteq Objects
      BY DEF Machines
    <3> QED BY <1>s, <3>2, <3>5, <3>6, <3>7 DEF SearchOK
  <2>5. CASE result' = "error" /\ UNCHANGED <<path, rest>>
    BY <1>s, <2>5 DEF SearchOK
  <2> QED BY <1>2, <2>n, <2>o, <2>r, <2>4, <2>5 DEF TryOwner
<1>3. CASE Backtrack
  <2>n. PICK n \in Nat : n = Len(path)
    BY <1>t
  <2>1. n \in 1 .. MaxDepth /\ n \in Nat /\ n > 0 /\ ~MayDescend(n) /\ result = "pending"
    BY <1>3, <1>t, <2>n DEF Backtrack
  <2>2. \A m \in 1 .. n : LevelOK(g, m)
    BY <2>n, <2>1 DEF SearchOK
  <2>3. Clean(g, path[n], MaxDepth - n + 1)
    BY <2>1, <2>2, <2>n, LevelDone
  <2>4. CASE n = 1 /\ result' = "notFound" /\ UNCHANGED <<path, rest>>
    <3>1. path[n] = Claim /\ MaxDepth - n + 1 = MaxDepth
      BY <2>n, <2>1, <2>4 DEF SearchOK
    <3>2. Clean(g, Claim, MaxDepth)
      BY <3>1, <2>3
    <3> QED BY <1>s, <2>4, <3>2 DEF SearchOK
  <2>5. CASE n > 1 /\ path' = Front(path) /\ rest' = Front(rest) /\ UNCHANGED result
    <3>1. /\ Len(path') = n - 1 /\ \A m \in 1 .. n - 1 : path'[m] = path[m]
          /\ \A m \in 1 .. n - 1 : rest'[m] = rest[m]
      BY <2>n, <2>5, FrontIs
    <3>2. ASSUME NEW m \in 1 .. n - 1 PROVE LevelOK(g, m)'
      <4>1. LevelOK(g, m) /\ path'[m] = path[m] /\ rest'[m] = rest[m] /\ m \in Nat
        BY <2>2, <3>1
      <4>2. ASSUME NEW q \in Range(g[path[m]]) PROVE Accounted(g, m, q)'
        <5>1. Accounted(g, m, q)
          BY <4>1 DEF LevelOK
        <5>2. CASE m < n /\ q = path[m + 1]
          <6>1. CASE m + 1 < n
            <7>1. m < n - 1 /\ m + 1 \in 1 .. n - 1
              BY <6>1, <2>1
            <7> QED BY <7>1, <5>2, <3>1, <2>n DEF Accounted
          <6>2. CASE m + 1 = n
            <7>1. MaxDepth - n + 1 = MaxDepth - m
              BY <6>2, <2>1
            <7> QED BY <7>1, <6>2, <5>2, <2>3 DEF Accounted
          <6> QED BY <6>1, <6>2, <2>1
        <5>3. CASE q \in Range(rest[m]) \/ Clean(g, q, MaxDepth - m)
          BY <5>3, <4>1 DEF Accounted
        <5> QED BY <5>1, <5>2, <5>3 DEF Accounted
      <4> QED BY <4>1, <4>2 DEF LevelOK
    <3>3. path'[1] = Claim
      BY <2>n, <2>1, <2>5, <3>1 DEF SearchOK
    <3> QED BY <1>s, <2>1, <2>5, <3>1, <3>2, <3>3 DEF SearchOK
  <2> QED BY <1>3, <2>n, <2>4, <2>5 DEF Backtrack
<1>4. CASE UNCHANGED <<path, rest, result>>
  BY <1>4 DEF SearchOK, LevelOK, Accounted
<1>5. ASSUME NEW o \in Objects \ {Claim}, Disappear(o) \/ Reappear(o) PROVE UNCHANGED <<path, rest, result>>
  BY <1>5 DEF Disappear, Reappear
<1>6. CASE UNCHANGED resolverVars
  BY <1>4, <1>6 DEF resolverVars
<1> QED BY <1>1, <1>2, <1>3, <1>4, <1>5, <1>6 DEF ResolverNext, ResolverStep

\* The owner references do not change.
LEMMA OwnersStay == [ResolverNext]_resolverVars => owners' = owners
BY DEF ResolverNext, ResolverStep, GetHostname, TryOwner, Backtrack, Disappear, Reappear, resolverVars

LEMMA SearchCorrect == ResolverSpec => []SearchInv
<1>1. ResolverInit => SearchInv
  <2> SUFFICES ASSUME ResolverInit PROVE SearchInv
    OBVIOUS
  <2>1. ResolverTypeOK
    BY ResolverAssumption DEF ResolverInit, ResolverTypeOK
  <2>2. path = <<>> /\ result = "pending" /\ Len(path) = 0 /\ "pending" \notin Objects
    BY ResolverAssumption DEF ResolverInit
  <2> QED BY <2>1, <2>2 DEF SearchInv, SearchOK
<1>2. SearchInv /\ [ResolverNext]_resolverVars => SearchInv'
  <2> SUFFICES ASSUME SearchInv, [ResolverNext]_resolverVars PROVE SearchInv'
    OBVIOUS
  <2>1. PICK g : g = owners
    OBVIOUS
  <2>2. g = owners' /\ ResolverTypeOK /\ ResolverTypeOK'
    BY <2>1, OwnersStay, ResolverTypeStep DEF SearchInv
  <2>3. SearchOK(g)
    BY <2>1 DEF SearchInv
  <2>4. SearchOK(g)'
    BY <2>1, <2>2, <2>3, SearchStep
  <2> QED BY <2>2, <2>4 DEF SearchInv
<1> QED BY <1>1, <1>2, PTL DEF ResolverSpec

\* The name returned is that of a Machine which owns the claim, directly or
\* through at most MaxDepth references, whatever objects own each other.
THEOREM NameIsRight == ResolverSpec => []NameOfAnOwner
<1>1. SearchInv => NameOfAnOwner
  BY DEF SearchInv, SearchOK, NameOfAnOwner
<1> QED BY <1>1, SearchCorrect, PTL

\* find reports that there is no Machine only if there is none within MaxDepth
\* references, whatever disappears during the search, in which order the owners
\* are tried, and although a shared owner is searched again and again.
THEOREM NothingIsMissed == ResolverSpec => []NotFoundMeansNone
<1>1. SearchInv => NotFoundMeansNone
  <2> SUFFICES ASSUME SearchInv, result = "notFound", NEW n \in 1 .. MaxDepth
               PROVE  OwnersAt(owners)[n] \cap Machines = {}
    BY DEF NotFoundMeansNone
  <2>1. owners \in [Objects -> Seq(Objects)] /\ Clean(owners, Claim, MaxDepth)
    BY DEF SearchInv, SearchOK, ResolverTypeOK
  <2> QED BY <2>1, CleanMeans
<1> QED BY <1>1, SearchCorrect, PTL
----------------------------------------------------------------------------
(* The favourite owners *)

\* The recursion of FavouriteAt is well-founded.
LEMMA FavouriteAtDef ==
    ASSUME NEW g
    PROVE  /\ FavouriteAt(g)[0] = {Claim}
           /\ \A n \in 1 .. MaxDepth :
                 FavouriteAt(g)[n] =
                     {First(g[o], NamedMachine) :
                         o \in {q \in FavouriteAt(g)[n - 1] : Range(g[q]) \cap NamedMachine # {}}}
<1> USE ResolverAssumption
<1> DEFINE step(s) == {First(g[o], NamedMachine) :
                          o \in {q \in s : Range(g[q]) \cap NamedMachine # {}}}
           defines(f, m) == f = [n \in 0 .. m |-> IF n = 0 THEN {Claim} ELSE step(f[n - 1])]
           S == {m \in Nat : ~ \E f : defines(f, m)}
           w == CHOOSE f : defines(f, MaxDepth)
<1>1. FavouriteAt(g) = w
  BY DEF FavouriteAt
<1> HIDE DEF step
<1>2. S = {}
  <2> SUFFICES ASSUME S # {} PROVE FALSE
    OBVIOUS
  <2>1. PICK m \in S : m = 0 \/ (m - 1 \in Nat /\ m - 1 \notin S)
    BY LeastMember
  <2>2. m # 0
    <3>1. defines([n \in 0 .. 0 |-> {Claim}], 0)
      OBVIOUS
    <3> QED BY <3>1
  <2>3. PICK f : defines(f, m - 1)
    BY <2>1, <2>2
  <2> DEFINE h == [n \in 0 .. m |-> IF n = m THEN step(f[m - 1]) ELSE f[n]]
             next(n) == IF n = 0 THEN {Claim} ELSE step(h[n - 1])
  <2>4. ASSUME NEW n \in 0 .. m PROVE h[n] = next(n)
    <3>1. CASE n = m
      <4>1. h[n - 1] = f[m - 1]
        BY <3>1, <2>1, <2>2
      <4> QED BY <4>1, <3>1, <2>2
    <3>2. CASE n # m
      <4>1. h[n] = f[n] /\ n \in 0 .. m - 1 /\ m \in Nat
        BY <3>2
      <4>2. n # 0 => h[n - 1] = f[n - 1]
        BY <4>1
      <4>3. f[n] = IF n = 0 THEN {Claim} ELSE step(f[n - 1])
        BY <2>3, <4>1
      <4> QED BY <4>1, <4>2, <4>3
    <3> QED BY <3>1, <3>2
  <2>5. defines(h, m)
    BY <2>4
  <2> QED BY <2>5
<1>3. defines(w, MaxDepth)
  <2>1. \E f : defines(f, MaxDepth)
    BY <1>2
  <2> QED BY <2>1
<1> HIDE DEF w
<1>4. w[0] = {Claim} /\ \A n \in 1 .. MaxDepth : w[n] = step(w[n - 1])
  <2>1. \A n \in 0 .. MaxDepth : w[n] = IF n = 0 THEN {Claim} ELSE step(w[n - 1])
    BY <1>3
  <2>2. 0 \in 0 .. MaxDepth /\ \A n \in 1 .. MaxDepth : n \in 0 .. MaxDepth /\ n # 0
    OBVIOUS
  <2> QED BY <2>1, <2>2
<1> QED BY <1>1, <1>4 DEF step

\* The chain of favourites ends where one has none.
LEMMA FavouriteBefore ==
    ASSUME NEW g, NEW n \in 1 .. MaxDepth, FavouriteAt(g)[n] # {}, NEW k \in 0 .. n
    PROVE  FavouriteAt(g)[k] # {}
<1> USE ResolverAssumption
<1> DEFINE at == FavouriteAt(g)
           S == {i \in 0 .. n : at[n - i] = {}}
<1>1. \A m \in 1 .. MaxDepth : at[m - 1] = {} => at[m] = {}
  <2> SUFFICES ASSUME NEW m \in 1 .. MaxDepth, at[m - 1] = {} PROVE at[m] = {}
    OBVIOUS
  <2>1. at[m] = {First(g[o], NamedMachine) :
                    o \in {q \in at[m - 1] : Range(g[q]) \cap NamedMachine # {}}}
    BY FavouriteAtDef
  <2> QED BY <2>1
<1>2. at[n] # {}
  OBVIOUS
<1> HIDE DEF at
<1>3. S = {}
  <2> SUFFICES ASSUME S # {} PROVE FALSE
    OBVIOUS
  <2>1. PICK i \in S : i = 0 \/ (i - 1 \in Nat /\ i - 1 \notin S)
    <3>1. S \in SUBSET Nat
      OBVIOUS
    <3> HIDE DEF S
    <3> QED BY <3>1, LeastMember
  <2>2. i # 0
    BY <1>2
  <2>3. i - 1 \in 0 .. n /\ n - (i - 1) \in 1 .. MaxDepth /\ (n - (i - 1)) - 1 = n - i
    BY <2>1, <2>2
  <2>4. at[n - (i - 1)] # {}
    BY <2>1, <2>2, <2>3
  <2> QED BY <1>1, <2>3, <2>4
<1>4. n - k \in 0 .. n /\ n - (n - k) = k
  OBVIOUS
<1>5. n - k \notin S
  BY <1>3
<1> QED BY <1>4, <1>5 DEF at

\* The n-th favourite is a Machine, and those before it were never unreadable.
Promising(g, n) ==
    /\ FavouriteAt(g)[n] \cap Machines # {}
    /\ \A i \in 1 .. n - 1 : FavouriteAt(g)[i] \cap lost = {}

\* A promising search goes down the favourites and finds a Machine.
FavouriteOK(g, n) ==
    /\ result \notin {"notFound", "error"}
    /\ result = "pending" =>
          /\ Len(path) < n
          /\ \A k \in 1 .. Len(path) : FavouriteAt(g)[k - 1] = {path[k]}
          /\ Len(path) > 0 => rest[Len(path)] = SortOwners(g[path[Len(path)]])

FavouritesOK(g) ==
    /\ Objects \subseteq readable \cup lost
    /\ \A n \in 1 .. MaxDepth : Promising(g, n) => FavouriteOK(g, n)

FavouritesInv == ResolverTypeOK /\ FavouritesOK(owners)

\* The favourite of o, if there is one; it is the owner that is tried first.
LEMMA FavouriteIs ==
    ASSUME NEW g \in [Objects -> Seq(Objects)], NEW o \in Objects, NEW k \in 1 .. MaxDepth,
           FavouriteAt(g)[k - 1] = {o}, FavouriteAt(g)[k] # {}
    PROVE  /\ SortOwners(g[o]) # <<>>
           /\ FavouriteAt(g)[k] = {Head(SortOwners(g[o]))}
           /\ Head(SortOwners(g[o])) \in Range(g[o])
<1> DEFINE at == FavouriteAt(g)
<1>1. at[k] = {First(g[q], NamedMachine) : q \in {b \in at[k - 1] : Range(g[b]) \cap NamedMachine # {}}}
  BY FavouriteAtDef
<1>2. Range(g[o]) \cap NamedMachine # {} /\ at[k] = {First(g[o], NamedMachine)}
  BY <1>1
<1>3. g[o] \in Seq(Objects)
  OBVIOUS
<1>4. SortOwners(g[o]) # <<>> /\ Head(SortOwners(g[o])) = First(g[o], NamedMachine)
  BY <1>2, <1>3, SortIs
<1>5. First(g[o], NamedMachine) \in Range(g[o])
  BY <1>2, <1>3, FirstIs DEF Range
<1> QED BY <1>2, <1>4, <1>5

\* find is called for the favourite that is Len(p) references away.
LEMMA FindFavourite ==
    ASSUME ResolverTypeOK, NEW g, g = owners, NEW p \in Seq(Objects), NEW r \in Seq(Seq(Objects)),
           Len(r) = Len(p), Len(p) < MaxDepth, NEW o \in Objects, Find(o, p, r),
           NEW n \in 1 .. MaxDepth, Promising(g, n), Len(p) < n,
           \A k \in 1 .. Len(p) : FavouriteAt(g)[k - 1] = {p[k]},
           FavouriteAt(g)[Len(p)] = {o}
    PROVE  FavouriteOK(g, n)'
<1> USE ResolverAssumption
<1>0. PICK l \in Nat : l = Len(p)
  OBVIOUS
<1>1. /\ Len(path') = l + 1 /\ path'[l + 1] = o /\ \A k \in 1 .. l : path'[k] = p[k]
      /\ rest'[l + 1] = SortOwners(g[o])
      /\ Range(g[o]) \cap Machines = {} => result' = "pending"
      /\ Range(g[o]) \cap Machines # {} => result' \in Range(g[o]) \cap Machines
  BY <1>0, FindIs
<1>2. result' \notin {"notFound", "error"}
  BY <1>1 DEF Machines
<1>3. ASSUME result' = "pending" PROVE l + 1 < n
  <2> SUFFICES ASSUME l + 1 = n PROVE FALSE
    BY <1>0
  <2>1. FavouriteAt(g)[n - 1] = {o} /\ FavouriteAt(g)[n] # {} /\ n - 1 = l
    BY <1>0 DEF Promising
  <2>2. g \in [Objects -> Seq(Objects)]
    BY DEF ResolverTypeOK
  <2>3. FavouriteAt(g)[n] = {Head(SortOwners(g[o]))} /\ Head(SortOwners(g[o])) \in Range(g[o])
    BY <2>1, <2>2, FavouriteIs, Zenon
  <2>4. Range(g[o]) \cap Machines # {}
    BY <2>3 DEF Promising
  <2>5. "pending" \notin Machines
    BY DEF Machines
  <2> QED BY <1>1, <1>3, <2>4, <2>5
<1>4. ASSUME NEW k \in 1 .. l + 1 PROVE FavouriteAt(g)[k - 1] = {path'[k]}
  <2>1. CASE k = l + 1
    BY <2>1, <1>0, <1>1
  <2>2. CASE k # l + 1
    <3>1. k \in 1 .. l
      BY <2>2
    <3> QED BY <3>1, <1>0, <1>1
  <2> QED BY <2>1, <2>2
<1> QED BY <1>1, <1>2, <1>3, <1>4 DEF FavouriteOK

LEMMA FavouritesStep ==
    ASSUME ResolverTypeOK, NEW g, g = owners, g = owners', FavouritesOK(g),
           [ResolverNext]_resolverVars
    PROVE  FavouritesOK(g)'
<1> USE ResolverAssumption
<1>t. /\ g \in [Objects -> Seq(Objects)] /\ path \in Seq(Objects) /\ rest \in Seq(Seq(Objects))
      /\ Len(path) \in Nat /\ Len(rest) = Len(path) /\ Len(path) <= MaxDepth
  BY DEF ResolverTypeOK
<1>r. Objects \subseteq readable' \cup lost' /\ lost \subseteq lost'
  BY DEF FavouritesOK, ResolverNext, ResolverStep, GetHostname, TryOwner, Backtrack, Disappear,
         Reappear, resolverVars
<1>p. SUFFICES ASSUME NEW n \in 1 .. MaxDepth, Promising(g, n) PROVE FavouriteOK(g, n)'
  BY <1>r DEF FavouritesOK, Promising
<1>i. FavouriteOK(g, n)
  BY <1>p DEF FavouritesOK
<1>f. \A k \in 0 .. n : FavouriteAt(g)[k] # {}
  BY <1>p, FavouriteBefore DEF Promising
<1>1. CASE GetHostname
  <2> DEFINE e == <<>>
  <2>1. e \in Seq(Objects) /\ e \in Seq(Seq(Objects)) /\ Len(e) = 0
    OBVIOUS
  <2>2. Find(Claim, e, e) /\ Claim \in Objects /\ Len(e) < MaxDepth
    BY <1>1, <2>1 DEF GetHostname
  <2>3. FavouriteAt(g)[Len(e)] = {Claim} /\ Len(e) < n
    BY <2>1, FavouriteAtDef
  <2>4. \A k \in 1 .. Len(e) : FavouriteAt(g)[k - 1] = {e[k]}
    BY <2>1
  <2> HIDE DEF e
  <2> QED BY <1>p, <2>1, <2>2, <2>3, <2>4, FindFavourite
<1>2. CASE TryOwner
  <2>n. PICK l \in Nat : l = Len(path)
    BY <1>t
  <2>o. PICK o : o = Head(rest[l])
    OBVIOUS
  <2>r. PICK r : r = [rest EXCEPT ![l] = Tail(@)]
    OBVIOUS
  <2>1. l \in 1 .. MaxDepth /\ l > 0 /\ MayDescend(l) /\ result = "pending"
    BY <1>2, <1>t, <2>n DEF TryOwner
  <2>2. o \in Objects /\ l < MaxDepth /\ r \in Seq(Seq(Objects)) /\ Len(r) = l
    BY <2>1, <2>n, <2>o, <2>r, NextOwner
  <2>3. /\ l < n /\ \A k \in 1 .. l : FavouriteAt(g)[k - 1] = {path[k]}
        /\ rest[l] = SortOwners(g[path[l]])
    BY <1>i, <2>n, <2>1 DEF FavouriteOK
  <2>4. FavouriteAt(g)[l] = {o}
    <3>1. path[l] \in Objects
      BY <1>t, <2>n, <2>1, ElementOfSeq
    <3>2. l \in 0 .. n
      BY <2>3
    <3>3. FavouriteAt(g)[l - 1] = {path[l]} /\ FavouriteAt(g)[l] # {}
      BY <1>f, <2>1, <2>3, <3>2
    <3>4. FavouriteAt(g)[l] = {Head(SortOwners(g[path[l]]))}
      BY <1>t, <2>1, <3>1, <3>3, FavouriteIs, Zenon
    <3> QED BY <2>o, <2>3, <3>4
  <2>5. o \in readable
    <3>1. l \in 1 .. n - 1
      BY <2>1, <2>3
    <3>2. o \notin lost
      BY <1>p, <2>4, <3>1 DEF Promising
    <3> QED BY <2>2, <3>2 DEF FavouritesOK
  <2>6. Find(o, path, r)
    BY <1>2, <2>n, <2>o, <2>r, <2>5 DEF TryOwner
  <2>7. /\ Len(r) = Len(path) /\ Len(path) < MaxDepth /\ Len(path) < n
        /\ \A k \in 1 .. Len(path) : FavouriteAt(g)[k - 1] = {path[k]}
        /\ FavouriteAt(g)[Len(path)] = {o}
    BY <2>n, <2>2, <2>3, <2>4
  <2> QED BY <1>p, <1>t, <2>2, <2>6, <2>7, FindFavourite, Zenon
<1>3. CASE Backtrack
  <2>n. PICK l \in Nat : l = Len(path)
    BY <1>t
  <2>1. l \in 1 .. MaxDepth /\ l > 0 /\ ~MayDescend(l) /\ result = "pending"
    BY <1>3, <1>t, <2>n DEF Backtrack
  <2>2. /\ l < n /\ FavouriteAt(g)[l - 1] = {path[l]} /\ rest[l] = SortOwners(g[path[l]])
    BY <1>i, <2>n, <2>1 DEF FavouriteOK
  <2>3. path[l] \in Objects /\ FavouriteAt(g)[l] # {}
    <3>1. l \in 0 .. n
      BY <2>2
    <3>2. path[l] \in Objects
      BY <1>t, <2>n, <2>1, ElementOfSeq
    <3> QED BY <1>f, <3>1, <3>2
  <2>4. rest[l] # <<>>
    <3>1. SortOwners(g[path[l]]) # <<>>
      BY <1>t, <2>1, <2>2, <2>3, FavouriteIs, Zenon
    <3> QED BY <2>2, <3>1
  <2> QED BY <2>1, <2>2, <2>4 DEF MayDescend
<1>4. CASE UNCHANGED <<path, rest, result>>
  BY <1>4, <1>i DEF FavouriteOK
<1>5. ASSUME NEW o \in Objects \ {Claim}, Disappear(o) \/ Reappear(o) PROVE UNCHANGED <<path, rest, result>>
  BY <1>5 DEF Disappear, Reappear
<1>6. CASE UNCHANGED resolverVars
  BY <1>4, <1>6 DEF resolverVars
<1> QED BY <1>1, <1>2, <1>3, <1>4, <1>5, <1>6 DEF ResolverNext, ResolverStep

\* Owners that cannot be read do not matter where owners with "Machine" in their
\* kind, all of them readable, lead to the Machine: the order in which owners
\* are tried keeps the search away from the others.
THEOREM MachineKindsComeFirst == ResolverSpec => []MachineKindsSuffice
<1>1. ResolverInit => FavouritesInv
  <2> SUFFICES ASSUME ResolverInit PROVE FavouritesInv
    OBVIOUS
  <2>1. ResolverTypeOK
    BY ResolverAssumption DEF ResolverInit, ResolverTypeOK
  <2>2. readable = Objects /\ path = <<>> /\ result = "pending" /\ Len(path) = 0
    BY DEF ResolverInit
  <2>3. \A n \in 1 .. MaxDepth : FavouriteOK(owners, n)
    BY <2>2 DEF FavouriteOK
  <2> QED BY <2>1, <2>2, <2>3 DEF FavouritesInv, FavouritesOK
<1>2. FavouritesInv /\ [ResolverNext]_resolverVars => FavouritesInv'
  <2> SUFFICES ASSUME FavouritesInv, [ResolverNext]_resolverVars PROVE FavouritesInv'
    OBVIOUS
  <2>1. PICK g : g = owners
    OBVIOUS
  <2>2. g = owners' /\ ResolverTypeOK /\ ResolverTypeOK'
    BY <2>1, OwnersStay, ResolverTypeStep DEF FavouritesInv
  <2>3. FavouritesOK(g)
    BY <2>1 DEF FavouritesInv
  <2>4. FavouritesOK(g)'
    BY <2>1, <2>2, <2>3, FavouritesStep
  <2> QED BY <2>2, <2>4 DEF FavouritesInv
<1>3. FavouritesInv => MachineKindsSuffice
  BY DEF FavouritesInv, FavouritesOK, FavouriteOK, Promising, MachineKindsSuffice
<1> QED BY <1>1, <1>2, <1>3, PTL DEF ResolverSpec
----------------------------------------------------------------------------
(* The end of the search *)

\* A smaller first level is enough.
LEMMA SmallerAtOnce ==
    ASSUME NEW u, NEW v, u[0] < v[0]
    PROVE  Smaller(u, v)
<1>1. 0 \in 0 .. MaxDepth /\ 0 .. 0 - 1 = {}
  BY ResolverAssumption
<1> QED BY <1>1 DEF Smaller

LEMMA ProgressStep ==
    ASSUME ResolverTypeOK, [ResolverNext]_resolverVars
    PROVE  UNCHANGED <<path, rest, result>> \/ Smaller(Left', Left)
<1> USE ResolverAssumption
<1> DEFINE start(p, r) == IF r # "pending" THEN 0 ELSE IF p = <<>> THEN 2 ELSE 1
           level(p, l, m) == IF m <= Len(p) THEN Len(l[m]) + 1 ELSE 0
<1>1. /\ Left[0] = start(path, result) /\ Left'[0] = start(path', result')
      /\ \A m \in 1 .. MaxDepth : /\ Left[m] = level(path, rest, m)
                                  /\ Left'[m] = level(path', rest', m)
  <2>1. 0 \in 0 .. MaxDepth /\ \A m \in 1 .. MaxDepth : m \in 0 .. MaxDepth /\ m # 0
    OBVIOUS
  <2> QED BY <2>1 DEF Left
<1>2. PICK u, v : u = Left' /\ v = Left
  OBVIOUS
<1>3. SUFFICES UNCHANGED <<path, rest, result>> \/ Smaller(u, v)
  BY <1>2
<1>4. /\ v[0] = start(path, result) /\ u[0] = start(path', result')
      /\ \A m \in 1 .. MaxDepth : v[m] = level(path, rest, m) /\ u[m] = level(path', rest', m)
  BY <1>1, <1>2
<1>5. ASSUME result = "pending", result' # "pending" PROVE Smaller(u, v)
  BY <1>4, <1>5, SmallerAtOnce
<1>6. ASSUME NEW n \in 1 .. MaxDepth, result = "pending", result' = "pending",
             path # <<>>, path' # <<>>, u[n] < v[n],
             \A m \in 1 .. n - 1 : u[m] = v[m]
      PROVE  Smaller(u, v)
  <2>1. u[0] = v[0]
    BY <1>4, <1>6
  <2>2. n \in 0 .. MaxDepth /\ \A m \in 0 .. n - 1 : m = 0 \/ m \in 1 .. n - 1
    OBVIOUS
  <2> QED BY <2>1, <2>2, <1>6 DEF Smaller
<1>7. CASE GetHostname
  <2>1. path = <<>> /\ path' # <<>> /\ result = "pending"
    BY <1>7 DEF GetHostname, Find
  <2> QED BY <2>1, <1>4, SmallerAtOnce
<1>8. CASE TryOwner
  <2>n. PICK n : n = Len(path)
    OBVIOUS
  <2>r. PICK r : r = [rest EXCEPT ![n] = Tail(@)]
    OBVIOUS
  <2>o. PICK o : o = Head(rest[n])
    OBVIOUS
  <2>1. n \in Nat /\ n > 0 /\ MayDescend(n) /\ result = "pending" /\ path # <<>>
    BY <1>8, <2>n DEF TryOwner, ResolverTypeOK
  <2>2. /\ rest[n] \in Seq(Objects) /\ o \in Objects /\ n < MaxDepth
        /\ r \in Seq(Seq(Objects)) /\ Len(r) = n /\ r[n] = Tail(rest[n])
        /\ \A m \in 1 .. n - 1 : r[m] = rest[m]
    BY <2>1, <2>n, <2>r, <2>o, NextOwner
  <2>3. rest[n] # <<>>
    BY <2>1 DEF MayDescend
  <2>4. CASE o \in readable /\ Find(o, path, r)
    <3>1. path \in Seq(Objects) /\ Len(r) = Len(path) /\ Len(path) < MaxDepth
      BY <2>2, <2>n DEF ResolverTypeOK
    <3>2. /\ path' \in Seq(Objects) /\ Len(path') = n + 1
          /\ \A m \in 1 .. n : rest'[m] = r[m]
      BY <2>2, <2>4, <2>n, <3>1, FindIs
    <3>3. CASE result' = "pending"
      <4>1. n \in 1 .. MaxDepth /\ n <= Len(path) /\ n <= Len(path')
        BY <2>1, <2>2, <2>n, <3>2
      <4>2. u[n] = Len(rest'[n]) + 1 /\ v[n] = Len(rest[n]) + 1 /\ rest'[n] = Tail(rest[n])
        BY <4>1, <1>4, <2>2, <3>2
      <4>3. PICK l : l = rest[n]
        OBVIOUS
      <4>4. l \in Seq(Objects) /\ l # <<>> /\ u[n] = Len(Tail(l)) + 1 /\ v[n] = Len(l) + 1
        BY <2>2, <2>3, <4>2, <4>3
      <4>5. u[n] < v[n]
        BY ONLY <4>4
      <4>6. ASSUME NEW m \in 1 .. n - 1 PROVE u[m] = v[m]
        <5>1. m \in 1 .. n /\ m \in 1 .. MaxDepth /\ m <= Len(path) /\ m <= Len(path')
          BY <4>1, <2>n, <3>2
        <5>2. rest'[m] = rest[m]
          BY <5>1, <2>2, <3>2
        <5> QED BY <1>4, <5>1, <5>2
      <4>7. path' # <<>>
        BY <3>2, <2>1
      <4> QED BY <4>1, <4>5, <4>6, <4>7, <2>1, <3>3, <1>6
    <3> QED BY <3>3, <2>1, <1>5
  <2>5. CASE o \notin readable /\ result' = "error" /\ UNCHANGED <<path, rest>>
    BY <2>1, <2>5, <1>5
  <2> QED BY <1>8, <2>4, <2>5, <2>n, <2>r, <2>o DEF TryOwner
<1>9. CASE Backtrack
  <2>n. PICK n : n = Len(path)
    OBVIOUS
  <2>1. result = "pending" /\ n \in 1 .. MaxDepth /\ path # <<>>
    BY <1>9, <2>n DEF Backtrack, ResolverTypeOK
  <2>2. CASE result' = "notFound" /\ UNCHANGED <<path, rest>>
    BY <2>1, <2>2, <1>5
  <2>3. CASE n > 1 /\ path' = Front(path) /\ rest' = Front(rest) /\ UNCHANGED result
    <3>1. /\ path' \in Seq(Objects) /\ Len(path') = n - 1
          /\ \A m \in 1 .. n - 1 : rest'[m] = rest[m]
      BY <2>3, <2>n, FrontIs
    <3>2. rest[n] \in Seq(Objects)
      BY <2>1, <2>n, ElementOfSeq DEF ResolverTypeOK
    <3>3. u[n] = 0 /\ v[n] = Len(rest[n]) + 1
      BY <2>1, <2>n, <3>1, <1>4
    <3>4. u[n] < v[n]
      BY <3>2, <3>3
    <3>5. ASSUME NEW m \in 1 .. n - 1 PROVE u[m] = v[m]
      <4>1. m \in 1 .. MaxDepth /\ m <= Len(path) /\ m <= Len(path')
        BY <2>1, <2>n, <3>1
      <4> QED BY <1>4, <4>1, <3>1
    <3>6. path' # <<>> /\ result' = "pending"
      BY <3>1, <2>1, <2>3
    <3> QED BY <3>4, <3>5, <3>6, <2>1, <1>6
  <2> QED BY <1>9, <2>2, <2>3, <2>n DEF Backtrack
<1>10. ASSUME NEW o \in Objects \ {Claim}, Disappear(o) \/ Reappear(o)
       PROVE  UNCHANGED <<path, rest, result>>
  BY <1>10 DEF Disappear, Reappear
<1>11. CASE UNCHANGED resolverVars
  BY <1>11 DEF resolverVars
<1> QED BY <1>7, <1>8, <1>9, <1>10, <1>11 DEF ResolverNext, ResolverStep

\* Every call and return of find makes what is left of the search smaller, for
\* every owner graph.
THEOREM CallsMakeProgress == ResolverSpec => SearchProgresses
<1>1. ResolverTypeOK /\ [ResolverNext]_resolverVars =>
          [UNCHANGED <<path, rest, result>> \/ Smaller(Left', Left)]_resolverVars
  BY ProgressStep
<1> QED BY <1>1, ResolverTypeCorrect, PTL DEF ResolverSpec, SearchProgresses
=============================================================================
