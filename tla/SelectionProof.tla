--------------------------- MODULE SelectionProof ---------------------------
(***************************************************************************)
(* What the connectors publish, for any registrations, nodes, services and *)
(* tags (Selection).                                                       *)
(*                                                                         *)
(* What a connector publishes is a function of the registrations, and that *)
(* is the invariant; the properties follow from what its two loops         *)
(* compute, each shown one turn at a time with UpTo of TagListProof: the   *)
(* one over the registrations of a service ends with the closest of them   *)
(* (SelectedClosest), the one over the services claims a port once, and    *)
(* never lets go of a claim.                                               *)
(***************************************************************************)
EXTENDS Connector, TagListProof

-----------------------------------------------------------------------------
(* The loop over the services: what FoldLeft computes, one step at a time. *)

Nothing == [desired |-> {}, certs |-> {}]

ServiceLoop(f, st, n) ==
  /\ f[0] = Nothing
  /\ \A i \in 1..Len(GroupOrder) :
        f[i] = AddService(f[i - 1], st, GroupOrder[i], n)
  /\ DesiredFromState(st, n) = f[Len(GroupOrder)]

LEMMA ClaimsFold ==
  ASSUME NEW st, NEW n
  PROVE  \E f : ServiceLoop(f, st, n)
<1> DEFINE L == Len(GroupOrder)
           Step(acc, i) == AddService(acc, st, GroupOrder[i], n)
           Body(g, s) == IF s = {} THEN Nothing
                         ELSE Step(g[s \ {Max(s)}], Max(s))
           Ends(g, k) == g = [s \in SUBSET (1..k) |-> Body(g, s)]
           iter == CHOOSE g : Ends(g, L)
<1>1. L \in Nat /\ DOMAIN GroupOrder = 1..L
  BY OrderAssumption
<1>2. DesiredFromState(st, n) = iter[1..L]
  BY <1>1 DEF DesiredFromState, FoldLeft, MapThenFoldSet, Nothing
<1> HIDE DEF Step
<1>3. \E g : Ends(g, 0)
  <2> DEFINE g == [s \in SUBSET (1..0) |-> Nothing]
  <2>1. SUBSET (1..0) = {{}}
    OBVIOUS
  <2>2. Ends(g, 0)
    BY <2>1
  <2> QED BY <2>2
<1>4. ASSUME NEW k \in 1..L, NEW g, Ends(g, k - 1)
      PROVE  \E h : Ends(h, k)
  <2> DEFINE h == [s \in SUBSET (1..k) |->
                     IF k \in s THEN Step(g[s \ {k}], k) ELSE g[s]]
  <2>1. ASSUME NEW s \in SUBSET (1..k), k \in s
        PROVE  h[s] = Body(h, s)
    <3>1. Max(s) = k
      BY <2>1, GreatestIs
    <3>2. s \ {k} \in SUBSET (1..k) /\ k \notin s \ {k}
      BY <2>1
    <3>3. h[s \ {k}] = g[s \ {k}]
      BY <3>2
    <3> QED BY <2>1, <3>1, <3>3
  <2>2. ASSUME NEW s \in SUBSET (1..k), k \notin s
        PROVE  h[s] = Body(h, s)
    <3>1. \A r \in SUBSET (1..k) : k \notin r => r \in SUBSET (1..(k - 1))
      OBVIOUS
    <3>2. h[s] = g[s] /\ g[s] = Body(g, s)
      BY <2>2, <3>1, <1>4
    <3>3. s \ {Max(s)} \in SUBSET (1..k) /\ k \notin s \ {Max(s)}
      BY <2>2
    <3>4. h[s \ {Max(s)}] = g[s \ {Max(s)}]
      BY <3>3
    <3> QED BY <3>2, <3>4
  <2>3. Ends(h, k)
    BY <2>1, <2>2
  <2> QED BY <2>3
<1>5. Ends(iter, L)
  <2> DEFINE S == {k \in 0..L : \E g : Ends(g, k)}
  <2> HIDE DEF Ends
  <2>1. 0 \in S
    BY <1>1, <1>3
  <2>2. \A k \in 1..L : k - 1 \in S => k \in S
    BY <1>1, <1>4
  <2>3. \A k \in 0..L : k \in S
    <3> HIDE DEF S, L
    <3> QED BY <1>1, <2>1, <2>2, UpTo
  <2> QED BY <1>1, <2>3
<1>6. iter[{}] = Nothing
  BY <1>1, <1>5
<1>7. ASSUME NEW i \in 1..L
      PROVE  iter[1..i] = Step(iter[1..(i - 1)], i)
  <2>1. Max(1..i) = i
    BY GreatestIs
  <2>2. i \in 1..i /\ 1..i \in SUBSET (1..L)
    <3> HIDE DEF L
    <3> QED BY <1>1
  <2>3. (1..i) \ {i} = 1..(i - 1)
    BY <1>1
  <2> QED BY <1>5, <2>1, <2>2, <2>3
<1> DEFINE f == [i \in 0..L |-> iter[1..i]]
<1>8. f[0] = Nothing
  <2>1. 1..0 = {}
    OBVIOUS
  <2> HIDE DEF iter
  <2> QED BY <1>1, <1>6, <2>1
<1>9. f[L] = iter[1..L]
  <2> HIDE DEF iter
  <2> QED BY <1>1
<1>10. \A i \in 1..L : f[i] = Step(f[i - 1], i)
  <2> HIDE DEF iter
  <2> QED BY <1>1, <1>7
<1> HIDE DEF f
<1>11. ServiceLoop(f, st, n)
  BY <1>2, <1>8, <1>9, <1>10 DEF Step, ServiceLoop
<1> QED BY <1>11

-----------------------------------------------------------------------------
(* One registration per service: the loop chooses the nearest, and the     *)
(* newest of those.                                                        *)

LEMMA NewerFirstOrders ==
  ASSUME NEW st \in States, NEW a \in Reg, NEW b \in Reg, NEW c \in Reg
  PROVE  /\ a # b => NewerFirst(st, a, b) \/ NewerFirst(st, b, a)
         /\ ~(NewerFirst(st, a, b) /\ NewerFirst(st, b, a))
         /\ NewerFirst(st, a, b) /\ NewerFirst(st, b, c) =>
               NewerFirst(st, a, c)
<1>1. \A r \in Reg : r \in Nat /\ st[r].index \in Nat
  BY RegAssumption, MaxIndexAssumption DEF States
<1> QED BY <1>1 DEF NewerFirst

\* Among some registrations there is one newer than the others.
LEMMA NewestOf ==
  ASSUME NEW st \in States, NEW R \in SUBSET Reg, R # {}
  PROVE  /\ Newest(st, R) \in R
         /\ \A q \in R \ {Newest(st, R)} : NewerFirst(st, Newest(st, R), q)
<1>1. \A r \in Reg : r \in Nat /\ st[r].index \in 0..MaxIndex
  BY RegAssumption DEF States
<1> DEFINE Age == {MaxIndex - st[r].index : r \in R}
<1>2. Age \in SUBSET Nat /\ Age # {}
  BY <1>1, MaxIndexAssumption
<1>3. PICK a \in R : \A q \in R : MaxIndex - st[a].index =< MaxIndex - st[q].index
  <2>1. PICK x \in Age : \A y \in Age : x =< y
    <3> HIDE DEF Age
    <3> QED BY <1>2, LeastNat
  <2> QED BY <2>1
<1>4. \A q \in R : st[q].index =< st[a].index
  BY <1>1, <1>3, MaxIndexAssumption
<1> DEFINE Peers == {r \in R : st[r].index = st[a].index}
<1>5. Peers \in SUBSET Nat /\ Peers # {}
  BY <1>1
<1>6. PICK r \in Peers : \A q \in Peers : r =< q
  <2> HIDE DEF Peers
  <2> QED BY <1>5, LeastNat
<1>7. r \in R /\ \A q \in R \ {r} : NewerFirst(st, r, q)
  BY <1>1, <1>4, <1>6 DEF NewerFirst
<1> QED BY <1>7 DEF Newest

Sorted(st, g) ==
  \A i, j \in DOMAIN g : i < j => NewerFirst(st, g[i], g[j])

\* Any number of registrations can be listed the newest first.
LEMMA SortedList ==
  ASSUME NEW st \in States, NEW k \in Nat, NEW R \in SUBSET Reg,
         Cardinality(R) = k
  PROVE  \E g \in [1..k -> R] : Sorted(st, g)
<1> DEFINE Listed(m) == \A S \in SUBSET Reg :
               Cardinality(S) = m => \E g \in [1..m -> S] : Sorted(st, g)
<1>1. \A S \in SUBSET Reg : IsFiniteSet(S)
  BY RegAssumption, FS_Subset
<1>2. Listed(0)
  <2>1. \A S : [i \in 1..0 |-> i] \in [1..0 -> S]
    OBVIOUS
  <2>2. Sorted(st, [i \in 1..0 |-> i])
    BY DEF Sorted
  <2> QED BY <2>1, <2>2
<1>3. ASSUME NEW m \in 1..k, Listed(m - 1) PROVE Listed(m)
  <2> SUFFICES ASSUME NEW S \in SUBSET Reg, Cardinality(S) = m
               PROVE  \E g \in [1..m -> S] : Sorted(st, g)
    OBVIOUS
  <2>1. S # {}
    BY FS_EmptySet
  <2> DEFINE a == Newest(st, S)
             T == S \ {a}
  <2>2. a \in S /\ \A q \in T : NewerFirst(st, a, q)
    BY <2>1, NewestOf
  <2>3. Cardinality(T) = m - 1
    BY <1>1, <2>2, FS_RemoveElement
  <2>4. PICK g \in [1..(m - 1) -> T] : Sorted(st, g)
    BY <1>3, <2>3
  <2> DEFINE h == [i \in 1..m |-> IF i = 1 THEN a ELSE g[i - 1]]
  <2> HIDE DEF a
  <2>5. \A i \in 1..m : i # 1 => i - 1 \in 1..(m - 1)
    OBVIOUS
  <2>6. h \in [1..m -> S]
    BY <2>2, <2>4, <2>5
  <2>7. ASSUME NEW i \in 1..m, NEW j \in 1..m, i < j
        PROVE  NewerFirst(st, h[i], h[j])
    <3>1. h[j] = g[j - 1] /\ g[j - 1] \in T
      BY <2>4, <2>5, <2>7
    <3>2. CASE i = 1
      BY <2>2, <3>1, <3>2
    <3>3. CASE i # 1
      <4>1. h[i] = g[i - 1] /\ i - 1 < j - 1
        BY <2>7, <3>3
      <4> QED BY <2>4, <2>5, <2>7, <3>1, <3>3, <4>1 DEF Sorted
    <3> QED BY <3>2, <3>3
  <2>8. Sorted(st, h)
    BY <2>7 DEF Sorted
  <2> QED BY <2>6, <2>8
<1> DEFINE N == {m \in 0..k : Listed(m)}
<1> HIDE DEF Listed
<1>4. 0 \in N /\ \A m \in 1..k : m - 1 \in N => m \in N
  BY <1>2, <1>3
<1>5. \A m \in 0..k : m \in N
  <2> HIDE DEF N
  <2> QED BY <1>4, UpTo
<1>6. Listed(k)
  BY <1>5
<1> QED BY <1>6 DEF Listed

\* Group lists the registrations of the service, each of them once.
LEMMA GroupLists ==
  ASSUME NEW st \in States, NEW s
  PROVE  /\ Group(st, s) \in Seq(Reg)
         /\ {Group(st, s)[i] : i \in 1..Len(Group(st, s))} = Members(st, s)
<1> DEFINE R == Members(st, s)
           k == Cardinality(R)
           g == Group(st, s)
<1>1. R \in SUBSET Reg /\ IsFiniteSet(R)
  BY RegAssumption, FS_Subset DEF Members
<1>2. k \in Nat
  BY <1>1, FS_CardinalityType
<1>3. \E h \in [1..k -> R] : Sorted(st, h)
  BY <1>1, <1>2, SortedList
<1>4. g \in [1..k -> R] /\ Sorted(st, g)
  BY <1>3 DEF Group, Sorted
<1> HIDE DEF R, g
<1>5. \A i, j \in 1..k : g[i] = g[j] => i = j
  <2>1. \A i \in 1..k : g[i] \in Reg
    BY <1>1, <1>4
  <2>2. \A r \in Reg : ~NewerFirst(st, r, r)
    BY NewerFirstOrders
  <2> QED BY <1>2, <1>4, <2>1, <2>2 DEF Sorted
<1>6. g \in Injection(1..k, R)
  BY <1>4, <1>5 DEF Injection, IsInjective
<1>7. Cardinality(1..k) = Cardinality(R)
  BY <1>2, FS_Interval
<1>8. g \in Surjection(1..k, R)
  BY <1>1, <1>6, <1>7, FS_Injection
<1>9. R = {g[i] : i \in 1..k}
  BY <1>4, <1>8 DEF Surjection
<1>10. g \in Seq(Reg) /\ Len(g) = k
  BY <1>1, <1>2, <1>4
<1> QED BY <1>9, <1>10 DEF R, g

\* One turn of the loop over a group.
Choose(st, best, r, scope, n) ==
  IF InScope(r, scope, n) /\ Better(st, r, best, n) THEN {r} ELSE best

\* The loop over the registrations of a service, one at a time.
SelectionLoop(f, st, s, scope, n) ==
  /\ f[0] = {}
  /\ \A i \in 1..Len(Group(st, s)) :
        f[i] = Choose(st, f[i - 1], Group(st, s)[i], scope, n)
  /\ Selected(st, s, scope, n) = f[Len(Group(st, s))]

LEMMA SelectedFold ==
  ASSUME NEW st \in States, NEW s, NEW scope, NEW n
  PROVE  \E f : SelectionLoop(f, st, s, scope, n)
<1> DEFINE L == Len(Group(st, s))
           Step(acc, i) == Choose(st, acc, Group(st, s)[i], scope, n)
           Body(g, u) == IF u = {} THEN {}
                         ELSE Step(g[u \ {Max(u)}], Max(u))
           Ends(g, k) == g = [u \in SUBSET (1..k) |-> Body(g, u)]
           iter == CHOOSE g : Ends(g, L)
<1>1. L \in Nat /\ DOMAIN Group(st, s) = 1..L
  BY GroupLists
<1>2. Selected(st, s, scope, n) = iter[1..L]
  BY <1>1 DEF Selected, Choose, FoldLeft, MapThenFoldSet
<1> HIDE DEF Step
<1>3. \E g : Ends(g, 0)
  <2> DEFINE g == [u \in SUBSET (1..0) |-> {}]
  <2>1. SUBSET (1..0) = {{}}
    OBVIOUS
  <2>2. Ends(g, 0)
    BY <2>1
  <2> QED BY <2>2
<1>4. ASSUME NEW k \in 1..L, NEW g, Ends(g, k - 1)
      PROVE  \E h : Ends(h, k)
  <2> DEFINE h == [u \in SUBSET (1..k) |->
                     IF k \in u THEN Step(g[u \ {k}], k) ELSE g[u]]
  <2>1. ASSUME NEW u \in SUBSET (1..k), k \in u
        PROVE  h[u] = Body(h, u)
    <3>1. Max(u) = k
      BY <2>1, GreatestIs
    <3>2. u \ {k} \in SUBSET (1..k) /\ k \notin u \ {k}
      BY <2>1
    <3>3. h[u \ {k}] = g[u \ {k}]
      BY <3>2
    <3> QED BY <2>1, <3>1, <3>3
  <2>2. ASSUME NEW u \in SUBSET (1..k), k \notin u
        PROVE  h[u] = Body(h, u)
    <3>1. \A r \in SUBSET (1..k) : k \notin r => r \in SUBSET (1..(k - 1))
      OBVIOUS
    <3>2. h[u] = g[u] /\ g[u] = Body(g, u)
      BY <2>2, <3>1, <1>4
    <3>3. u \ {Max(u)} \in SUBSET (1..k) /\ k \notin u \ {Max(u)}
      BY <2>2
    <3>4. h[u \ {Max(u)}] = g[u \ {Max(u)}]
      BY <3>3
    <3> QED BY <3>2, <3>4
  <2>3. Ends(h, k)
    BY <2>1, <2>2
  <2> QED BY <2>3
<1>5. Ends(iter, L)
  <2> DEFINE S == {k \in 0..L : \E g : Ends(g, k)}
  <2> HIDE DEF Ends
  <2>1. 0 \in S
    BY <1>1, <1>3
  <2>2. \A k \in 1..L : k - 1 \in S => k \in S
    BY <1>1, <1>4
  <2>3. \A k \in 0..L : k \in S
    <3> HIDE DEF S, L
    <3> QED BY <1>1, <2>1, <2>2, UpTo
  <2> QED BY <1>1, <2>3
<1>6. iter[{}] = {}
  BY <1>1, <1>5
<1>7. ASSUME NEW i \in 1..L
      PROVE  iter[1..i] = Step(iter[1..(i - 1)], i)
  <2>1. Max(1..i) = i
    BY GreatestIs
  <2>2. i \in 1..i /\ 1..i \in SUBSET (1..L)
    <3> HIDE DEF L
    <3> QED BY <1>1
  <2>3. (1..i) \ {i} = 1..(i - 1)
    BY <1>1
  <2> QED BY <1>5, <2>1, <2>2, <2>3
<1> DEFINE f == [i \in 0..L |-> iter[1..i]]
<1>8. f[0] = {}
  <2>1. 1..0 = {}
    OBVIOUS
  <2> HIDE DEF iter
  <2> QED BY <1>1, <1>6, <2>1
<1>9. f[L] = iter[1..L]
  <2> HIDE DEF iter
  <2> QED BY <1>1
<1>10. \A i \in 1..L : f[i] = Step(f[i - 1], i)
  <2> HIDE DEF iter
  <2> QED BY <1>1, <1>7
<1> HIDE DEF f
<1>11. SelectionLoop(f, st, s, scope, n)
  BY <1>2, <1>8, <1>9, <1>10 DEF Step, SelectionLoop
<1> QED BY <1>11

Closer(st, a, b, n) ==
  \/ Rank(a, n) < Rank(b, n)
  \/ Rank(a, n) = Rank(b, n) /\ NewerFirst(st, a, b)

LEMMA CloserOrders ==
  ASSUME NEW st \in States, NEW n,
         NEW a \in Reg, NEW b \in Reg, NEW c \in Reg
  PROVE  /\ a # b => Closer(st, a, b, n) \/ Closer(st, b, a, n)
         /\ ~(Closer(st, a, b, n) /\ Closer(st, b, a, n))
         /\ Closer(st, a, b, n) /\ Closer(st, b, c, n) => Closer(st, a, c, n)
<1>1. \A r : Rank(r, n) \in Nat
  BY DEF Rank
<1> QED BY <1>1, NewerFirstOrders DEF Closer

\* The one of some candidates that is closer than the others, if any.
IsClosest(st, best, E, n) ==
  \/ E = {} /\ best = {}
  \/ \E c \in E : best = {c} /\ \A r \in E \ {c} : Closer(st, c, r, n)

Eligible(st, s, scope, n) == {r \in Members(st, s) : InScope(r, scope, n)}

LEMMA ChooseClosest ==
  ASSUME NEW st \in States, NEW scope, NEW n, NEW E \in SUBSET Reg,
         NEW best, IsClosest(st, best, E, n), NEW r \in Reg
  PROVE  IsClosest(st, Choose(st, best, r, scope, n),
                   IF InScope(r, scope, n) THEN E \cup {r} ELSE E, n)
<1>1. CASE ~InScope(r, scope, n)
  BY <1>1 DEF Choose
<1>2. CASE InScope(r, scope, n) /\ E = {}
  BY <1>2 DEF Choose, Better, IsClosest
<1>3. CASE InScope(r, scope, n) /\ E # {}
  <2>1. PICK c \in E : best = {c} /\ \A q \in E \ {c} : Closer(st, c, q, n)
    BY <1>3 DEF IsClosest
  <2>2. Better(st, r, best, n) <=> Closer(st, r, c, n)
    <3>1. Rank(r, n) \in Nat /\ Rank(c, n) \in Nat
      BY DEF Rank
    <3> QED BY <2>1, <3>1 DEF Better, Closer
  <2>3. CASE Closer(st, r, c, n)
    <3>1. \A q \in E : Closer(st, r, q, n)
      BY <2>1, <2>3, CloserOrders
    <3>2. Choose(st, best, r, scope, n) = {r}
      BY <1>3, <2>2, <2>3 DEF Choose
    <3> QED BY <1>3, <3>1, <3>2 DEF IsClosest
  <2>4. CASE ~Closer(st, r, c, n)
    <3>1. r # c => Closer(st, c, r, n)
      BY <2>4, CloserOrders
    <3>2. Choose(st, best, r, scope, n) = {c}
      BY <1>3, <2>1, <2>2, <2>4 DEF Choose
    <3> QED BY <1>3, <2>1, <3>1, <3>2 DEF IsClosest
  <2> QED BY <2>3, <2>4
<1> QED BY <1>1, <1>2, <1>3

\* The loop ends with the closest registration in scope.
LEMMA SelectedClosest ==
  ASSUME NEW st \in States, NEW s, NEW scope, NEW n
  PROVE  IsClosest(st, Selected(st, s, scope, n),
                   Eligible(st, s, scope, n), n)
<1>3. PICK f : SelectionLoop(f, st, s, scope, n)
  BY SelectedFold
<1> DEFINE g == Group(st, s)
           L == Len(g)
           E(i) == {r \in Reg : /\ InScope(r, scope, n)
                                /\ \E j \in 1..i : g[j] = r}
<1>1. g \in Seq(Reg) /\ {g[i] : i \in 1..L} = Members(st, s)
  BY GroupLists
<1>2. L \in Nat /\ \A i \in 1..L : g[i] \in Reg
  BY <1>1
<1>10. /\ \A i \in 1..L : f[i] = Choose(st, f[i - 1], g[i], scope, n)
       /\ Selected(st, s, scope, n) = f[L]
       /\ f[0] = {}
  BY <1>3 DEF SelectionLoop
<1> HIDE DEF g, L
<1>4. IsClosest(st, f[0], E(0), n)
  BY <1>10 DEF IsClosest
<1>5. ASSUME NEW i \in 1..L, IsClosest(st, f[i - 1], E(i - 1), n)
      PROVE  IsClosest(st, f[i], E(i), n)
  <2>1. g[i] \in Reg /\ E(i - 1) \in SUBSET Reg
    BY <1>2
  <2>2. 1..i = 1..(i - 1) \cup {i}
    BY <1>2
  <2>3. E(i) = IF InScope(g[i], scope, n) THEN E(i - 1) \cup {g[i]}
               ELSE E(i - 1)
    BY <2>1, <2>2
  <2>4. f[i] = Choose(st, f[i - 1], g[i], scope, n)
    BY <1>10
  <2> HIDE DEF E
  <2> QED BY <1>5, <2>1, <2>3, <2>4, ChooseClosest
<1> DEFINE S == {i \in 0..L : IsClosest(st, f[i], E(i), n)}
<1>6. 0 \in S /\ \A i \in 1..L : i - 1 \in S => i \in S
  <2> HIDE DEF E
  <2> QED BY <1>2, <1>4, <1>5
<1>7. \A i \in 0..L : i \in S
  <2> HIDE DEF S
  <2> QED BY <1>2, <1>6, UpTo
<1>8. IsClosest(st, f[L], E(L), n)
  <2> HIDE DEF E
  <2> QED BY <1>2, <1>7
<1>9. E(L) = Eligible(st, s, scope, n)
  BY <1>1, <1>2 DEF Eligible, Members
<1> QED BY <1>10, <1>8, <1>9

-----------------------------------------------------------------------------
(* The invariant, and what follows of the selection.                       *)

TypeOK == state \in States

\* The registrations decide what each connector publishes.
IInv ==
  /\ TypeOK
  /\ plan = [n \in Node |-> DesiredFromState(state, n)]

\* With no registrations there is nothing to publish.
LEMMA NothingRegistered ==
  ASSUME NEW n
  PROVE  DesiredFromState([r \in Reg |-> Absent], n) = Nothing
<1> DEFINE st == [r \in Reg |-> Absent]
           L == Len(GroupOrder)
<1>1. \A acc, s : AddService(acc, st, s, n) = acc
  BY DEF AddService, Serves, Asks, Members
<1> HIDE DEF st
<1>2. PICK f : ServiceLoop(f, st, n)
  BY ClaimsFold
<1>6. /\ f[0] = Nothing
      /\ \A i \in 1..L : f[i] = AddService(f[i - 1], st, GroupOrder[i], n)
      /\ DesiredFromState(st, n) = f[L]
  BY <1>2 DEF ServiceLoop
<1>3. L \in Nat
  BY OrderAssumption
<1> HIDE DEF L
<1> DEFINE S == {i \in 0..L : f[i] = Nothing}
<1>4. 0 \in S /\ \A i \in 1..L : i - 1 \in S => i \in S
  BY <1>1, <1>6, <1>3
<1>5. \A i \in 0..L : i \in S
  <2> HIDE DEF S
  <2> QED BY <1>3, <1>4, UpTo
<1> QED BY <1>6, <1>3, <1>5 DEF st

(***************************************************************************)
(* What a connector publishes is what desiredFromState makes of the        *)
(* registrations, after any changes to them.                               *)
(***************************************************************************)
THEOREM Inductive == Spec => []IInv
<1>1. Init => IInv
  <2> SUFFICES ASSUME Init PROVE IInv
    OBVIOUS
  <2>1. TypeOK
    BY MaxIndexAssumption DEF Init, TypeOK, States, Absent
  <2>2. \A n \in Node : DesiredFromState(state, n) = Nothing
    BY NothingRegistered DEF Init
  <2> QED BY <2>1, <2>2 DEF Init, IInv, Nothing
<1>2. IInv /\ [Next]_vars => IInv'
  <2> SUFFICES ASSUME IInv, [Next]_vars PROVE IInv'
    OBVIOUS
  <2>1. ASSUME NEW st \in States, Becomes(st) PROVE IInv'
    BY <2>1 DEF Becomes, IInv, TypeOK
  <2>2. ASSUME NEW r \in Reg, NEW t \in TagLists, Register(r, t) PROVE IInv'
    <3>1. PICK i \in 1..MaxIndex :
            Becomes([state EXCEPT ![r] = [index |-> i, tags |-> t]])
      BY <2>2 DEF Register
    <3>2. [state EXCEPT ![r] = [index |-> i, tags |-> t]] \in States
      BY MaxIndexAssumption DEF IInv, TypeOK, States
    <3> QED BY <2>1, <3>1, <3>2
  <2>3. ASSUME NEW r \in Reg, NEW t \in TagLists, Update(r, t) PROVE IInv'
    <3>1. [state EXCEPT ![r].tags = t] \in States
      BY DEF IInv, TypeOK, States
    <3> QED BY <2>1, <2>3, <3>1 DEF Update
  <2>4. ASSUME NEW r \in Reg, Deregister(r) PROVE IInv'
    <3>1. [state EXCEPT ![r] = Absent] \in States
      BY MaxIndexAssumption DEF IInv, TypeOK, States, Absent
    <3> QED BY <2>1, <2>4, <3>1 DEF Deregister
  <2>5. CASE UNCHANGED vars
    BY <2>5 DEF IInv, TypeOK, vars
  <2> QED BY <2>2, <2>3, <2>4, <2>5 DEF Next
<1> QED BY <1>1, <1>2, PTL DEF Spec

(***************************************************************************)
(* The loop over a service's registrations (main.go:648) finds a backend   *)
(* whenever one is in scope, and never passes over a nearer one, or one as *)
(* near and newer (README.md:275).                                         *)
(***************************************************************************)
THEOREM NearestChosen == Spec => []NearestBackend
<1>1. IInv => NearestBackend
  <2> SUFFICES ASSUME IInv, NEW s \in Services, NEW n \in Node, NEW scope
               PROVE  LET eligible == {r \in Members(state, s) :
                                          InScope(r, scope, n)}
                          chosen == Selected(state, s, scope, n)
                      IN  /\ eligible # {} => chosen # {}
                          /\ chosen \subseteq eligible
                          /\ \A c \in chosen, r \in eligible :
                                /\ Rank(c, n) =< Rank(r, n)
                                /\ Rank(c, n) = Rank(r, n) =>
                                      state[r].index =< state[c].index
    BY DEF NearestBackend
  <2> DEFINE E == Eligible(state, s, scope, n)
             chosen == Selected(state, s, scope, n)
  <2>1. IsClosest(state, chosen, E, n)
    BY SelectedClosest DEF IInv, TypeOK
  <2>2. \A r \in E : state[r].index \in Nat /\ Rank(r, n) \in Nat
    BY MaxIndexAssumption DEF IInv, TypeOK, States, Eligible, Members, Rank
  <2>3. /\ E # {} => chosen # {}
        /\ chosen \subseteq E
    BY <2>1 DEF IsClosest
  <2>4. ASSUME NEW c \in chosen, NEW r \in E
        PROVE  /\ Rank(c, n) =< Rank(r, n)
               /\ Rank(c, n) = Rank(r, n) =>
                     state[r].index =< state[c].index
    <3>1. c \in E /\ (r = c \/ Closer(state, c, r, n))
      BY <2>1 DEF IsClosest
    <3> QED BY <2>2, <3>1 DEF Closer, NewerFirst
  <2> QED BY <2>3, <2>4 DEF Eligible
<1> QED BY <1>1, Inductive, PTL

-----------------------------------------------------------------------------
(* The services one after the other.                                       *)

BackendOf(st, s, n) == CHOOSE r \in Usable(st, s, n) : TRUE

LEMMA AddServiceIs ==
  ASSUME NEW acc, NEW st, NEW s, NEW n
  PROVE  AddService(acc, st, s, n) =
           IF Serves(st, s, n)
           THEN Claim(acc, s, SpecOf(st, s), BackendOf(st, s, n), n)
           ELSE acc
  BY DEF AddService, BackendOf

LEMMA OrderFacts ==
  /\ Len(GroupOrder) \in Nat
  /\ \A i \in 1..Len(GroupOrder) : GroupOrder[i] \in Services
  /\ \A s \in Services : \E i \in 1..Len(GroupOrder) : GroupOrder[i] = s
  BY OrderAssumption DEF Services

\* Whoever asks has tags of its newest registration.
LEMMA AsksFacts ==
  ASSUME NEW st \in States, NEW s \in Services, Asks(st, s)
  PROVE  /\ TagsOf(st, s) \in TagLists
         /\ SpecOf(st, s) = ParseTags(s, TagsOf(st, s))
<1>1. Members(st, s) \in SUBSET Reg /\ Members(st, s) # {}
  BY DEF Asks, Members
<1>2. Newest(st, Members(st, s)) \in Reg
  BY <1>1, NewestOf
<1>3. TagsOf(st, s) \in TagLists \cup {<<>>}
  BY <1>2 DEF TagsOf, States
<1>4. TagsOf(st, s) # <<>>
  BY DEF Asks, OptedIn
<1> QED BY <1>3, <1>4 DEF SpecOf, Specs

\* The endpoints of a service are keyed by port.
LEMMA OneEndpointPerPort ==
  ASSUME NEW st \in States, NEW s \in Services, Asks(st, s),
         NEW d \in SpecOf(st, s).endpoints, NEW e \in SpecOf(st, s).endpoints,
         d.port = e.port
  PROVE  d = e
<1>1. PICK acc : SpecOf(st, s).endpoints = Endpoints(acc)
  <2> DEFINE read(a, t) == Read(s, a, t)
             acc == FoldLeft(read, Unread(s), TagsOf(st, s))
  <2>1. ParseTags(s, TagsOf(st, s)).endpoints = Endpoints(acc)
    BY DEF ParseTags
  <2> HIDE DEF acc
  <2> QED BY <2>1, AsksFacts
<1> DEFINE ports == IF acc.ports = <<>> THEN 443 :> "https" ELSE acc.ports
           At(p) == [proto |-> ports[p], port |-> p, proxy |-> acc.proxy,
                     path |-> IF ports[p] \in {"http", "https"}
                              THEN acc.path ELSE ""]
<1>2. Endpoints(acc) = {At(p) : p \in DOMAIN ports}
  BY DEF Endpoints
<1>3. \A p : At(p).port = p
  OBVIOUS
<1> HIDE DEF At, ports
<1>4. PICK p, q : d = At(p) /\ e = At(q)
  BY <1>1, <1>2
<1> QED BY <1>3, <1>4

Keyed(d, service, port) == d.service = service /\ d.port = port

\* What a claim adds at a (Service, port) pair.
LEMMA ClaimAt ==
  ASSUME NEW acc, NEW s, NEW spec, NEW r, NEW n
  PROVE  LET D == Claim(acc, s, spec, r, n).desired
         IN  /\ acc.desired \subseteq D
             /\ \A d \in D \ acc.desired :
                   /\ Free(acc.desired, d.service, d.port)
                   /\ d.service = spec.service
                   /\ d.endpoint \in spec.endpoints
                   /\ d.port = d.endpoint.port /\ d.backend = r
                   /\ d = [service |-> d.service, port |-> d.port,
                           endpoint |-> d.endpoint, backend |-> d.backend]
             /\ \A e \in spec.endpoints :
                   Free(acc.desired, spec.service, e.port) =>
                      [service |-> spec.service, port |-> e.port,
                       endpoint |-> e, backend |-> r] \in D
  BY DEF Claim

Unique(D) ==
  \A d, e \in D : d.service = e.service /\ d.port = e.port => d = e

\* Each turn keeps one claim per (Service, port) pair.
LEMMA DesiredUnique ==
  ASSUME NEW st \in States, NEW n
  PROVE  Unique(DesiredFromState(st, n).desired)
<1> DEFINE L == Len(GroupOrder)
<1>1. PICK f : ServiceLoop(f, st, n)
  BY ClaimsFold
<1> DEFINE S == {i \in 0..L : Unique(f[i].desired)}
<1>2. 0 \in S
  BY <1>1, OrderFacts DEF ServiceLoop, Nothing, Unique
<1>3. ASSUME NEW i \in 1..L, i - 1 \in S PROVE i \in S
  <2> DEFINE s == GroupOrder[i]
             acc == f[i - 1]
             spec == SpecOf(st, s)
             r == BackendOf(st, s, n)
  <2>1. s \in Services
    BY OrderFacts
  <2>2. f[i] = IF Serves(st, s, n) THEN Claim(acc, s, spec, r, n) ELSE acc
    BY <1>1, AddServiceIs DEF ServiceLoop
  <2>3. CASE ~Serves(st, s, n)
    BY <1>3, <2>2, <2>3, OrderFacts
  <2>4. CASE Serves(st, s, n)
    <3> DEFINE D == Claim(acc, s, spec, r, n).desired
    <3>1. \A d, e \in spec.endpoints : d.port = e.port => d = e
      BY <2>1, <2>4, OneEndpointPerPort DEF Serves
    <3>2. /\ acc.desired \subseteq D
          /\ \A d \in D \ acc.desired :
                /\ Free(acc.desired, d.service, d.port)
                /\ d.service = spec.service
                /\ d.endpoint \in spec.endpoints
                /\ d.port = d.endpoint.port /\ d.backend = r
                /\ d = [service |-> d.service, port |-> d.port,
                        endpoint |-> d.endpoint, backend |-> d.backend]
      BY ClaimAt
    <3>3. Unique(acc.desired)
      BY <1>3
    <3> HIDE DEF D, spec, r, acc, s
    <3>4. ASSUME NEW d \in D, NEW e \in D,
                 d.service = e.service, d.port = e.port
          PROVE  d = e
      <4>1. CASE d \in acc.desired /\ e \in acc.desired
        BY <3>3, <3>4, <4>1 DEF Unique
      <4>2. CASE d \in acc.desired /\ e \notin acc.desired
        BY <3>2, <3>4, <4>2 DEF Free
      <4>3. CASE d \notin acc.desired /\ e \in acc.desired
        BY <3>2, <3>4, <4>3 DEF Free
      <4>4. CASE d \notin acc.desired /\ e \notin acc.desired
        <5>1. d.endpoint = e.endpoint /\ d.backend = e.backend
          BY <3>1, <3>2, <3>4, <4>4
        <5> QED BY <3>2, <3>4, <4>4, <5>1
      <4> QED BY <4>1, <4>2, <4>3, <4>4
    <3>5. f[i].desired = D
      BY <2>2, <2>4 DEF D
    <3>6. Unique(f[i].desired)
      BY <3>4, <3>5 DEF Unique
    <3> QED BY <3>6, OrderFacts
  <2> QED BY <2>3, <2>4
<1>4. \A i \in 0..L : i \in S
  <2> HIDE DEF S
  <2> QED BY <1>2, <1>3, OrderFacts, UpTo
<1> QED BY <1>1, <1>4, OrderFacts DEF ServiceLoop

(***************************************************************************)
(* A connector wants one endpoint at most at a (Service, port) pair,       *)
(* whatever names and ports the jobs ask for: what the reconciler assumes  *)
(* of its input.                                                           *)
(***************************************************************************)
THEOREM PortClaimedOnce == Spec => []OneClaimPerPort
<1>1. IInv => OneClaimPerPort
  BY DesiredUnique DEF IInv, TypeOK, OneClaimPerPort, Unique
<1> QED BY <1>1, Inductive, PTL

-----------------------------------------------------------------------------
(* Ports served.                                                           *)

\* Somebody claimed the pair.
Held(D, service, port) == \E d \in D : Keyed(d, service, port)

\* From the turn of a service on, its ports are claimed.
LEMMA DesiredServes ==
  ASSUME NEW st \in States, NEW n, NEW s \in Services, Serves(st, s, n),
         NEW e \in SpecOf(st, s).endpoints
  PROVE  Held(DesiredFromState(st, n).desired, SpecOf(st, s).service, e.port)
<1> DEFINE L == Len(GroupOrder)
           H(i, f) == Held(f[i].desired, SpecOf(st, s).service, e.port)
<1>1. PICK f : ServiceLoop(f, st, n)
  BY ClaimsFold
<1>2. PICK k \in 1..L : GroupOrder[k] = s
  BY OrderFacts
<1> DEFINE S == {i \in 0..L : i >= k => H(i, f)}
<1>3. 0 \in S
  BY OrderFacts
<1>4. ASSUME NEW i \in 1..L, i - 1 \in S PROVE i \in S
  <2> DEFINE t == GroupOrder[i]
             acc == f[i - 1]
             spec == SpecOf(st, t)
             r == BackendOf(st, t, n)
             D == Claim(acc, t, spec, r, n).desired
  <2>1. f[i] = IF Serves(st, t, n) THEN Claim(acc, t, spec, r, n) ELSE acc
    BY <1>1, AddServiceIs DEF ServiceLoop
  <2>2. /\ acc.desired \subseteq D
        /\ \A x \in spec.endpoints :
              Free(acc.desired, spec.service, x.port) =>
                 [service |-> spec.service, port |-> x.port,
                  endpoint |-> x, backend |-> r] \in D
    BY ClaimAt
  <2>3. acc.desired \subseteq f[i].desired
    BY <2>1, <2>2
  <2>4. CASE i < k
    BY <2>4, OrderFacts
  <2>5. CASE i = k
    <3>1. t = s /\ f[i].desired = D
      BY <1>2, <2>1, <2>5
    <3>2. CASE Free(acc.desired, spec.service, e.port)
      <4>1. [service |-> spec.service, port |-> e.port,
             endpoint |-> e, backend |-> r] \in f[i].desired
        BY <2>2, <3>1, <3>2
      <4>2. H(i, f)
        BY <3>1, <4>1 DEF Held, Keyed
      <4> QED BY <4>2, OrderFacts
    <3>3. CASE ~Free(acc.desired, spec.service, e.port)
      <4>1. H(i, f)
        BY <2>3, <3>1, <3>3 DEF Held, Keyed, Free
      <4> QED BY <4>1, OrderFacts
    <3> QED BY <3>2, <3>3
  <2>6. CASE i > k
    <3>1. i - 1 >= k
      BY <2>6, OrderFacts
    <3>2. H(i - 1, f)
      BY <1>4, <3>1
    <3>3. H(i, f)
      BY <2>3, <3>2 DEF Held
    <3> QED BY <3>3, OrderFacts
  <2> QED BY <2>4, <2>5, <2>6, OrderFacts
<1>5. \A i \in 0..L : i \in S
  <2> HIDE DEF S
  <2> QED BY <1>3, <1>4, OrderFacts, UpTo
<1>6. H(L, f)
  BY <1>5, OrderFacts
<1> QED BY <1>1, <1>6 DEF ServiceLoop

(***************************************************************************)
(* Each port of a service that has a usable backend is served, by it or by *)
(* a service before it.                                                    *)
(***************************************************************************)
THEOREM EveryPortServed == Spec => []PortsServed
<1>1. IInv => PortsServed
  <2> SUFFICES ASSUME IInv, NEW s \in Services, NEW n \in Node,
                      Serves(state, s, n),
                      NEW e \in SpecOf(state, s).endpoints
               PROVE  \E d \in plan[n].desired :
                        d.service = SpecOf(state, s).service /\ d.port = e.port
    BY DEF PortsServed
  <2>1. Held(DesiredFromState(state, n).desired,
             SpecOf(state, s).service, e.port)
    BY DesiredServes DEF IInv, TypeOK
  <2> QED BY <2>1 DEF IInv, Held, Keyed
<1> QED BY <1>1, Inductive, PTL

-----------------------------------------------------------------------------
(* Certificates.                                                           *)

\* Only the registrations of a node are its nearest.
LEMMA RankFacts ==
  ASSUME NEW r, NEW n
  PROVE  Rank(r, n) \in 0..2 /\ (Rank(r, n) = 0 <=> NodeOf[r] = n)
<1>1. CASE NodeOf[r] = n
  BY <1>1 DEF Rank, Local
<1>2. CASE NodeOf[r] # n
  BY <1>2 DEF Rank, Local
<1> QED BY <1>1, <1>2

\* Whatever is as near as a registration of the node is on the node.
LEMMA CloserIsLocal ==
  ASSUME NEW st, NEW a, NEW b, NEW n, Closer(st, a, b, n), NodeOf[b] = n
  PROVE  NodeOf[a] = n
<1> DEFINE x == Rank(a, n)
           y == Rank(b, n)
<1>1. x \in 0..2 /\ y \in 0..2 /\ (x = 0 <=> NodeOf[a] = n)
      /\ (y = 0 <=> NodeOf[b] = n)
  BY RankFacts
<1>2. x < y \/ x = y
  BY DEF Closer
<1> HIDE DEF x, y
<1> QED BY <1>1, <1>2

Certifies(st, s, n) ==
  /\ Serves(st, s, n)
  /\ WantsCert(SpecOf(st, s), BackendOf(st, s, n), n)

\* A turn decides on the certificate of its own service alone.
LEMMA DesiredCerts ==
  ASSUME NEW st \in States, NEW n, NEW s \in Services
  PROVE  s \in DesiredFromState(st, n).certs <=> Certifies(st, s, n)
<1> DEFINE L == Len(GroupOrder)
<1>1. PICK f : ServiceLoop(f, st, n)
  BY ClaimsFold
<1> DEFINE Met(i) == \E j \in 1..i : GroupOrder[j] = s
           S == {i \in 0..L :
                   s \in f[i].certs <=> Met(i) /\ Certifies(st, s, n)}
<1>2. 0 \in S
  BY <1>1, OrderFacts DEF ServiceLoop, Nothing
<1>3. ASSUME NEW i \in 1..L, i - 1 \in S PROVE i \in S
  <2> DEFINE t == GroupOrder[i]
             acc == f[i - 1]
             spec == SpecOf(st, t)
             r == BackendOf(st, t, n)
  <2>1. f[i] = IF Serves(st, t, n) THEN Claim(acc, t, spec, r, n) ELSE acc
    BY <1>1, AddServiceIs DEF ServiceLoop
  <2>2. Claim(acc, t, spec, r, n).certs =
          acc.certs \cup IF WantsCert(spec, r, n) THEN {t} ELSE {}
    BY DEF Claim
  <2>3. s \in f[i].certs <=>
          s \in acc.certs \/ (t = s /\ Certifies(st, s, n))
    BY <2>1, <2>2 DEF Certifies
  <2>4. Met(i) <=> Met(i - 1) \/ t = s
    BY OrderFacts
  <2>5. s \in acc.certs <=> Met(i - 1) /\ Certifies(st, s, n)
    BY <1>3
  <2>6. i \in 0..L
    BY OrderFacts
  <2> HIDE DEF Met
  <2> QED BY <2>3, <2>4, <2>5, <2>6
<1>4. \A i \in 0..L : i \in S
  <2> HIDE DEF S
  <2> QED BY <1>2, <1>3, OrderFacts, UpTo
<1>5. Met(L)
  BY OrderFacts
<1> HIDE DEF Met
<1> QED BY <1>1, <1>4, <1>5, OrderFacts DEF ServiceLoop

(***************************************************************************)
(* A certificate is published only by the connector hosting the service    *)
(* (main.go:612), and by each of them where every address is usable.       *)
(***************************************************************************)
THEOREM CertificateFromHost == Spec => []CertFromHost
<1>1. IInv => CertFromHost
  <2> SUFFICES ASSUME IInv, NEW s \in Services,
                      Asks(state, s), SpecOf(state, s).cert,
                      \A r \in Members(state, s) : Address[r] # ""
               PROVE  {n \in Node : s \in plan[n].certs} =
                        {NodeOf[r] : r \in Members(state, s)}
    BY DEF CertFromHost
  <2> DEFINE M == Members(state, s)
             scope == SpecOf(state, s).scope
  <2>1. \A r \in M : r \in Reg /\ NodeOf[r] \in Node
    BY HomeAssumption DEF Members
  <2>2. ASSUME NEW n \in Node
        PROVE  s \in plan[n].certs <=> \E r \in M : NodeOf[r] = n
    <3> DEFINE E == Eligible(state, s, scope, n)
               best == Selected(state, s, scope, n)
    <3>1. s \in plan[n].certs <=> Certifies(state, s, n)
      BY DesiredCerts DEF IInv, TypeOK
    <3>2. IsClosest(state, best, E, n)
      BY SelectedClosest DEF IInv, TypeOK
    <3>3. best \subseteq M
      BY <3>2 DEF IsClosest, Eligible
    <3>4. Usable(state, s, n) = best
      BY <3>3 DEF Usable
    <3>5. ASSUME Certifies(state, s, n)
          PROVE  \E r \in M : NodeOf[r] = n
      <4>1. BackendOf(state, s, n) \in best
        BY <3>4, <3>5 DEF Certifies, Serves, BackendOf
      <4> QED BY <3>3, <3>5, <4>1 DEF Certifies, WantsCert, Local
    <3>6. ASSUME NEW r \in M, NodeOf[r] = n
          PROVE  Certifies(state, s, n)
      <4>1. r \in E
        BY <3>6 DEF Eligible, InScope, Local
      <4>2. PICK c \in E : /\ best = {c}
                           /\ \A q \in E \ {c} : Closer(state, c, q, n)
        BY <3>2, <4>1 DEF IsClosest
      <4>3. c = r \/ Closer(state, c, r, n)
        BY <4>1, <4>2
      <4>5. Local(c, n)
        BY <3>6, <4>3, CloserIsLocal DEF Local
      <4>6. Usable(state, s, n) = {c}
        BY <3>4, <4>2
      <4>7. BackendOf(state, s, n) = c /\ Serves(state, s, n)
        BY <4>6 DEF BackendOf, Serves
      <4> QED BY <4>5, <4>7 DEF Certifies, WantsCert
    <3> QED BY <3>1, <3>5, <3>6
  <2>3. {n \in Node : s \in plan[n].certs} =
          {n \in Node : \E r \in M : NodeOf[r] = n}
    BY <2>2
  <2> HIDE DEF M
  <2>4. {n \in Node : \E r \in M : NodeOf[r] = n} = {NodeOf[r] : r \in M}
    BY <2>1
  <2> QED BY <2>3, <2>4 DEF M
<1> QED BY <1>1, Inductive, PTL

-----------------------------------------------------------------------------
(* Services that are left alone.                                           *)

\* The registrations of s are the same.
Same(st, tt, s) == \A r \in Reg : ServiceOf[r] = s => tt[r] = st[r]

LEMMA SameNewest ==
  ASSUME NEW st \in States, NEW tt \in States, NEW s, Same(st, tt, s),
         Members(st, s) # {}
  PROVE  /\ Members(tt, s) = Members(st, s)
         /\ TagsOf(tt, s) = TagsOf(st, s)
<1> DEFINE R == Members(st, s)
           a == Newest(st, R)
           b == Newest(tt, R)
<1>1. R \in SUBSET Reg /\ \A r \in R : tt[r] = st[r]
  BY DEF Members, Same
<1>2. Members(tt, s) = R
  BY DEF Members, Same
<1>3. a \in R /\ \A q \in R \ {a} : NewerFirst(st, a, q)
  BY <1>1, NewestOf
<1>4. b \in R /\ \A q \in R \ {b} : NewerFirst(tt, b, q)
  BY <1>1, NewestOf
<1> HIDE DEF R, a, b
<1>5. a = b
  <2> SUFFICES ASSUME a # b PROVE FALSE
    OBVIOUS
  <2>1. NewerFirst(st, a, b) /\ NewerFirst(tt, b, a)
    BY <1>3, <1>4
  <2>2. NewerFirst(st, b, a)
    BY <2>1, <1>1, <1>3, <1>4 DEF NewerFirst
  <2> QED BY <2>1, <2>2, <1>1, <1>3, <1>4, NewerFirstOrders
<1> QED BY <1>1, <1>2, <1>3, <1>5 DEF R, a, b, TagsOf

LEMMA SameSelected ==
  ASSUME NEW st \in States, NEW tt \in States, NEW s, Same(st, tt, s),
         NEW scope, NEW n
  PROVE  Selected(tt, s, scope, n) = Selected(st, s, scope, n)
<1> DEFINE E == Eligible(st, s, scope, n)
           x == Selected(st, s, scope, n)
           y == Selected(tt, s, scope, n)
<1>1. IsClosest(st, x, E, n)
  BY SelectedClosest
<1>2. Eligible(tt, s, scope, n) = E
  BY DEF Eligible, Members, Same
<1>3. IsClosest(tt, y, E, n)
  BY <1>2, SelectedClosest
<1>4. E \in SUBSET Reg /\ \A r \in E : tt[r] = st[r]
  BY DEF Eligible, Members, Same
<1> HIDE DEF E, x, y
<1>5. ASSUME E = {} PROVE y = x
  BY <1>1, <1>3, <1>5 DEF IsClosest
<1>6. ASSUME E # {} PROVE y = x
  <2>1. PICK a \in E : x = {a} /\ \A r \in E \ {a} : Closer(st, a, r, n)
    BY <1>1, <1>6 DEF IsClosest
  <2>2. PICK b \in E : y = {b} /\ \A r \in E \ {b} : Closer(tt, b, r, n)
    BY <1>3, <1>6 DEF IsClosest
  <2>3. a = b
    <3> SUFFICES ASSUME a # b PROVE FALSE
      OBVIOUS
    <3>1. Closer(st, a, b, n) /\ Closer(tt, b, a, n)
      BY <2>1, <2>2
    <3>2. NewerFirst(tt, b, a) <=> NewerFirst(st, b, a)
      BY <1>4 DEF NewerFirst
    <3>3. Closer(st, b, a, n)
      BY <3>1, <3>2 DEF Closer
    <3> QED BY <1>4, <3>1, <3>3, CloserOrders
  <2> QED BY <2>1, <2>2, <2>3
<1> QED BY <1>5, <1>6 DEF x, y

LEMMA SameService ==
  ASSUME NEW st \in States, NEW tt \in States, NEW s, Same(st, tt, s),
         NEW n
  PROVE  /\ Serves(tt, s, n) <=> Serves(st, s, n)
         /\ Serves(st, s, n) =>
               /\ SpecOf(tt, s) = SpecOf(st, s)
               /\ BackendOf(tt, s, n) = BackendOf(st, s, n)
<1>1. CASE Members(st, s) = {}
  <2>1. Members(tt, s) = {}
    BY <1>1 DEF Members, Same
  <2> QED BY <1>1, <2>1 DEF Serves, Asks
<1>2. CASE Members(st, s) # {}
  <2>1. Members(tt, s) = Members(st, s) /\ TagsOf(tt, s) = TagsOf(st, s)
    BY <1>2, SameNewest
  <2>2. SpecOf(tt, s) = SpecOf(st, s) /\ (Asks(tt, s) <=> Asks(st, s))
    BY <2>1 DEF SpecOf, Asks
  <2>3. Usable(tt, s, n) = Usable(st, s, n)
    <3> DEFINE scope == SpecOf(st, s).scope
    <3>1. Selected(tt, s, scope, n) = Selected(st, s, scope, n)
      BY SameSelected
    <3> QED BY <2>2, <3>1 DEF Usable
  <2> QED BY <2>2, <2>3 DEF Serves, BackendOf
<1> QED BY <1>1, <1>2

At(D, service, port) == {d \in D : Keyed(d, service, port)}

\* A claim adds the same at a pair where the same was claimed before.
LEMMA ClaimSame ==
  ASSUME NEW a, NEW b, NEW s, NEW spec, NEW r, NEW n, NEW service, NEW port,
         At(a.desired, service, port) = At(b.desired, service, port)
  PROVE  At(Claim(a, s, spec, r, n).desired, service, port) =
           At(Claim(b, s, spec, r, n).desired, service, port)
<1> DEFINE New(e) == [service |-> spec.service, port |-> e.port,
                      endpoint |-> e, backend |-> r]
<1>1. \A acc : Claim(acc, s, spec, r, n).desired = acc.desired \cup
         {New(e) : e \in {f \in spec.endpoints :
                            Free(acc.desired, spec.service, f.port)}}
  BY DEF Claim
<1>2. \A e : Keyed(New(e), service, port) <=>
               spec.service = service /\ e.port = port
  BY DEF Keyed
<1>3. Free(a.desired, service, port) <=> Free(b.desired, service, port)
  BY DEF Free, At, Keyed
<1> HIDE DEF New
<1>4. \A acc : At(Claim(acc, s, spec, r, n).desired, service, port) =
         At(acc.desired, service, port) \cup
           {New(e) : e \in {f \in spec.endpoints :
                              /\ Free(acc.desired, service, port)
                              /\ spec.service = service /\ f.port = port}}
  BY <1>1, <1>2 DEF At
<1> QED BY <1>3, <1>4

\* A service adds nothing at a pair it does not ask for.
LEMMA ClaimElsewhere ==
  ASSUME NEW st, NEW acc, NEW s, NEW n, NEW service, NEW port,
         ~AsksFor(st, s, service, port)
  PROVE  At(AddService(acc, st, s, n).desired, service, port) =
           At(acc.desired, service, port)
<1> DEFINE spec == SpecOf(st, s)
           r == BackendOf(st, s, n)
           D == Claim(acc, s, spec, r, n).desired
<1>1. CASE ~Serves(st, s, n)
  BY <1>1, AddServiceIs
<1>2. CASE Serves(st, s, n)
  <2>1. ~(spec.service = service /\ \E e \in spec.endpoints : e.port = port)
    BY <1>2 DEF AsksFor, Serves
  <2>2. /\ acc.desired \subseteq D
        /\ \A d \in D \ acc.desired :
              /\ d.service = spec.service
              /\ d.endpoint \in spec.endpoints /\ d.port = d.endpoint.port
    BY ClaimAt
  <2>3. AddService(acc, st, s, n).desired = D
    BY <1>2, AddServiceIs
  <2> HIDE DEF D, spec
  <2> QED BY <2>1, <2>2, <2>3 DEF At, Keyed
<1> QED BY <1>1, <1>2

\* Where no service that changed asks for a pair, its claims are the same.
LEMMA DesiredUndisturbed ==
  ASSUME NEW st \in States, NEW tt \in States, NEW n, NEW service, NEW port,
         \A s \in Services : ~Same(st, tt, s) =>
            ~AsksFor(st, s, service, port) /\ ~AsksFor(tt, s, service, port)
  PROVE  At(DesiredFromState(st, n).desired, service, port) =
           At(DesiredFromState(tt, n).desired, service, port)
<1> DEFINE L == Len(GroupOrder)
           Of(f, i) == At(f[i].desired, service, port)
<1>1. PICK f : ServiceLoop(f, st, n)
  BY ClaimsFold
<1>2. PICK g : ServiceLoop(g, tt, n)
  BY ClaimsFold
<1> DEFINE S == {i \in 0..L : Of(f, i) = Of(g, i)}
<1>3. 0 \in S
  BY <1>1, <1>2, OrderFacts DEF ServiceLoop
<1>4. ASSUME NEW i \in 1..L, i - 1 \in S PROVE i \in S
  <2> DEFINE s == GroupOrder[i]
  <2>1. /\ f[i] = AddService(f[i - 1], st, s, n)
        /\ g[i] = AddService(g[i - 1], tt, s, n)
    BY <1>1, <1>2 DEF ServiceLoop
  <2>2. Of(f, i - 1) = Of(g, i - 1)
    BY <1>4
  <2>3. CASE ~Same(st, tt, s)
    <3>1. ~AsksFor(st, s, service, port) /\ ~AsksFor(tt, s, service, port)
      BY <2>3, OrderFacts
    <3>2. Of(f, i) = Of(f, i - 1) /\ Of(g, i) = Of(g, i - 1)
      BY <2>1, <3>1, ClaimElsewhere
    <3> QED BY <2>2, <3>2, OrderFacts
  <2>4. CASE Same(st, tt, s) /\ Serves(st, s, n)
    <3> DEFINE spec == SpecOf(st, s)
               r == BackendOf(st, s, n)
    <3>1. /\ f[i] = Claim(f[i - 1], s, spec, r, n)
          /\ g[i] = Claim(g[i - 1], s, spec, r, n)
      BY <2>1, <2>4, AddServiceIs, SameService
    <3>2. Of(f, i) = Of(g, i)
      BY <2>2, <3>1, ClaimSame
    <3> QED BY <3>2, OrderFacts
  <2>5. CASE Same(st, tt, s) /\ ~Serves(st, s, n)
    <3>1. f[i] = f[i - 1] /\ g[i] = g[i - 1]
      BY <2>1, <2>5, AddServiceIs, SameService
    <3> QED BY <2>2, <3>1, OrderFacts
  <2> QED BY <2>3, <2>4, <2>5
<1>5. \A i \in 0..L : i \in S
  <2> HIDE DEF S
  <2> QED BY <1>3, <1>4, OrderFacts, UpTo
<1>6. Of(f, L) = Of(g, L)
  BY <1>5, OrderFacts
<1> QED BY <1>1, <1>2, <1>6 DEF ServiceLoop

(***************************************************************************)
(* A change to one service leaves every endpoint alone whose pair it does  *)
(* not ask for, before or after.                                           *)
(***************************************************************************)
THEOREM OthersUndisturbed == Spec => Undisturbed
<1> DEFINE Alone ==
      \A n \in Node : \A d \in plan[n].desired \ plan'[n].desired :
          \E s \in Services :
             /\ Changed(s)
             /\ \/ AsksFor(state, s, d.service, d.port)
                \/ AsksFor(state', s, d.service, d.port)
<1>1. IInv /\ IInv' => Alone
  <2> SUFFICES ASSUME IInv, IInv', NEW n \in Node,
                      NEW d \in plan[n].desired \ plan'[n].desired,
                      \A s \in Services : Changed(s) =>
                         /\ ~AsksFor(state, s, d.service, d.port)
                         /\ ~AsksFor(state', s, d.service, d.port)
               PROVE  FALSE
    OBVIOUS
  <2>1. state \in States /\ state' \in States
    BY DEF IInv, TypeOK
  <2>2. \A s \in Services : ~Same(state, state', s) => Changed(s)
    BY DEF Same, Changed
  <2>3. /\ plan[n] = DesiredFromState(state, n)
        /\ plan'[n] = DesiredFromState(state', n)
    BY DEF IInv
  <2>4. At(plan[n].desired, d.service, d.port) =
          At(plan'[n].desired, d.service, d.port)
    BY <2>1, <2>2, <2>3, DesiredUndisturbed
  <2>5. d \in At(plan[n].desired, d.service, d.port)
    BY DEF At, Keyed
  <2> QED BY <2>4, <2>5 DEF At
<1>2. IInv /\ IInv' /\ [Next]_vars => [Alone]_vars
  BY <1>1
<1>3. [][Alone]_vars <=> Undisturbed
  BY DEF Undisturbed
<1> QED BY <1>2, <1>3, Inductive, PTL DEF Spec

-----------------------------------------------------------------------------
(* What the reconciler is given.                                           *)

\* A backend is one of the registrations.
LEMMA DesiredBackends ==
  ASSUME NEW st \in States, NEW n
  PROVE  \A d \in DesiredFromState(st, n).desired : d.backend \in Reg
<1> DEFINE L == Len(GroupOrder)
           Fine(D) == \A d \in D : d.backend \in Reg
<1>1. PICK f : ServiceLoop(f, st, n)
  BY ClaimsFold
<1> DEFINE S == {i \in 0..L : Fine(f[i].desired)}
<1>2. 0 \in S
  BY <1>1, OrderFacts DEF ServiceLoop, Nothing
<1>3. ASSUME NEW i \in 1..L, i - 1 \in S PROVE i \in S
  <2> DEFINE s == GroupOrder[i]
             acc == f[i - 1]
             spec == SpecOf(st, s)
             r == BackendOf(st, s, n)
  <2>1. s \in Services
    BY OrderFacts
  <2>2. f[i] = IF Serves(st, s, n) THEN Claim(acc, s, spec, r, n) ELSE acc
    BY <1>1, AddServiceIs DEF ServiceLoop
  <2>3. CASE ~Serves(st, s, n)
    BY <1>3, <2>2, <2>3, OrderFacts
  <2>4. CASE Serves(st, s, n)
    <3>1. r \in Reg
      <4>1. r \in Usable(st, s, n)
        BY <2>4 DEF Serves, BackendOf
      <4>2. IsClosest(st, Selected(st, s, spec.scope, n),
                      Eligible(st, s, spec.scope, n), n)
        BY <2>1, SelectedClosest
      <4> QED BY <4>1, <4>2 DEF Usable, IsClosest, Eligible, Members
    <3>2. \A d \in Claim(acc, s, spec, r, n).desired :
             d \in acc.desired \/ d.backend = r
      BY ClaimAt
    <3>3. Fine(acc.desired)
      BY <1>3
    <3> HIDE DEF acc, spec, r, s
    <3>4. Fine(f[i].desired)
      BY <2>2, <2>4, <3>1, <3>2, <3>3
    <3> QED BY <3>4, OrderFacts
  <2> QED BY <2>3, <2>4
<1>4. \A i \in 0..L : i \in S
  <2> HIDE DEF S
  <2> QED BY <1>2, <1>3, OrderFacts, UpTo
<1> QED BY <1>1, <1>4, OrderFacts DEF ServiceLoop

\* The map by key loses nothing: a wanted key has the backend of its claim.
LEMMA WantOfClaim ==
  ASSUME NEW st \in States, NEW k \in Keys, WantOf(st)[k] # None
  PROVE  \E d \in DesiredOf(st) : KeyOf(d) = k /\ WantOf(st)[k] = d.backend
  BY DEF WantOf

\* The ports and keys are what Reconciler asks of them, and no pass wants two
\* keys on one port: WantsAssumption holds of every cache.
LEMMA ReconcilerGiven == Rec!PortOfAssumption /\ Rec!WantsAssumption
<1>1. Rec!PortOfAssumption
  BY DEF Rec!PortOfAssumption, Ports
<1>2. ASSUME NEW st \in States PROVE WantOf(st) \in [Keys -> Reg \cup {None}]
  <2>1. ASSUME NEW k \in Keys PROVE WantOf(st)[k] \in Reg \cup {None}
    BY WantOfClaim, DesiredBackends DEF DesiredOf
  <2> QED BY <2>1 DEF WantOf
<1>3. ASSUME NEW st \in States, NEW k \in Keys, NEW l \in Keys,
             WantOf(st)[k] # None, WantOf(st)[l] # None,
             <<k.service, k.port>> = <<l.service, l.port>>
      PROVE  k = l
  <2>1. PICK d \in DesiredOf(st) : KeyOf(d) = k
    BY <1>3, WantOfClaim
  <2>2. PICK e \in DesiredOf(st) : KeyOf(e) = l
    BY <1>3, WantOfClaim
  <2>3. Unique(DesiredOf(st))
    BY DesiredUnique DEF DesiredOf
  <2>4. d.service = e.service /\ d.port = e.port
    BY <1>3, <2>1, <2>2 DEF KeyOf
  <2> QED BY <2>1, <2>2, <2>3, <2>4 DEF Unique
<1>4. Rec!WantsAssumption
  <2> HIDE DEF Keys
  <2> QED BY <1>2, <1>3 DEF Rec!WantsAssumption, Rec!Desired
<1> QED BY <1>1, <1>4

(***************************************************************************)
(* At a connector, whatever registrations and tags its cache holds in each *)
(* pass, no port of a Service ever has two open listeners, and between     *)
(* passes the open listeners are what desiredFromState makes of the cache  *)
(* of the last one, at their current backends, but for those whose publish *)
(* failed.  Nothing is assumed of what the reconciler is given.            *)
(***************************************************************************)
THEOREM ConnectorListeners ==
  ASSUME Rec!NoneAssumption, Rec!GraceAssumption
  PROVE  Rec!Spec => [](Rec!OneListenerPerPort /\ Rec!Converged)
<1>1. Rec!Spec => []Rec!OneListenerPerPort
  BY ReconcilerGiven, Rec!OnePortOneListener
<1>2. Rec!Spec => []Rec!Converged
  BY ReconcilerGiven, Rec!PassConverges
<1> QED BY <1>1, <1>2, PTL
=============================================================================
