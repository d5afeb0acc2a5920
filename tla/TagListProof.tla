---------------------------- MODULE TagListProof ----------------------------
(***************************************************************************)
(* What a list of tags says, for every list: which tags may change places  *)
(* and which may be left out (TagList).                                    *)
(*                                                                         *)
(* ParseTags is a fold: a function that its own values define, and that    *)
(* exists because one of each length does.  That, and what the loop has    *)
(* read after each tag, is shown by UpTo; SelectionProof uses it too.      *)
(***************************************************************************)
EXTENDS TagList, FiniteSetTheorems, SequenceTheorems, WellFoundedInduction,
        TLAPS

-----------------------------------------------------------------------------
(* Induction, as a fact about sets: the library's theorems take operators. *)

\* A set of numbers that is not empty has a least element.
LEMMA LeastNat ==
  ASSUME NEW T \in SUBSET Nat, T # {}
  PROVE  \E n \in T : \A m \in T : n =< m
<1>1. PICK k \in T : TRUE OBVIOUS
<1> DEFINE I == 0..k
           L == {U \in SUBSET I : \E n \in T : U = 0..n}
<1>2. IsWellFoundedOn(StrictSubsetOrdering(I), FiniteSubsetsOf(I))
  BY FS_StrictSubsetOrderingWellFounded
<1>3. L \subseteq FiniteSubsetsOf(I) /\ L # {}
  <2>1. IsFiniteSet(I)
    BY FS_Interval
  <2>2. \A U \in SUBSET I : IsFiniteSet(U)
    <3> HIDE DEF I
    <3> QED BY <2>1, FS_Subset
  <2>3. I \in L
    OBVIOUS
  <2> QED BY <2>2, <2>3 DEF FiniteSubsetsOf
<1>4. PICK U \in L : \A V \in L : ~(<<V, U>> \in StrictSubsetOrdering(I))
  <2> HIDE DEF L
  <2> QED BY <1>2, <1>3, WFMin
<1>5. PICK n \in T : U = 0..n
  OBVIOUS
<1>6. ASSUME NEW m \in T, m < n PROVE FALSE
  <2>1. 0..m \in SUBSET U /\ 0..m # U
    BY <1>5, <1>6
  <2>2. 0..m \in L
    BY <2>1
  <2>3. <<0..m, U>> \in StrictSubsetOrdering(I)
    BY <2>1, <2>2 DEF StrictSubsetOrdering
  <2> QED BY <2>2, <2>3, <1>4
<1> QED BY <1>6

\* What holds of 0, and of i when it holds of i - 1, holds up to n.
LEMMA UpTo ==
  ASSUME NEW n \in Nat, NEW S, 0 \in S,
         \A i \in 1..n : i - 1 \in S => i \in S
  PROVE  \A i \in 0..n : i \in S
<1> DEFINE T == {i \in 0..n : i \notin S}
<1> SUFFICES ASSUME T # {} PROVE FALSE
  OBVIOUS
<1>1. PICK k \in T : \A m \in T : k =< m
  <2>1. T \in SUBSET Nat
    OBVIOUS
  <2> HIDE DEF T
  <2> QED BY <2>1, LeastNat
<1>2. k \in 1..n /\ k - 1 \in 0..n /\ k - 1 \notin T
  BY <1>1
<1> QED BY <1>1, <1>2

\* A set of the numbers up to i that holds i has i as its greatest element.
LEMMA GreatestIs ==
  ASSUME NEW i \in Nat, NEW S \in SUBSET (1..i), i \in S
  PROVE  Max(S) = i
<1>1. \A x \in S : i >= x
  OBVIOUS
<1>2. \A x \in S : (\A y \in S : x >= y) => x = i
  BY <1>1
<1> QED BY <1>1, <1>2 DEF Max

-----------------------------------------------------------------------------
(* The loop over the tags. *)

Result(acc) ==
  [service |-> acc.name, scope |-> acc.scope, cert |-> acc.cert,
   endpoints |-> Endpoints(acc)]

\* h[D] is what is read of the tags at the places of D alone.
ReadOf(h, nomad, q) ==
  /\ h[{}] = Unread(nomad)
  /\ \A D \in SUBSET (1..Len(q)) : D # {} =>
        h[D] = Read(nomad, h[D \ {Max(D)}], q[Max(D)])
  /\ ParseTags(nomad, q) = Result(h[1..Len(q)])

\* f[i] is what is read of the first i tags.
TagLoop(f, nomad, q) ==
  /\ f[0] = Unread(nomad)
  /\ \A i \in 1..Len(q) : f[i] = Read(nomad, f[i - 1], q[i])
  /\ ParseTags(nomad, q) = Result(f[Len(q)])

\* The function that FoldLeft chooses exists.
LEMMA ReadFold ==
  ASSUME NEW nomad, NEW X, NEW q \in Seq(X)
  PROVE  \E h : ReadOf(h, nomad, q)
<1> DEFINE L == Len(q)
           Step(acc, i) == Read(nomad, acc, q[i])
           Body(g, s) == IF s = {} THEN Unread(nomad)
                         ELSE Step(g[s \ {Max(s)}], Max(s))
           Ends(g, k) == g = [s \in SUBSET (1..k) |-> Body(g, s)]
           iter == CHOOSE g : Ends(g, L)
<1>1. L \in Nat /\ DOMAIN q = 1..L
  OBVIOUS
<1>2. ParseTags(nomad, q) = Result(iter[1..L])
  BY <1>1 DEF ParseTags, FoldLeft, MapThenFoldSet, Result
<1> HIDE DEF Step
<1>3. \E g : Ends(g, 0)
  <2> DEFINE g == [s \in SUBSET (1..0) |-> Unread(nomad)]
  <2>1. SUBSET (1..0) = {{}}
    OBVIOUS
  <2>2. Ends(g, 0)
    BY <2>1
  <2> QED BY <2>2
<1>4. ASSUME NEW k \in 1..L, NEW g, Ends(g, k - 1)
      PROVE  \E h : Ends(h, k)
  <2> DEFINE h == [s \in SUBSET (1..k) |->
                     IF k \in s THEN Step(g[s \ {k}], k) ELSE g[s]]
  <2>1. ASSUME NEW s \in SUBSET (1..k), k \in s
        PROVE  h[s] = Body(h, s)
    <3>1. Max(s) = k
      BY <2>1, GreatestIs
    <3>2. s \ {k} \in SUBSET (1..k) /\ k \notin s \ {k}
      BY <2>1
    <3>3. h[s \ {k}] = g[s \ {k}]
      BY <3>2
    <3> QED BY <2>1, <3>1, <3>3
  <2>2. ASSUME NEW s \in SUBSET (1..k), k \notin s
        PROVE  h[s] = Body(h, s)
    <3>1. \A r \in SUBSET (1..k) : k \notin r => r \in SUBSET (1..(k - 1))
      OBVIOUS
    <3>2. h[s] = g[s] /\ g[s] = Body(g, s)
      BY <2>2, <3>1, <1>4
    <3>3. s \ {Max(s)} \in SUBSET (1..k) /\ k \notin s \ {Max(s)}
      BY <2>2
    <3>4. h[s \ {Max(s)}] = g[s \ {Max(s)}]
      BY <3>3
    <3> QED BY <3>2, <3>4
  <2>3. Ends(h, k)
    BY <2>1, <2>2
  <2> QED BY <2>3
<1>5. Ends(iter, L)
  <2> DEFINE S == {k \in 0..L : \E g : Ends(g, k)}
  <2> HIDE DEF Ends
  <2>1. 0 \in S
    BY <1>1, <1>3
  <2>2. \A k \in 1..L : k - 1 \in S => k \in S
    BY <1>1, <1>4
  <2>3. \A k \in 0..L : k \in S
    <3> HIDE DEF S, L
    <3> QED BY <1>1, <2>1, <2>2, UpTo
  <2> QED BY <1>1, <2>3
<1>6. iter[{}] = Unread(nomad)
  BY <1>1, <1>5
<1>7. \A D \in SUBSET (1..L) : D # {} =>
         iter[D] = Step(iter[D \ {Max(D)}], Max(D))
  BY <1>5
<1> HIDE DEF iter
<1>8. ReadOf(iter, nomad, q)
  BY <1>2, <1>6, <1>7 DEF ReadOf, Step
<1> QED BY <1>8

LEMMA ParseFold ==
  ASSUME NEW nomad, NEW X, NEW q \in Seq(X)
  PROVE  \E f : TagLoop(f, nomad, q)
<1> DEFINE L == Len(q)
<1>1. L \in Nat
  OBVIOUS
<1>2. PICK h : ReadOf(h, nomad, q)
  BY ReadFold
<1> HIDE DEF L
<1> DEFINE f == [i \in 0..L |-> h[1..i]]
<1>3. f[0] = Unread(nomad)
  <2>1. 1..0 = {}
    OBVIOUS
  <2> QED BY <1>1, <1>2, <2>1 DEF ReadOf
<1>4. f[L] = h[1..L]
  BY <1>1
<1>5. ASSUME NEW i \in 1..L PROVE f[i] = Read(nomad, f[i - 1], q[i])
  <2>1. 1..i \in SUBSET (1..L) /\ i \in 1..i /\ (1..i) \ {i} = 1..(i - 1)
    BY <1>1
  <2>2. Max(1..i) = i
    BY <2>1, GreatestIs
  <2>3. h[1..i] = Read(nomad, h[1..(i - 1)], q[i])
    BY <1>2, <2>1, <2>2 DEF ReadOf, L
  <2> QED BY <1>1, <2>3
<1> HIDE DEF f
<1>6. TagLoop(f, nomad, q)
  BY <1>2, <1>3, <1>4, <1>5 DEF TagLoop, ReadOf, L
<1> QED BY <1>6

-----------------------------------------------------------------------------
(* What a tag decides, one part of the spec at a time.                     *)

IsRead(acc) ==
  /\ acc = [name |-> acc.name, scope |-> acc.scope, cert |-> acc.cert,
            path |-> acc.path, proxy |-> acc.proxy, ports |-> acc.ports]
  /\ acc.proxy = [k \in Setting |-> acc.proxy[k]]
  /\ acc.ports = [p \in DOMAIN acc.ports |-> acc.ports[p]]

NameOf(nomad, x, t) ==
  IF t.key = "service"
  THEN IF ServiceName(t.value) = "" THEN nomad ELSE ServiceName(t.value)
  ELSE x

ScopeOf(x, t) == IF t.key = "scope" /\ t.value \in Scope THEN t.value ELSE x

CertOf(x, t) ==
  IF t.key = "publish-cert" /\ t.value \in {"true", "false"}
  THEN t.value = "true" ELSE x

PathOf(x, t) == IF t.key = "path" /\ t.value \in Rooted THEN t.value ELSE x

ProxyOf(x, t) ==
  IF t.key \in Setting /\ Parsed(t) >= 0
  THEN [k \in Setting |-> IF k = t.key THEN Parsed(t) ELSE x[k]] ELSE x

PortsOf(x, t) ==
  IF t.key \in Proto /\ ValidPort(t.value)
  THEN [p \in DOMAIN x \cup {Atoi[t.value]} |->
          IF p \in DOMAIN x THEN x[p] ELSE t.key]
  ELSE x

Parts(nomad, acc, t) ==
  [name |-> NameOf(nomad, acc.name, t), scope |-> ScopeOf(acc.scope, t),
   cert |-> CertOf(acc.cert, t), path |-> PathOf(acc.path, t),
   proxy |-> ProxyOf(acc.proxy, t), ports |-> PortsOf(acc.ports, t)]

LEMMA AddPortIs ==
  ASSUME NEW x, NEW p, NEW proto
  PROVE  AddPort(x, p, proto) =
           [q \in DOMAIN x \cup {p} |-> IF q \in DOMAIN x THEN x[q] ELSE proto]
  BY DEF AddPort

LEMMA ReadParts ==
  ASSUME NEW nomad, NEW acc, NEW t, IsRead(acc)
  PROVE  Read(nomad, acc, t) = Parts(nomad, acc, t)
<1> USE DEF Parts, NameOf, ScopeOf, CertOf, PathOf, ProxyOf, PortsOf
<1>0. "service" \notin Setting \cup Proto /\ "scope" \notin Setting \cup Proto
      /\ "publish-cert" \notin Setting \cup Proto
      /\ "path" \notin Setting \cup Proto /\ Setting \cap Proto = {}
  BY DEF Setting, Timeout, Proto
<1>1. CASE t.key = "service"
  BY <1>0, <1>1 DEF Read, IsRead
<1>2. CASE t.key = "scope"
  BY <1>0, <1>2 DEF Read, IsRead, ReadScope
<1>3. CASE t.key = "publish-cert"
  BY <1>0, <1>3 DEF Read, IsRead
<1>4. CASE t.key = "path"
  BY <1>0, <1>4 DEF Read, IsRead
<1>5. CASE t.key \in Setting
  BY <1>0, <1>5 DEF Read, IsRead
<1>6. CASE t.key \in Proto
  BY <1>0, <1>6, AddPortIs DEF Read, IsRead
<1>7. CASE /\ t.key \notin {"service", "scope", "publish-cert", "path"}
           /\ t.key \notin Setting \cup Proto
  BY <1>0, <1>7 DEF Read, IsRead
<1> QED BY <1>1, <1>2, <1>3, <1>4, <1>5, <1>6, <1>7

LEMMA ReadIsRead ==
  ASSUME NEW nomad, NEW acc, NEW t, IsRead(acc)
  PROVE  IsRead(Read(nomad, acc, t))
<1>1. Read(nomad, acc, t) = Parts(nomad, acc, t)
  BY ReadParts
<1>2. ProxyOf(acc.proxy, t) = [k \in Setting |-> ProxyOf(acc.proxy, t)[k]]
  BY DEF IsRead, ProxyOf
<1>3. PortsOf(acc.ports, t) =
        [p \in DOMAIN PortsOf(acc.ports, t) |-> PortsOf(acc.ports, t)[p]]
  BY DEF IsRead, PortsOf
<1> QED BY <1>1, <1>2, <1>3 DEF Parts, IsRead

LEMMA UnreadIsRead ==
  ASSUME NEW nomad
  PROVE  IsRead(Unread(nomad))
  BY DefaultsAssumption DEF IsRead, Unread

\* An invalid tag decides nothing.
LEMMA InvalidDecidesNothing ==
  ASSUME NEW nomad, NEW acc, NEW t, IsRead(acc), ~Valid(t)
  PROVE  Read(nomad, acc, t) = acc
<1>1. Parts(nomad, acc, t) = acc
  BY DEF IsRead, Valid, Parts, NameOf, ScopeOf, CertOf, PathOf, ProxyOf,
         PortsOf
<1> QED BY <1>1, ReadParts

\* Tags that decide different things may be read in any order.
LEMMA ReadsCommute ==
  ASSUME NEW nomad, NEW acc, NEW t, NEW u, IsRead(acc), ~Conflict(t, u)
  PROVE  Read(nomad, Read(nomad, acc, t), u) =
           Read(nomad, Read(nomad, acc, u), t)
<1> DEFINE x == Read(nomad, acc, t)
           y == Read(nomad, acc, u)
<1>1. x = Parts(nomad, acc, t) /\ y = Parts(nomad, acc, u)
  BY ReadParts
<1>2. IsRead(x) /\ IsRead(y)
  BY ReadIsRead
<1>3. /\ Read(nomad, x, u) = Parts(nomad, x, u)
      /\ Read(nomad, y, t) = Parts(nomad, y, t)
  BY <1>2, ReadParts
<1> HIDE DEF x, y
<1>4. NameOf(nomad, NameOf(nomad, acc.name, t), u) =
        NameOf(nomad, NameOf(nomad, acc.name, u), t)
  <2>1. ~(t.key = "service" /\ u.key = "service")
    BY DEF Conflict, Valid, Proto
  <2> QED BY <2>1 DEF NameOf
<1>5. ScopeOf(ScopeOf(acc.scope, t), u) = ScopeOf(ScopeOf(acc.scope, u), t)
  <2>1. ~(/\ t.key = "scope" /\ t.value \in Scope
          /\ u.key = "scope" /\ u.value \in Scope)
    BY DEF Conflict, Valid, Proto
  <2> QED BY <2>1 DEF ScopeOf
<1>6. CertOf(CertOf(acc.cert, t), u) = CertOf(CertOf(acc.cert, u), t)
  <2>1. ~(/\ t.key = "publish-cert" /\ t.value \in {"true", "false"}
          /\ u.key = "publish-cert" /\ u.value \in {"true", "false"})
    BY DEF Conflict, Valid, Proto
  <2> QED BY <2>1 DEF CertOf
<1>7. PathOf(PathOf(acc.path, t), u) = PathOf(PathOf(acc.path, u), t)
  <2>1. ~(/\ t.key = "path" /\ t.value \in Rooted
          /\ u.key = "path" /\ u.value \in Rooted)
    BY DEF Conflict, Valid, Proto
  <2> QED BY <2>1 DEF PathOf
<1>8. ProxyOf(ProxyOf(acc.proxy, t), u) = ProxyOf(ProxyOf(acc.proxy, u), t)
  <2>1. ~(/\ t.key \in Setting /\ Parsed(t) >= 0
          /\ u.key \in Setting /\ Parsed(u) >= 0 /\ t.key = u.key)
    BY DEF Conflict, Valid, Setting, Timeout, Proto
  <2> QED BY <2>1 DEF ProxyOf
<1>9. PortsOf(PortsOf(acc.ports, t), u) = PortsOf(PortsOf(acc.ports, u), t)
  <2>1. ~(/\ t.key \in Proto /\ ValidPort(t.value)
          /\ u.key \in Proto /\ ValidPort(u.value)
          /\ Atoi[t.value] = Atoi[u.value])
    BY DEF Conflict, Valid
  <2> QED BY <2>1 DEF PortsOf
<1>10. /\ x.name = NameOf(nomad, acc.name, t)
       /\ x.scope = ScopeOf(acc.scope, t) /\ x.cert = CertOf(acc.cert, t)
       /\ x.path = PathOf(acc.path, t) /\ x.proxy = ProxyOf(acc.proxy, t)
       /\ x.ports = PortsOf(acc.ports, t)
  BY <1>1 DEF Parts
<1>11. /\ y.name = NameOf(nomad, acc.name, u)
       /\ y.scope = ScopeOf(acc.scope, u) /\ y.cert = CertOf(acc.cert, u)
       /\ y.path = PathOf(acc.path, u) /\ y.proxy = ProxyOf(acc.proxy, u)
       /\ y.ports = PortsOf(acc.ports, u)
  BY <1>1 DEF Parts
<1>12. Parts(nomad, x, u) = Parts(nomad, y, t)
  BY <1>4, <1>5, <1>6, <1>7, <1>8, <1>9, <1>10, <1>11, Zenon DEF Parts
<1> QED BY <1>3, <1>12 DEF x, y

\* What the loop has read is a spec in the making.
LEMMA LoopIsRead ==
  ASSUME NEW nomad, NEW X, NEW q \in Seq(X), NEW f, TagLoop(f, nomad, q)
  PROVE  \A i \in 0..Len(q) : IsRead(f[i])
<1> DEFINE S == {i \in 0..Len(q) : IsRead(f[i])}
<1>0. Len(q) \in Nat
  OBVIOUS
<1>1. 0 \in S
  BY UnreadIsRead DEF TagLoop
<1>2. \A i \in 1..Len(q) : i - 1 \in S => i \in S
  BY ReadIsRead DEF TagLoop
<1>3. \A i \in 0..Len(q) : i \in S
  <2> HIDE DEF S
  <2> QED BY <1>0, <1>1, <1>2, UpTo
<1> QED BY <1>3

\* Whatever places are read, a spec in the making comes of it.
LEMMA PlacesAreRead ==
  ASSUME NEW nomad, NEW X, NEW q \in Seq(X), NEW h, ReadOf(h, nomad, q),
         NEW D \in SUBSET (1..Len(q))
  PROVE  IsRead(h[D])
<1> DEFINE L == Len(q)
           S == {k \in 0..L : \A E \in SUBSET (1..k) : IsRead(h[E])}
<1>1. L \in Nat
  OBVIOUS
<1>2. IsRead(h[{}])
  BY UnreadIsRead DEF ReadOf
<1> HIDE DEF L
<1>3. 0 \in S
  <2>1. \A E \in SUBSET (1..0) : E = {}
    OBVIOUS
  <2>2. \A E \in SUBSET (1..0) : IsRead(h[E])
    BY <1>2, <2>1
  <2> QED BY <1>1, <2>2
<1>4. ASSUME NEW k \in 1..L, k - 1 \in S PROVE k \in S
  <2>1. ASSUME NEW E \in SUBSET (1..k) PROVE IsRead(h[E])
    <3>1. CASE k \notin E
      <4>1. E \in SUBSET (1..(k - 1))
        BY <3>1
      <4> QED BY <1>4, <4>1
    <3>2. CASE k \in E
      <4>1. E \ {k} \in SUBSET (1..(k - 1)) /\ E \in SUBSET (1..L)
        BY <1>1
      <4>2. IsRead(h[E \ {k}])
        BY <1>4, <4>1
      <4>3. Max(E) = k
        BY <3>2, GreatestIs
      <4>4. h[E] = Read(nomad, h[E \ {k}], q[k])
        BY <3>2, <4>1, <4>3 DEF ReadOf, L
      <4> QED BY <4>2, <4>4, ReadIsRead
    <3> QED BY <3>1, <3>2
  <2> QED BY <1>1, <2>1
<1>5. \A k \in 0..L : k \in S
  <2> HIDE DEF S
  <2> QED BY <1>1, <1>3, <1>4, UpTo
<1>6. L \in S
  BY <1>1, <1>5
<1> QED BY <1>6 DEF L

\* A tag may be read after later ones that it does not conflict with.
LEMMA ReadLater ==
  ASSUME NEW nomad, NEW X, NEW q \in Seq(X), NEW h, ReadOf(h, nomad, q),
         NEW D \in SUBSET (1..Len(q)), NEW m \in 1..Len(q), m \notin D,
         \A d \in D : d > m => ~Conflict(q[d], q[m])
  PROVE  h[D \cup {m}] = Read(nomad, h[D], q[m])
<1> DEFINE L == Len(q)
           Fine(E) == m \notin E /\ (\A d \in E : d > m => ~Conflict(q[d], q[m]))
           Moved(E) == h[E \cup {m}] = Read(nomad, h[E], q[m])
           S == {k \in 0..L : \A E \in SUBSET (1..k) : Fine(E) => Moved(E)}
<1>1. L \in Nat /\ m \in 1..L
  OBVIOUS
<1>2. \A E \in SUBSET (1..L) : E # {} =>
         h[E] = Read(nomad, h[E \ {Max(E)}], q[Max(E)])
  BY DEF ReadOf
<1>3. \A E \in SUBSET (1..L) : IsRead(h[E])
  BY PlacesAreRead
<1> HIDE DEF L
<1>4. ASSUME NEW E \in SUBSET (1..m), m \notin E PROVE Moved(E)
  <2>1. /\ E \cup {m} \in SUBSET (1..m) /\ m \in E \cup {m}
        /\ E \cup {m} \in SUBSET (1..L) /\ (E \cup {m}) \ {m} = E
    BY <1>1, <1>4
  <2>2. Max(E \cup {m}) = m
    BY <1>1, <2>1, GreatestIs
  <2> QED BY <1>2, <2>1, <2>2
<1>5. 0 \in S
  <2>1. \A E \in SUBSET (1..0) : E \in SUBSET (1..m)
    BY <1>1
  <2> HIDE DEF Moved
  <2> QED BY <1>1, <1>4, <2>1
<1>6. ASSUME NEW k \in 1..L, k - 1 \in S PROVE k \in S
  <2>1. ASSUME NEW E \in SUBSET (1..k), Fine(E) PROVE Moved(E)
    <3>1. CASE k \notin E
      <4>1. E \in SUBSET (1..(k - 1))
        BY <3>1
      <4> HIDE DEF Fine, Moved
      <4> QED BY <1>6, <2>1, <4>1
    <3>2. CASE k \in E /\ k =< m
      <4>1. E \in SUBSET (1..m)
        BY <1>1, <3>2
      <4> HIDE DEF Moved
      <4> QED BY <1>4, <2>1, <4>1
    <3>3. CASE k \in E /\ k > m
      <4> DEFINE F == E \ {k}
      <4>1. /\ F \in SUBSET (1..(k - 1)) /\ F \in SUBSET (1..L)
            /\ E \in SUBSET (1..L) /\ E \cup {m} \in SUBSET (1..L)
            /\ E \cup {m} \in SUBSET (1..k) /\ k \in E \cup {m}
            /\ (E \cup {m}) \ {k} = F \cup {m}
        BY <1>1, <3>3
      <4>2. Fine(F)
        BY <2>1
      <4>3. Moved(F)
        <5> HIDE DEF Fine, Moved, F
        <5> QED BY <1>6, <4>1, <4>2
      <4>4. Max(E) = k /\ Max(E \cup {m}) = k
        BY <3>3, <4>1, GreatestIs
      <4>5. ~Conflict(q[k], q[m])
        BY <2>1, <3>3
      <4>6. /\ h[E] = Read(nomad, h[F], q[k])
            /\ h[E \cup {m}] = Read(nomad, h[F \cup {m}], q[k])
        BY <1>2, <3>3, <4>1, <4>4
      <4>7. Read(nomad, Read(nomad, h[F], q[k]), q[m]) =
              Read(nomad, Read(nomad, h[F], q[m]), q[k])
        <5> HIDE DEF F
        <5> QED BY <1>3, <4>1, <4>5, ReadsCommute
      <4> HIDE DEF F
      <4> QED BY <4>3, <4>6, <4>7
    <3> QED BY <3>1, <3>2, <3>3
  <2> HIDE DEF Fine, Moved
  <2> QED BY <1>1, <2>1
<1>7. \A k \in 0..L : k \in S
  <2> HIDE DEF S
  <2> QED BY <1>1, <1>5, <1>6, UpTo
<1>8. L \in S
  <2> HIDE DEF S
  <2> QED BY <1>1, <1>7
<1>9. Moved(D)
  <2>1. Fine(D) /\ D \in SUBSET (1..L)
    BY DEF L
  <2> HIDE DEF Fine, Moved
  <2> QED BY <1>8, <2>1
<1> QED BY <1>9

-----------------------------------------------------------------------------
(* Tags in another order.                                                  *)

\* The tags of q in the order of pi, a permutation of its places.
InOrder(q, pi) == [i \in 1..Len(q) |-> q[pi[i]]]

\* Tags that conflict stay in their order.
Keeps(q, pi) ==
  \A i, j \in 1..Len(q) : i < j /\ pi[i] > pi[j] =>
     ~Conflict(q[pi[i]], q[pi[j]])

(***************************************************************************)
(* The tags of a service may be written in any order in which those that   *)
(* decide the same thing, two values of one tag or two protocols of one    *)
(* port, keep theirs: parseTags reads the same, whatever their number and  *)
(* whatever their values parse to.                                         *)
(***************************************************************************)
THEOREM AnyOrder ==
  ASSUME NEW nomad, NEW X, NEW q \in Seq(X),
         NEW pi \in Bijection(1..Len(q), 1..Len(q)), Keeps(q, pi)
  PROVE  ParseTags(nomad, InOrder(q, pi)) = ParseTags(nomad, q)
<1> DEFINE L == Len(q)
           r == InOrder(q, pi)
           D(i) == {pi[j] : j \in 1..i}
<1>1. /\ L \in Nat /\ pi \in [1..L -> 1..L]
      /\ \A i, j \in 1..L : pi[i] = pi[j] => i = j
      /\ \A k \in 1..L : \E i \in 1..L : pi[i] = k
  BY DEF Bijection, Injection, Surjection, IsInjective
<1>2. r \in Seq(X) /\ Len(r) = L /\ \A i \in 1..L : r[i] = q[pi[i]]
  <2>1. /\ r = [i \in 1..L |-> q[pi[i]]]
        /\ \A k \in 1..L : q[k] \in X
    BY DEF InOrder
  <2>2. \A i \in 1..L : q[pi[i]] \in X
    BY <1>1, <2>1
  <2> HIDE DEF r, L
  <2> QED BY <1>1, <2>1, <2>2
<1>3. PICK h : ReadOf(h, nomad, q)
  BY ReadFold
<1>4. PICK g : TagLoop(g, nomad, r)
  BY <1>2, ParseFold
<1> HIDE DEF r
<1> DEFINE S == {i \in 0..L : g[i] = h[D(i)]}
<1>5. 0 \in S
  <2>1. D(0) = {}
    OBVIOUS
  <2> HIDE DEF D
  <2>2. g[0] = h[D(0)]
    BY <1>3, <1>4, <2>1 DEF ReadOf, TagLoop
  <2> QED BY <1>1, <2>2
<1>6. ASSUME NEW i \in 1..L, i - 1 \in S PROVE i \in S
  <2>1. /\ D(i - 1) \in SUBSET (1..L) /\ pi[i] \in 1..L
        /\ pi[i] \notin D(i - 1) /\ D(i) = D(i - 1) \cup {pi[i]}
    <3>1. /\ \A j \in 1..(i - 1) : j \in 1..L /\ j # i
          /\ 1..i = (1..(i - 1)) \cup {i} /\ i \in 1..L
      BY <1>1
    <3> DEFINE I == 1..(i - 1)
               J == 1..i
    <3>2. \A j \in I : pi[j] \in 1..L /\ pi[j] # pi[i]
      BY <1>1, <3>1
    <3>3. /\ D(i - 1) = {pi[j] : j \in I} /\ D(i) = {pi[j] : j \in J}
          /\ J = I \cup {i}
      BY <3>1
    <3>4. pi[i] \in 1..L
      BY <1>1, <3>1
    <3> HIDE DEF I, J, D, L
    <3> QED BY <3>2, <3>3, <3>4
  <2>2. \A d \in D(i - 1) : d > pi[i] => ~Conflict(q[d], q[pi[i]])
    <3>1. \A j \in 1..(i - 1) : j \in 1..L /\ j < i
      BY <1>1
    <3> QED BY <3>1 DEF Keeps
  <2>3. g[i] = Read(nomad, g[i - 1], q[pi[i]])
    BY <1>2, <1>4 DEF TagLoop
  <2>4. g[i - 1] = h[D(i - 1)]
    BY <1>6
  <2> HIDE DEF D
  <2>5. h[D(i - 1) \cup {pi[i]}] = Read(nomad, h[D(i - 1)], q[pi[i]])
    <3> DEFINE m == pi[i]
               E == D(i - 1)
    <3>1. /\ E \in SUBSET (1..Len(q)) /\ m \in 1..Len(q) /\ m \notin E
          /\ \A d \in E : d > m => ~Conflict(q[d], q[m])
      BY <2>1, <2>2
    <3> HIDE DEF m, E
    <3>2. h[E \cup {m}] = Read(nomad, h[E], q[m])
      BY <1>3, <3>1, ReadLater
    <3> QED BY <3>2 DEF m, E
  <2>6. g[i] = h[D(i)]
    BY <2>1, <2>3, <2>4, <2>5
  <2> QED BY <1>1, <2>6
<1>7. \A i \in 0..L : i \in S
  <2> HIDE DEF S
  <2> QED BY <1>1, <1>5, <1>6, UpTo
<1>8. g[L] = h[D(L)]
  <2> HIDE DEF D, L
  <2> QED BY <1>1, <1>7
<1>9. D(L) = 1..L
  <2>1. \A k \in 1..L : k \in D(L)
    BY <1>1
  <2>2. \A k \in D(L) : k \in 1..L
    BY <1>1
  <2> HIDE DEF D, L
  <2> QED BY <2>1, <2>2
<1> HIDE DEF D
<1> QED BY <1>2, <1>3, <1>4, <1>8, <1>9 DEF TagLoop, ReadOf, r

-----------------------------------------------------------------------------
(* Lists that differ in one place.                                         *)

\* From k on to m, f reads p and g reads q, which is the same d places on.
Lockstep(nomad, f, g, p, q, k, m, d) ==
  /\ \A i \in (k + 1)..m : f[i] = Read(nomad, f[i - 1], p[i])
  /\ \A i \in (k + 1)..m : g[i + d] = Read(nomad, g[i + d - 1], q[i + d])
  /\ \A i \in (k + 1)..m : p[i] = q[i + d]
  /\ f[k] = g[k + d]

\* Two loops that agree from some place on agree in the end.
LEMMA LoopsAgree ==
  ASSUME NEW nomad, NEW m \in Nat, NEW k \in 0..m, NEW f, NEW g, NEW p, NEW q,
         NEW d \in Nat, Lockstep(nomad, f, g, p, q, k, m, d)
  PROVE  f[m] = g[m + d]
<1> DEFINE S == {i \in 0..m : i >= k => f[i] = g[i + d]}
<1> USE DEF Lockstep
<1>1. 0 \in S
  OBVIOUS
<1>2. ASSUME NEW i \in 1..m, i - 1 \in S PROVE i \in S
  <2>1. CASE i =< k
    BY <2>1
  <2>2. CASE i > k
    <3>1. i \in (k + 1)..m /\ i - 1 >= k /\ (i - 1) + d = i + d - 1
      BY <2>2
    <3>2. f[i - 1] = g[i + d - 1]
      BY <1>2, <3>1
    <3> QED BY <3>1, <3>2
  <2> QED BY <2>1, <2>2
<1>3. \A i \in 0..m : i \in S
  <2> HIDE DEF S
  <2> QED BY <1>1, <1>2, UpTo
<1> QED BY <1>3

-----------------------------------------------------------------------------
(* The properties, of every list of tags.                                  *)

\* The list is made of the tags there are.
TagsTypeOK == tags \in Seq(TagSet)

LEMMA TagsTyped == TagSpec => []TagsTypeOK
<1>1. TagInit => TagsTypeOK
  BY DEF TagInit, TagsTypeOK
<1>2. TagsTypeOK /\ [TagNext]_tags => TagsTypeOK'
  BY DEF TagsTypeOK, TagNext, Write
<1> QED BY <1>1, <1>2, PTL DEF TagSpec

(***************************************************************************)
(* Two neighbours that decide different things may change places.          *)
(***************************************************************************)
THEOREM OrderDoesNotMatter == TagSpec => []OrderFree
<1>1. TagsTypeOK => OrderFree
  <2> SUFFICES ASSUME TagsTypeOK, NEW i \in 1..(Len(tags) - 1),
                      ~Conflict(tags[i], tags[i + 1])
               PROVE  ParseTags("nomad", Swapped(i)) = ParseTags("nomad", tags)
    BY DEF OrderFree
  <2> DEFINE L == Len(tags)
             pi == [j \in 1..L |-> IF j = i THEN i + 1
                                   ELSE IF j = i + 1 THEN i ELSE j]
  <2>1. L \in Nat /\ i \in 1..L /\ i + 1 \in 1..L /\ DOMAIN tags = 1..L
    BY DEF TagsTypeOK
  <2>2. Swapped(i) = InOrder(tags, pi)
    BY <2>1 DEF Swapped, InOrder, TagsTypeOK
  <2>3. pi \in Bijection(1..L, 1..L)
    <3>1. pi \in [1..L -> 1..L]
      BY <2>1
    <3>2. \A j \in 1..L : pi[pi[j]] = j
      BY <2>1
    <3> HIDE DEF pi, L
    <3> QED BY <3>1, <3>2 DEF Bijection, Injection, Surjection, IsInjective
  <2>4. Keeps(tags, pi)
    <3>1. ~Conflict(tags[i + 1], tags[i])
      BY DEF Conflict
    <3>2. \A j, k \in 1..L : j < k /\ pi[j] > pi[k] => j = i /\ k = i + 1
      BY <2>1
    <3>3. pi[i] = i + 1 /\ pi[i + 1] = i
      BY <2>1
    <3> HIDE DEF pi
    <3> QED BY <3>1, <3>2, <3>3 DEF Keeps
  <2> HIDE DEF pi
  <2> QED BY <2>2, <2>3, <2>4, AnyOrder DEF TagsTypeOK
<1> QED BY <1>1, TagsTyped, PTL

(***************************************************************************)
(* A tag that is ignored with a warning (tags.go:83) changes nothing,      *)
(* wherever it stands in a list of any length.                             *)
(***************************************************************************)
THEOREM IgnoredChangesNothing == TagSpec => []InvalidIgnored
<1>1. TagsTypeOK => InvalidIgnored
  <2> SUFFICES ASSUME TagsTypeOK, NEW i \in DOMAIN tags, ~Valid(tags[i])
               PROVE  ParseTags("nomad", RemoveAt(tags, i)) =
                        ParseTags("nomad", tags)
    BY DEF InvalidIgnored
  <2> DEFINE L == Len(tags)
             q == RemoveAt(tags, i)
  <2>1. L \in Nat /\ i \in 1..L /\ DOMAIN tags = 1..L
    BY DEF TagsTypeOK
  <2>2. /\ q \in Seq(TagSet) /\ Len(q) = L - 1
        /\ \A j \in 1..(i - 1) : q[j] = tags[j]
        /\ \A j \in i..(L - 1) : q[j] = tags[j + 1]
    <3> DEFINE a == SubSeq(tags, 1, i - 1)
               b == SubSeq(tags, i + 1, Len(tags))
    <3>1. /\ a \in Seq(TagSet) /\ Len(a) = i - 1
          /\ \A j \in 1..(i - 1) : a[j] = tags[j]
      BY <2>1 DEF TagsTypeOK
    <3>2. /\ b \in Seq(TagSet) /\ Len(b) = L - i
          /\ \A j \in 1..(L - i) : b[j] = tags[i + j]
      BY <2>1 DEF TagsTypeOK
    <3>3. q = a \o b
      BY DEF RemoveAt
    <3> HIDE DEF a, b, q, L
    <3>4. q \in Seq(TagSet) /\ Len(q) = L - 1
      <4>1. q \in Seq(TagSet)
        BY <3>1, <3>2, <3>3
      <4>2. Len(q) = Len(a) + Len(b)
        BY <3>1, <3>2, <3>3, ConcatProperties
      <4> QED BY <2>1, <3>1, <3>2, <4>1, <4>2
    <3>5. ASSUME NEW j \in 1..(i - 1) PROVE q[j] = tags[j]
      BY <2>1, <3>1, <3>2, <3>3
    <3>6. ASSUME NEW j \in i..(L - 1) PROVE q[j] = tags[j + 1]
      <4>1. j - (i - 1) \in 1..(L - i) /\ j \in 1..(Len(a) + Len(b))
        BY <2>1, <3>1, <3>2
      <4>2. q[j] = b[j - (i - 1)]
        BY <2>1, <3>1, <3>2, <3>3, <4>1
      <4>3. i + (j - (i - 1)) = j + 1
        BY <2>1
      <4> QED BY <3>2, <4>1, <4>2, <4>3
    <3> QED BY <3>4, <3>5, <3>6
  <2>3. PICK f : TagLoop(f, "nomad", tags)
    BY ParseFold DEF TagsTypeOK
  <2>4. PICK g : TagLoop(g, "nomad", q)
    BY <2>2, ParseFold
  <2> HIDE DEF q, L
  <2>5. g[i - 1] = f[i - 1 + 0]
    <3>1. i - 1 \in Nat /\ 0 \in 0..(i - 1)
      BY <2>1
    <3>2. \A j \in (0 + 1)..(i - 1) : /\ j \in 1..L /\ j \in 1..(L - 1)
                                      /\ q[j] = tags[j + 0] /\ j + 0 = j
      BY <2>1, <2>2
    <3>3. g[0] = f[0 + 0]
      BY <2>3, <2>4 DEF TagLoop
    <3>4. \A j \in (0 + 1)..(i - 1) : g[j] = Read("nomad", g[j - 1], q[j])
      BY <3>2, <2>2, <2>4 DEF TagLoop, L
    <3>5. \A j \in (0 + 1)..(i - 1) :
             f[j + 0] = Read("nomad", f[j + 0 - 1], tags[j + 0])
      BY <3>2, <2>3 DEF TagLoop, L
    <3>6. Lockstep("nomad", g, f, q, tags, 0, i - 1, 0)
      BY <3>2, <3>3, <3>4, <3>5 DEF Lockstep
    <3> QED BY <3>1, <3>6, LoopsAgree
  <2>6. g[i - 1] = f[i - 1 + 1]
    <3>1. f[i] = Read("nomad", f[i - 1], tags[i])
      BY <2>1, <2>3 DEF TagLoop, L
    <3>2. IsRead(f[i - 1])
      <4>1. \A j \in 0..L : IsRead(f[j])
        BY <2>3, LoopIsRead DEF TagsTypeOK, L
      <4>2. i - 1 \in 0..L
        BY <2>1
      <4> QED BY <4>1, <4>2
    <3>3. f[i] = f[i - 1]
      BY <3>1, <3>2, InvalidDecidesNothing
    <3> QED BY <2>1, <2>5, <3>3
  <2>7. g[L - 1] = f[L - 1 + 1]
    <3>1. \A j \in (i - 1 + 1)..(L - 1) :
             /\ j \in i..(L - 1) /\ j \in 1..(L - 1) /\ j + 1 \in 1..L
             /\ q[j] = tags[j + 1]
      BY <2>1, <2>2
    <3>2. L - 1 \in Nat /\ i - 1 \in 0..(L - 1)
      BY <2>1
    <3>3. \A j \in (i - 1 + 1)..(L - 1) : g[j] = Read("nomad", g[j - 1], q[j])
      BY <3>1, <2>2, <2>4 DEF TagLoop, L
    <3>4. \A j \in (i - 1 + 1)..(L - 1) :
             f[j + 1] = Read("nomad", f[j + 1 - 1], tags[j + 1])
      BY <3>1, <2>3 DEF TagLoop, L
    <3>5. Lockstep("nomad", g, f, q, tags, i - 1, L - 1, 1)
      BY <2>6, <3>1, <3>3, <3>4 DEF Lockstep
    <3> QED BY <3>2, <3>5, LoopsAgree
  <2>8. g[L - 1] = f[L]
    BY <2>1, <2>7
  <2> QED BY <2>2, <2>3, <2>4, <2>8 DEF TagLoop, L, q
<1> QED BY <1>1, TagsTyped, PTL
=============================================================================
