-------------------------- MODULE ServiceCacheProof --------------------------
(***************************************************************************)
(* Proofs about ServiceCache, for every set of registrations and services, *)
(* every channel capacity, every backlog and every bound.                  *)
(***************************************************************************)
EXTENDS ServiceCache, TLAPS

USE RegAssumption, FramesAssumption, CapAssumption, BacklogsAssumption,
    BoundsAssumption
USE DEF mainFrame, watcherFrame, nomadVars, watcherVars, cacheVars, snapVars,
        budgetVars

-----------------------------------------------------------------------------
(* Type correctness.                                                       *)

LEMMA InitType == Init => TypeOK
<1> SUFFICES ASSUME Init PROVE TypeOK
  OBVIOUS
<1>1. Len(log) = 0 /\ log \in Seq(Frames)
  BY DEF Init
<1>2. Empty \in Rows
  BY <1>1 DEF Empty, Rows
<1>3. NomadType /\ WatcherType
  BY <1>1, <1>2 DEF Init, NomadType, WatcherType
<1>4. ChannelType
  BY DEF Init, ChannelType
<1>5. RowsType
  BY <1>1, <1>2 DEF Init, RowsType
<1>6. MainType
  BY DEF Init, MainType
<1>7. FlagsType
  BY DEF Init, FlagsType
<1> QED
  BY <1>3, <1>4, <1>5, <1>6, <1>7 DEF TypeOK

\* Applying a frame to well-formed rows gives well-formed rows.
LEMMA ApplyType ==
    ASSUME NEW c \in Rows, NEW i \in 1..Len(log), NomadType
    PROVE  Apply(c, i) \in Rows
BY DEF Apply, Rows, Frame, Ops, NomadType

\* Nomad's history only grows, and only Change touches it.
LEMMA LogGrows ==
    ASSUME NomadType, [Next]_vars
    PROVE  /\ NomadType'
           /\ Len(log) =< Len(log')
           /\ \A i \in 1..Len(log) : log'[i] = log[i]
           /\ (\E f \in Frames : Change(f)) \/ UNCHANGED nomadVars
<1>1. ASSUME NEW f \in Frames, Change(f)
      PROVE  /\ Len(log') = Len(log) + 1 /\ log' \in Seq(Frames)
             /\ \A i \in 1..Len(log) : log'[i] = log[i]
             /\ Len(log') =< MaxIndex
  BY <1>1 DEF Change, NomadType
<1>2. ASSUME NEW f \in Frames, Change(f) PROVE catalog' \in Rows'
  BY <1>1, <1>2 DEF Change, NomadType, Rows, Frame, Ops
<1>3. (\E f \in Frames : Change(f)) \/ UNCHANGED nomadVars
  BY DEF Next, vars, Exited, Watcher, Reconnect, Connect, ConnectFails,
         Deliver, Break, SendRepair, Receive, EndDebounce, RetryPass,
         IntervalPass, StartRepair, CachedPass, Gather, List, Get, GatherFail,
         GatherRejected, Finish, ReplayOne, DrainOne, Install, Resend
<1>4. CASE UNCHANGED nomadVars
  BY <1>4 DEF NomadType, Rows
<1> QED
  BY <1>1, <1>2, <1>3, <1>4 DEF NomadType

\* A row, an index and a queue stay well formed while the log grows.
LEMMA Widen ==
    ASSUME NomadType, [Next]_vars
    PROVE  /\ Rows \subseteq Rows'
           /\ 0..Len(log) \subseteq 0..Len(log')
           /\ Seq(0..Len(log)) \subseteq Seq(0..Len(log'))
           /\ Seq(1..Len(log)) \subseteq Seq(1..Len(log'))
<1>1. Len(log) \in Nat /\ Len(log') \in Nat /\ Len(log) =< Len(log')
  BY LogGrows DEF NomadType
<1>2. 0..Len(log) \subseteq 0..Len(log') /\ 1..Len(log) \subseteq 1..Len(log')
  BY <1>1
<1>3. \A S, T : S \subseteq T => Seq(S) \subseteq Seq(T)
  OBVIOUS
<1>4. Rows \subseteq Rows'
  BY <1>2 DEF Rows
<1> QED
  BY <1>2, <1>3, <1>4

LEMMA WatcherStep ==
    ASSUME TypeOK, [Next]_vars
    PROVE  WatcherType'
<1>1. /\ Len(log) \in Nat /\ Len(log') \in Nat /\ Len(log) =< Len(log')
      /\ cursor \in 0..Len(log) /\ from \in 0..Len(log)
      /\ WatcherType
  BY LogGrows DEF TypeOK, NomadType, WatcherType
<1>2. ASSUME NEW b \in Backlogs, Connect(b) PROVE WatcherType'
  BY <1>1, <1>2 DEF Connect, Older, WatcherType
<1>3. CASE ConnectFails \/ Break \/ SendRepair
  BY <1>1, <1>3 DEF ConnectFails, Break, SendRepair, WatcherType
<1>4. CASE Deliver
  BY <1>1, <1>4 DEF Deliver, WatcherType
<1>5. CASE UNCHANGED <<stream, cursor, breaks, from>>
  BY <1>1, <1>5 DEF WatcherType
<1> QED
  BY <1>2, <1>3, <1>4, <1>5
  DEF Next, vars, Exited, Change, Watcher, Reconnect, Receive, EndDebounce,
      RetryPass, IntervalPass, StartRepair, CachedPass, Gather, List, Get,
      GatherFail, GatherRejected, Finish, ReplayOne, DrainOne, Install, Resend

\* What the main loop takes from the channel or the replay.
LEMMA HeadType ==
    ASSUME ChannelType, NomadType
    PROVE  /\ queue # <<>> => /\ Head(queue) \in 0..Len(log)
                              /\ Tail(queue) \in Seq(0..Len(log))
                              /\ Len(Tail(queue)) =< Cap
           /\ replay # <<>> => /\ Head(replay) \in 1..Len(log)
                               /\ Tail(replay) \in Seq(1..Len(log))
BY DEF ChannelType, NomadType

LEMMA ChannelStep ==
    ASSUME TypeOK, [Next]_vars
    PROVE  ChannelType'
<1> DEFINE Q == Seq(0..Len(log))
           R == Seq(1..Len(log))
           Good(q, r) == q \in Q /\ Len(q) =< Cap /\ r \in R
<1>1. Good(queue, replay) /\ NomadType /\ ChannelType
  BY DEF TypeOK, ChannelType
<1>2. Good(queue', replay') => ChannelType'
  BY <1>1, Widen DEF ChannelType
<1>3. CASE Deliver \/ SendRepair \/ Resend
  <2>1. Len(queue) < Cap => \A i \in 0..Len(log) : Good(Append(queue, i), replay)
    BY <1>1
  <2>2. Deliver => cursor + 1 \in 0..Len(log)
    BY DEF Deliver, TypeOK, WatcherType, NomadType
  <2>3. 0 \in 0..Len(log)
    BY <1>1 DEF NomadType
  <2> HIDE DEF Good
  <2> QED
    BY <1>1, <1>2, <1>3, <2>1, <2>2, <2>3 DEF Deliver, SendRepair, Resend
<1>4. CASE Receive
  <2>1. Head(queue) # 0 => Append(replay, Head(queue)) \in R
    BY <1>1, <1>4, HeadType DEF Receive
  <2> QED
    BY <1>1, <1>2, <1>4, <2>1, HeadType DEF Receive
<1>5. CASE EndDebounce \/ GatherFail
  <2>1. queue' = queue /\ replay' \in {replay, <<>>}
    BY <1>5 DEF EndDebounce, GatherFail
  <2>2. Good(queue, <<>>)
    BY <1>1
  <2> HIDE DEF Good
  <2> QED
    BY <1>1, <1>2, <2>1, <2>2
<1>6. CASE ReplayOne
  BY <1>1, <1>2, <1>6, HeadType DEF ReplayOne
<1>7. CASE DrainOne
  BY <1>1, <1>2, <1>7, HeadType DEF DrainOne
<1>8. CASE UNCHANGED <<queue, replay>>
  BY <1>1, <1>2, <1>8
<1> QED
  BY <1>3, <1>4, <1>5, <1>6, <1>7, <1>8
  DEF Next, vars, Exited, Change, Watcher, Reconnect, Connect, ConnectFails,
      Break, RetryPass, IntervalPass, StartRepair, CachedPass, Gather, List,
      Get, GatherRejected, Finish, Install

LEMMA RowsStep ==
    ASSUME TypeOK, [Next]_vars
    PROVE  RowsType'
<1> DEFINE L == 0..Len(log)
           Good(c, a, v, s, sa, li) ==
               /\ c \in Rows /\ v \in Rows /\ s \in Rows
               /\ a \in L /\ sa \in L /\ li \in L
<1>1. /\ Good(cache, asOf, served, snap, snapAsOf, listed)
      /\ NomadType /\ ChannelType /\ RowsType
  BY DEF TypeOK, RowsType
<1>2. ASSUME Good(cache', asOf', served', snap', snapAsOf', listed')
      PROVE  RowsType'
  BY <1>1, <1>2, Widen DEF RowsType
<1>3. Empty \in Rows /\ 0 \in L /\ Len(log) \in L /\ catalog \in Rows
  BY <1>1 DEF Empty, Rows, NomadType
<1>4. \A i, j : i \in L /\ j \in L => Older(i, j) \in L
  BY DEF Older
<1>5. CASE Receive
  <2>1. Head(queue) \in L
        /\ (Head(queue) # 0 => Apply(cache, Head(queue)) \in Rows)
    BY <1>1, <1>5, HeadType, ApplyType DEF Receive
  <2> QED
    BY <1>1, <1>2, <1>4, <1>5, <2>1 DEF Receive
<1>6. CASE List \/ GatherFail \/ GatherRejected
  BY <1>1, <1>2, <1>3, <1>6 DEF List, GatherFail, GatherRejected, NoSnapshot
<1>7. ASSUME NEW s \in toGet, Get(s) PROVE RowsType'
  <2>1. snap' \in Rows
    BY <1>1, <1>3, <1>7 DEF Get, Rows
  <2> QED
    BY <1>1, <1>2, <1>7, <2>1 DEF Get
<1>8. CASE ReplayOne
  <2>1. Head(replay) \in L /\ Apply(snap, Head(replay)) \in Rows
    BY <1>1, <1>8, HeadType, ApplyType DEF ReplayOne
  <2> QED
    BY <1>1, <1>2, <1>4, <1>8, <2>1 DEF ReplayOne, ApplyToSnap
<1>9. CASE DrainOne
  <2>1. Head(queue) \in L
        /\ (Head(queue) # 0 => Apply(snap, Head(queue)) \in Rows)
    BY <1>1, <1>9, HeadType, ApplyType DEF DrainOne
  <2> QED
    BY <1>1, <1>2, <1>4, <1>9, <2>1 DEF DrainOne, ApplyToSnap
<1>10. CASE Install \/ Resend
  BY <1>1, <1>2, <1>3, <1>10 DEF Install, Resend, Finished, NoSnapshot
<1>11. CASE EndDebounce \/ CachedPass
  BY <1>1, <1>2, <1>11 DEF EndDebounce, CachedPass
<1>12. CASE UNCHANGED <<cache, asOf, served, snap, snapAsOf, listed>>
  BY <1>1, <1>2, <1>12
<1> QED
  BY <1>5, <1>6, <1>7, <1>8, <1>9, <1>10, <1>11, <1>12
  DEF Next, vars, Exited, Change, Watcher, Reconnect, Connect, ConnectFails,
      Deliver, Break, SendRepair, RetryPass, IntervalPass, StartRepair, Gather,
      Finish

LEMMA MainStep ==
    ASSUME TypeOK, [Next]_vars
    PROVE  MainType'
<1>1. MainType
  BY DEF TypeOK
<1>2. CASE Receive \/ EndDebounce
  BY <1>1, <1>2 DEF Receive, EndDebounce, MainType
<1>3. CASE RetryPass \/ IntervalPass
  BY <1>1, <1>3 DEF RetryPass, IntervalPass, StartRepair, MainType
<1>4. CASE List
  BY <1>1, <1>4 DEF List, MainType
<1>5. ASSUME NEW s \in toGet, Get(s) PROVE MainType'
  BY <1>1, <1>5 DEF Get, MainType
<1>6. CASE GatherFail \/ GatherRejected
  BY <1>1, <1>6 DEF GatherFail, GatherRejected, NoSnapshot, MainType
<1>7. CASE ReplayOne \/ DrainOne
  BY <1>1, <1>7 DEF ReplayOne, DrainOne, ApplyToSnap, MainType
<1>8. CASE Install \/ Resend
  BY <1>1, <1>8 DEF Install, Resend, Finished, NoSnapshot, MainType
<1>9. CASE UNCHANGED <<pc, toGet, failures>>
  BY <1>1, <1>9 DEF MainType
<1> QED
  BY <1>2, <1>3, <1>4, <1>5, <1>6, <1>7, <1>8, <1>9
  DEF Next, vars, Exited, Change, Watcher, Reconnect, Connect, ConnectFails,
      Deliver, Break, SendRepair, CachedPass, Gather, Finish

LEMMA FlagsStep ==
    ASSUME TypeOK, [Next]_vars
    PROVE  FlagsType'
<1>1. FlagsType
  BY DEF TypeOK
<1>2. \A i \in 1..Len(log) : log[i].malformed \in BOOLEAN
  BY DEF TypeOK, NomadType, Frame
<1>3. CASE Receive
  <2>1. Head(queue) # 0 => log[Head(queue)].malformed \in BOOLEAN
    BY <1>2, <1>3, HeadType DEF Receive, TypeOK
  <2>2. repair' \in BOOLEAN
    BY <1>1, <1>3, <2>1 DEF Receive, FlagsType
  <2> QED
    BY <1>1, <1>3, <2>2 DEF Receive, FlagsType
<1>4. CASE List \/ GatherFail \/ GatherRejected
  BY <1>1, <1>4 DEF List, GatherFail, GatherRejected, NoSnapshot, FlagsType
<1>5. CASE ReplayOne
  <2>1. again' \in BOOLEAN
    BY <1>1, <1>2, <1>5, HeadType
    DEF ReplayOne, ApplyToSnap, FlagsType, TypeOK
  <2> QED
    BY <1>1, <1>5, <2>1 DEF ReplayOne, FlagsType
<1>6. CASE DrainOne
  <2>1. Head(queue) # 0 => log[Head(queue)].malformed \in BOOLEAN
    BY <1>2, <1>6, HeadType DEF DrainOne, TypeOK
  <2>2. again' \in BOOLEAN
    BY <1>1, <1>6, <2>1 DEF DrainOne, ApplyToSnap, FlagsType
  <2> QED
    BY <1>1, <1>6, <2>2 DEF DrainOne, FlagsType
<1>7. CASE Install
  BY <1>1, <1>7 DEF Install, Finished, NoSnapshot, FlagsType
<1>8. CASE Resend
  BY <1>1, <1>8 DEF Resend, Finished, FlagsType
<1>9. CASE UNCHANGED <<repair, again, retry, lostRepair>>
  BY <1>1, <1>9 DEF FlagsType
<1> QED
  BY <1>3, <1>4, <1>5, <1>6, <1>7, <1>8, <1>9
  DEF Next, vars, Exited, Change, Watcher, Reconnect, Connect, ConnectFails,
      Deliver, Break, SendRepair, EndDebounce, RetryPass, IntervalPass,
      StartRepair, CachedPass, Gather, Get, Finish

LEMMA TypeStep == TypeOK /\ [Next]_vars => TypeOK'
BY LogGrows, WatcherStep, ChannelStep, RowsStep, MainStep, FlagsStep
DEF TypeOK

\* Every reachable state of ServiceCache is well formed.
THEOREM TypeCorrect == Spec => []TypeOK
BY InitType, TypeStep, PTL DEF Spec

-----------------------------------------------------------------------------
(* The inductive invariant: what Apply does to rows.                       *)

LEMMA ApplyUntouched ==
    ASSUME NomadType, NEW c \in Rows, NEW i \in 1..Len(log), NEW r \in Reg,
           log[i].op[r] = "unchanged" \/ r \in log[i].skipped
    PROVE  Apply(c, i)[r] = c[r]
BY DEF Apply, NomadType, Frame, Ops

LEMMA ApplyKnown ==
    ASSUME NomadType, NEW c \in Rows, Known(c), NEW i \in 1..Len(log)
    PROVE  Known(Apply(c, i))
<1> SUFFICES ASSUME NEW r \in Reg, Apply(c, i)[r] # 0
             PROVE  log[Apply(c, i)[r]].op[r] \in {"enabled", "disabled"}
  BY DEF Known
<1>1. \/ Apply(c, i)[r] = c[r]
      \/ Apply(c, i)[r] = i /\ log[i].op[r] = "enabled"
  BY DEF Apply
<1> QED
  BY <1>1 DEF Known

\* The last frame of r, once applied, makes the row of r right.
LEMMA ApplyLast ==
    ASSUME NomadType, CatalogCurrent, NEW c \in Rows, Known(c),
           NEW i \in 1..Len(log), NEW r \in Reg, IsLast(r, i),
           r \notin log[i].skipped
    PROVE  Right(Apply(c, i), r)
<1>1. c[r] \in 0..i
  <2>1. c[r] \in 0..Len(log) /\ Len(log) \in Nat
    BY DEF Rows, NomadType
  <2>2. c[r] # 0 => log[c[r]].op[r] # "unchanged"
    BY DEF Known
  <2>3. c[r] > i => log[c[r]].op[r] = "unchanged"
    BY <2>1 DEF IsLast
  <2> QED
    BY <2>1, <2>2, <2>3
<1>2. log[i].op[r] \in {"enabled", "disabled", "deregistered"}
  BY DEF IsLast, NomadType, Frame, Ops
<1>3. catalog[r] = IF log[i].op[r] = "deregistered" THEN 0 ELSE i
  BY DEF CatalogCurrent
<1>4. Apply(c, i)[r] = IF log[i].op[r] = "enabled" THEN i ELSE 0
  BY <1>1, <1>2 DEF Apply
<1> QED
  BY <1>2, <1>3, <1>4 DEF Right, Live, Enabled

\* No earlier frame spoils a right row, and neither does its own.
LEMMA ApplyKeepsRight ==
    ASSUME NomadType, CatalogCurrent, NEW c \in Rows, Known(c),
           NEW i \in 1..Len(log), NEW k \in 1..i, NEW r \in Reg,
           IsLast(r, k), Right(c, r)
    PROVE  Right(Apply(c, i), r)
<1>1. CASE k < i \/ r \in log[i].skipped
  <2>1. log[i].op[r] = "unchanged" \/ r \in log[i].skipped
    BY <1>1 DEF IsLast, NomadType
  <2>2. Apply(c, i)[r] = c[r]
    BY <2>1, ApplyUntouched
  <2> QED
    BY <2>2 DEF Right, Live, Enabled
<1>2. CASE k = i /\ r \notin log[i].skipped
  BY <1>2, ApplyLast
<1> QED
  BY <1>1, <1>2

-----------------------------------------------------------------------------
(* The inductive invariant: the catalog and the rows.                      *)

\* What a change of the catalog leaves of IsLast and of old rows.
LEMMA ChangeFacts ==
    ASSUME TypeOK, NEW f \in Frames, Change(f), NEW r \in Reg
    PROVE  /\ \A i \in 1..Len(log') : IsLast(r, i)' =>
                 \/ i = Len(log) + 1 /\ f.op[r] # "unchanged"
                 \/ /\ i \in 1..Len(log) /\ IsLast(r, i)
                    /\ catalog'[r] = catalog[r]
           /\ Len(log') = Len(log) + 1 /\ log'[Len(log) + 1] = f
           /\ \A c \in Rows : c[r] # 0 => log'[c[r]] = log[c[r]]
<1>1. /\ Len(log') = Len(log) + 1 /\ log'[Len(log) + 1] = f
      /\ Len(log) \in Nat
      /\ \A i \in 1..Len(log) : log'[i] = log[i]
  BY DEF Change, TypeOK, NomadType
<1>2. ASSUME NEW i \in 1..Len(log'), IsLast(r, i)'
      PROVE  \/ i = Len(log) + 1 /\ f.op[r] # "unchanged"
             \/ /\ i \in 1..Len(log) /\ IsLast(r, i)
                /\ catalog'[r] = catalog[r]
  <2>1. CASE i = Len(log) + 1
    BY <1>1, <1>2, <2>1 DEF IsLast
  <2>2. CASE i # Len(log) + 1
    <3>1. i \in 1..Len(log) /\ f.op[r] = "unchanged"
      BY <1>1, <1>2, <2>2 DEF IsLast
    <3>2. catalog'[r] = catalog[r]
      BY <3>1 DEF Change
    <3>3. IsLast(r, i)
      BY <1>1, <1>2, <3>1 DEF IsLast
    <3> QED
      BY <3>1, <3>2, <3>3
  <2> QED
    BY <2>1, <2>2
<1>3. \A c \in Rows : c[r] # 0 => log'[c[r]] = log[c[r]]
  BY <1>1 DEF Rows
<1> QED
  BY <1>1, <1>2, <1>3

LEMMA CatalogStep ==
    ASSUME TypeOK, Known(catalog), CatalogCurrent, [Next]_vars
    PROVE  Known(catalog)' /\ CatalogCurrent'
<1>1. ASSUME NEW f \in Frames, Change(f)
      PROVE  Known(catalog)' /\ CatalogCurrent'
  <2>1. catalog' = [r \in Reg |-> CASE f.op[r] = "unchanged"    -> catalog[r]
                                    [] f.op[r] = "deregistered" -> 0
                                    [] OTHER -> Len(log) + 1]
    BY <1>1 DEF Change
  <2>2. \A r \in Reg : f.op[r] \in Ops
    BY DEF Frame
  <2>3. Len(log) \in Nat /\ catalog \in Rows
    BY DEF TypeOK, NomadType
  <2>4. ASSUME NEW r \in Reg, catalog'[r] # 0
        PROVE  log'[catalog'[r]].op[r] \in {"enabled", "disabled"}
    <3>1. CASE f.op[r] = "unchanged"
      BY <1>1, <2>1, <2>3, <2>4, <3>1, ChangeFacts DEF Known
    <3>2. CASE f.op[r] # "unchanged"
      BY <1>1, <2>1, <2>2, <2>3, <2>4, <3>2, ChangeFacts DEF Ops
    <3> QED
      BY <3>1, <3>2
  <2>5. ASSUME NEW r \in Reg, NEW i \in 1..Len(log'), IsLast(r, i)'
        PROVE  catalog'[r] = IF log'[i].op[r] = "deregistered" THEN 0 ELSE i
    <3>1. CASE i = Len(log) + 1 /\ f.op[r] # "unchanged"
      BY <1>1, <2>1, <2>2, <2>3, <3>1, ChangeFacts DEF Ops
    <3>2. CASE /\ i \in 1..Len(log) /\ IsLast(r, i)
               /\ catalog'[r] = catalog[r]
      BY <3>2, LogGrows DEF CatalogCurrent, TypeOK
    <3> QED
      BY <1>1, <2>5, <3>1, <3>2, ChangeFacts
  <2> QED
    BY <2>4, <2>5 DEF Known, CatalogCurrent
<1>2. CASE UNCHANGED nomadVars
  BY <1>2 DEF Known, CatalogCurrent, IsLast
<1> QED
  BY <1>1, <1>2, LogGrows DEF TypeOK

LEMMA KnownStep ==
    ASSUME TypeOK, Known(catalog), Known(cache), Known(snap), [Next]_vars
    PROVE  Known(cache)' /\ Known(snap)'
<1>1. ASSUME NEW c \in Rows, Known(c), NEW r \in Reg, c[r] # 0
      PROVE  log'[c[r]].op[r] \in {"enabled", "disabled"}
  BY <1>1, LogGrows DEF Known, TypeOK, NomadType, Rows
<1>2. cache \in Rows /\ snap \in Rows /\ catalog \in Rows /\ Empty \in Rows
      /\ NomadType /\ Known(Empty)
  BY DEF TypeOK, NomadType, RowsType, Empty, Rows, Known
<1>3. \/ cache' \in {cache, snap}
      \/ \E i \in 1..Len(log) : cache' = Apply(cache, i)
  <2>1. CASE Receive
    BY <2>1, HeadType DEF Receive, TypeOK, NomadType
  <2> QED
    BY <2>1
    DEF Next, vars, Exited, Change, Watcher, Reconnect, Connect, ConnectFails,
        Deliver, Break, SendRepair, EndDebounce, RetryPass, IntervalPass,
        StartRepair, CachedPass, Gather, List, Get, GatherFail,
        GatherRejected, Finish, ReplayOne, DrainOne, Install, Resend
<1>4. \/ snap' \in {snap, Empty}
      \/ \E s \in toGet : Get(s)
      \/ \E i \in 1..Len(log) : snap' = Apply(snap, i)
  <2>1. CASE DrainOne
    BY <2>1, HeadType DEF DrainOne, ApplyToSnap, TypeOK, NomadType
  <2>2. CASE ReplayOne
    BY <2>2, HeadType DEF ReplayOne, ApplyToSnap, TypeOK
  <2> QED
    BY <2>1, <2>2
    DEF Next, vars, Exited, Change, Watcher, Reconnect, Connect, ConnectFails,
        Deliver, Break, SendRepair, Receive, EndDebounce, RetryPass,
        IntervalPass, StartRepair, CachedPass, Gather, List, GatherFail,
        GatherRejected, NoSnapshot, Finish, Install, Resend
<1>5. \A c \in Rows : Known(c) => \A i \in 1..Len(log) :
         Apply(c, i) \in Rows /\ Known(Apply(c, i))
  BY <1>2, ApplyType, ApplyKnown
<1>6. Known(cache)'
  <2>1. cache' \in Rows /\ Known(cache')
    BY <1>2, <1>3, <1>5
  <2> QED
    BY <1>1, <2>1 DEF Known
<1>7. ASSUME NEW s \in toGet, Get(s) PROVE Known(snap)'
  BY <1>1, <1>2, <1>7 DEF Get, Known
<1>8. ASSUME snap' \in Rows, Known(snap') PROVE Known(snap)'
  BY <1>1, <1>8 DEF Known
<1> QED
  BY <1>2, <1>4, <1>5, <1>6, <1>7, <1>8

-----------------------------------------------------------------------------
(* The inductive invariant: the order on the channel and in the replay.    *)

LEMMA RangeAppend ==
    ASSUME NEW S, NEW q \in Seq(S), NEW x \in S
    PROVE  Range(Append(q, x)) = Range(q) \union {x}
<1>1. \A n \in 1..Len(q) : Append(q, x)[n] = q[n]
  OBVIOUS
<1>2. /\ DOMAIN q = 1..Len(q) /\ DOMAIN Append(q, x) = 1..(Len(q) + 1)
      /\ Append(q, x)[Len(q) + 1] = x /\ Len(q) \in Nat
  OBVIOUS
<1> QED
  BY <1>1, <1>2 DEF Range

LEMMA TailFacts ==
    ASSUME NEW S, NEW q \in Seq(S), q # <<>>
    PROVE  /\ Len(q) \in Nat \ {0} /\ Len(Tail(q)) = Len(q) - 1
           /\ DOMAIN Tail(q) = 1..(Len(q) - 1) /\ DOMAIN q = 1..Len(q)
           /\ \A n \in 1..(Len(q) - 1) : Tail(q)[n] = q[n + 1]
           /\ Head(q) = q[1]
OBVIOUS

LEMMA RangeTail ==
    ASSUME NEW S, NEW q \in Seq(S), q # <<>>
    PROVE  Range(q) = Range(Tail(q)) \union {Head(q)}
<1>1. ASSUME NEW n \in 1..Len(q), n # 1
      PROVE  n - 1 \in DOMAIN Tail(q) /\ Tail(q)[n - 1] = q[n]
  BY <1>1, TailFacts
<1>2. ASSUME NEW x \in Range(q) PROVE x \in Range(Tail(q)) \union {Head(q)}
  <2>1. PICK n \in 1..Len(q) : x = q[n]
    BY DEF Range
  <2>2. CASE n = 1
    BY <2>1, <2>2, TailFacts
  <2>3. CASE n # 1
    BY <1>1, <2>1, <2>3 DEF Range
  <2> QED
    BY <2>2, <2>3
<1>3. \A x \in Range(Tail(q)) \union {Head(q)} : x \in Range(q)
  BY TailFacts DEF Range
<1> QED
  BY <1>2, <1>3

\* The head of the channel is followed by all later frames handed over.
LEMMA HeadFirst ==
    ASSUME TypeOK, QueueInOrder, queue # <<>>, Head(queue) # 0,
           NEW j \in 1..cursor, Head(queue) < j
    PROVE  j =< from \/ j \in Range(Tail(queue))
<1>1. queue \in Seq(0..Len(log))
  BY DEF TypeOK, ChannelType
<1>2. 1 \in DOMAIN queue /\ Head(queue) = queue[1]
  BY <1>1, TailFacts
<1>3. j =< from \/ \E m \in DOMAIN queue : m > 1 /\ queue[m] = j
  BY <1>2 DEF QueueInOrder
<1>4. ASSUME NEW m \in DOMAIN queue, m > 1, queue[m] = j
      PROVE  m - 1 \in DOMAIN Tail(queue) /\ Tail(queue)[m - 1] = j
  BY <1>1, <1>4, TailFacts
<1> QED
  BY <1>3, <1>4 DEF Range

\* The same of the replay, the channel being next.
LEMMA ReplayFirst ==
    ASSUME TypeOK, ReplayInOrder, replay # <<>>,
           NEW j \in 1..cursor, Head(replay) < j
    PROVE  j =< from \/ j \in Range(queue) \/ j \in Range(Tail(replay))
<1>1. replay \in Seq(1..Len(log))
  BY DEF TypeOK, ChannelType
<1>2. 1 \in DOMAIN replay /\ Head(replay) = replay[1]
  BY <1>1, TailFacts
<1>3. \/ j =< from \/ j \in Range(queue)
      \/ \E m \in DOMAIN replay : m > 1 /\ replay[m] = j
  BY <1>2 DEF ReplayInOrder
<1>4. ASSUME NEW m \in DOMAIN replay, m > 1, replay[m] = j
      PROVE  m - 1 \in DOMAIN Tail(replay) /\ Tail(replay)[m - 1] = j
  BY <1>1, <1>4, TailFacts
<1> QED
  BY <1>3, <1>4 DEF Range

\* What a step does to the channel: a new stream moves the cursor, the watcher
\* and Resend append, the main loop takes the head, nothing else touches it.
LEMMA ChannelMoves ==
    ASSUME [Next]_vars
    PROVE  \/ \E b \in Backlogs : Connect(b)
           \/ /\ queue' = Append(queue, cursor + 1)
              /\ cursor' = cursor + 1 /\ from' = from
           \/ queue' = Append(queue, 0) /\ cursor' = cursor /\ from' = from
           \/ /\ queue # <<>> /\ queue' = Tail(queue)
              /\ cursor' = cursor /\ from' = from
           \/ UNCHANGED <<queue, from, cursor>>
<1>1. CASE Watcher
  BY <1>1 DEF Watcher, Reconnect, ConnectFails, Deliver, Break, SendRepair
<1>2. CASE Receive
  BY <1>2 DEF Receive, mainFrame, watcherVars
<1>3. CASE DrainOne
  BY <1>3 DEF DrainOne, mainFrame, watcherVars
<1>4. CASE Resend
  BY <1>4 DEF Resend, mainFrame, watcherVars
<1>5. CASE ReplayOne \/ Install
  BY <1>5 DEF ReplayOne, Install, mainFrame, watcherVars
<1>6. CASE Gather
  BY <1>6 DEF Gather, List, Get, GatherFail, GatherRejected, mainFrame,
              watcherVars
<1>7. CASE EndDebounce \/ RetryPass \/ IntervalPass \/ CachedPass
  BY <1>7 DEF EndDebounce, RetryPass, IntervalPass, StartRepair, CachedPass,
              mainFrame, watcherVars
<1>8. CASE \E f \in Frames : Change(f)
  BY <1>8 DEF Change, watcherVars
<1>9. CASE Exited \/ UNCHANGED vars
  BY <1>9 DEF Exited, vars, watcherVars
<1> QED
  BY <1>1, <1>2, <1>3, <1>4, <1>5, <1>6, <1>7, <1>8, <1>9 DEF Next, Finish

LEMMA QueueOrderStep ==
    ASSUME TypeOK, QueueInOrder, [Next]_vars
    PROVE  QueueInOrder'
<1>1. /\ queue \in Seq(0..Len(log)) /\ cursor \in Nat /\ from \in Nat
      /\ DOMAIN queue = 1..Len(queue) /\ Len(queue) \in Nat
      /\ Len(log) \in Nat
  BY DEF TypeOK, ChannelType, WatcherType, NomadType
<1>2. ASSUME NEW b \in Backlogs, Connect(b) PROVE QueueInOrder'
  BY <1>1, <1>2 DEF Connect, Older, QueueInOrder
<1>3. ASSUME NEW x \in Nat, queue' = Append(queue, x), from' = from,
             \/ x = 0 /\ cursor' = cursor
             \/ x = cursor + 1 /\ cursor' = cursor + 1
      PROVE  QueueInOrder'
  <2>1. /\ DOMAIN queue' = 1..(Len(queue) + 1) /\ queue'[Len(queue) + 1] = x
        /\ \A n \in 1..Len(queue) : queue'[n] = queue[n]
    BY <1>1, <1>3
  <2>2. SUFFICES ASSUME NEW n \in DOMAIN queue', NEW j \in 1..cursor',
                        queue'[n] # 0, queue'[n] < j
                 PROVE  j =< from \/ \E m \in DOMAIN queue' :
                                        m > n /\ queue'[m] = j
    BY <1>3 DEF QueueInOrder
  <2>3. n \in DOMAIN queue
    BY <1>1, <1>3, <2>1, <2>2
  <2>4. CASE j \in 1..cursor
    BY <1>1, <2>1, <2>2, <2>3, <2>4 DEF QueueInOrder
  <2>5. CASE j = x
    BY <1>1, <2>1, <2>3, <2>5
  <2> QED
    BY <1>1, <1>3, <2>4, <2>5
<1>4. ASSUME queue # <<>>, queue' = Tail(queue), from' = from, cursor' = cursor
      PROVE  QueueInOrder'
  <2>1. SUFFICES ASSUME NEW n \in DOMAIN queue', NEW j \in 1..cursor,
                        queue'[n] # 0, queue'[n] < j, ~(j =< from)
                 PROVE  \E m \in DOMAIN queue' : m > n /\ queue'[m] = j
    BY <1>4 DEF QueueInOrder
  <2>2. n + 1 \in DOMAIN queue /\ queue[n + 1] = queue'[n]
    BY <1>1, <1>4, <2>1, TailFacts
  <2>3. PICK m \in DOMAIN queue : m > n + 1 /\ queue[m] = j
    BY <2>1, <2>2 DEF QueueInOrder
  <2>4. m - 1 \in DOMAIN queue' /\ queue'[m - 1] = j /\ m - 1 > n
    BY <1>1, <1>4, <2>1, <2>2, <2>3, TailFacts
  <2> QED
    BY <2>4
<1>5. CASE UNCHANGED <<queue, from, cursor>>
  BY <1>5 DEF QueueInOrder
<1> QED
  <2>1. CASE /\ queue' = Append(queue, cursor + 1)
             /\ cursor' = cursor + 1 /\ from' = from
    <3>1. cursor + 1 \in Nat
      BY <1>1
    <3> QED
      BY <1>3, <2>1, <3>1
  <2>2. CASE queue' = Append(queue, 0) /\ cursor' = cursor /\ from' = from
    BY <1>3, <2>2
  <2> QED
    BY <1>2, <1>4, <1>5, <2>1, <2>2, ChannelMoves

LEMMA ReplayOrderStep ==
    ASSUME TypeOK, QueueInOrder, ReplayInOrder, [Next]_vars
    PROVE  ReplayInOrder'
<1>1. /\ queue \in Seq(0..Len(log)) /\ cursor \in Nat /\ from \in Nat
      /\ replay \in Seq(1..Len(log)) /\ Len(log) \in Nat
      /\ DOMAIN replay = 1..Len(replay) /\ Len(replay) \in Nat
      /\ cursor =< Len(log) /\ 0 \in 0..Len(log)
  BY DEF TypeOK, ChannelType, WatcherType, NomadType
<1>2. ASSUME NEW b \in Backlogs, Connect(b) PROVE ReplayInOrder'
  BY <1>1, <1>2 DEF Connect, Older, ReplayInOrder
<1>3. CASE Deliver
  <2>1. cursor + 1 \in 0..Len(log)
    BY <1>1, <1>3 DEF Deliver
  <2>2. Range(queue') = Range(queue) \union {cursor + 1}
    BY <1>1, <1>3, <2>1, RangeAppend DEF Deliver
  <2>3. cursor' = cursor + 1 /\ UNCHANGED <<from, replay>>
    BY <1>3 DEF Deliver
  <2>4. SUFFICES ASSUME NEW n \in DOMAIN replay, NEW j \in 1..cursor',
                        replay[n] < j
                 PROVE  \/ j =< from \/ j \in Range(queue')
                        \/ \E m \in DOMAIN replay : m > n /\ replay[m] = j
    BY <2>3 DEF ReplayInOrder
  <2>5. CASE j = cursor + 1
    BY <2>2, <2>5
  <2>6. CASE j \in 1..cursor
    BY <2>2, <2>4, <2>6 DEF ReplayInOrder
  <2> QED
    BY <1>1, <2>3, <2>5, <2>6
<1>4. CASE SendRepair \/ Resend
  <2>1. Range(queue) \subseteq Range(queue')
    <3>1. queue' = queue \/ queue' = Append(queue, 0)
      BY <1>4 DEF SendRepair, Resend
    <3>2. Range(Append(queue, 0)) = Range(queue) \union {0}
      BY <1>1, RangeAppend
    <3> QED
      BY <3>1, <3>2
  <2>2. UNCHANGED <<replay, cursor, from>>
    BY <1>4 DEF SendRepair, Resend
  <2> QED
    BY <2>1, <2>2 DEF ReplayInOrder
<1>5. CASE Receive
  <2>1. Range(queue) = Range(queue') \union {Head(queue)}
    BY <1>1, <1>5, RangeTail DEF Receive
  <2>2. CASE Head(queue) = 0
    BY <1>1, <1>5, <2>1, <2>2 DEF Receive, ReplayInOrder
  <2>3. CASE Head(queue) # 0
    <3> DEFINE i == Head(queue)
    <3>1. /\ replay' = Append(replay, i) /\ queue' = Tail(queue)
          /\ queue # <<>> /\ i \in 1..Len(log)
          /\ from' = from /\ cursor' = cursor
      BY <1>1, <1>5, <2>3, HeadType DEF Receive, TypeOK
    <3>2. /\ DOMAIN replay' = 1..(Len(replay) + 1)
          /\ replay'[Len(replay) + 1] = i
          /\ \A n \in 1..Len(replay) : replay'[n] = replay[n]
      BY <1>1, <3>1
    <3>3. SUFFICES ASSUME NEW n \in DOMAIN replay', NEW j \in 1..cursor,
                          replay'[n] < j
                   PROVE  \/ j =< from \/ j \in Range(queue')
                          \/ \E m \in DOMAIN replay' :
                               m > n /\ replay'[m] = j
      BY <3>1 DEF ReplayInOrder
    <3>4. CASE n = Len(replay) + 1
      BY <2>3, <3>1, <3>2, <3>3, <3>4, HeadFirst
    <3>5. CASE n \in DOMAIN replay
      <4>1. \/ j =< from \/ j \in Range(queue)
            \/ \E m \in DOMAIN replay : m > n /\ replay[m] = j
        BY <1>1, <3>2, <3>3, <3>5 DEF ReplayInOrder
      <4>2. \A m \in DOMAIN replay :
                m \in DOMAIN replay' /\ replay'[m] = replay[m]
        BY <1>1, <3>2
      <4>3. /\ Len(replay) + 1 \in DOMAIN replay' /\ Len(replay) + 1 > n
            /\ replay'[Len(replay) + 1] = i
        BY <1>1, <3>2, <3>5
      <4> QED
        BY <2>1, <4>1, <4>2, <4>3
    <3> QED
      BY <1>1, <3>2, <3>4, <3>5
  <2> QED
    BY <2>2, <2>3
<1>6. CASE replay' = <<>>
  BY <1>6 DEF ReplayInOrder
<1>7. CASE ReplayOne
  <2>1. /\ replay # <<>> /\ replay' = Tail(replay)
        /\ UNCHANGED <<queue, cursor, from>>
    BY <1>7 DEF ReplayOne
  <2>2. SUFFICES ASSUME NEW n \in DOMAIN replay', NEW j \in 1..cursor,
                        replay'[n] < j, ~(j =< from), j \notin Range(queue)
                 PROVE  \E m \in DOMAIN replay' : m > n /\ replay'[m] = j
    BY <2>1 DEF ReplayInOrder
  <2>3. n + 1 \in DOMAIN replay /\ replay[n + 1] = replay'[n]
    BY <1>1, <2>1, <2>2, TailFacts
  <2>4. PICK m \in DOMAIN replay : m > n + 1 /\ replay[m] = j
    BY <2>2, <2>3 DEF ReplayInOrder
  <2>5. /\ DOMAIN replay' = 1..(Len(replay) - 1)
        /\ \A k \in 1..(Len(replay) - 1) : replay'[k] = replay[k + 1]
    BY <1>1, <2>1, TailFacts
  <2>6. m - 1 \in DOMAIN replay' /\ m - 1 > n
    BY <1>1, <2>2, <2>3, <2>4, <2>5
  <2>7. replay'[m - 1] = j
    BY <1>1, <2>4, <2>5, <2>6
  <2> QED
    BY <2>6, <2>7
<1>8. CASE UNCHANGED <<replay, queue, from, cursor>>
  BY <1>8 DEF ReplayInOrder
<1> QED
  BY <1>2, <1>3, <1>4, <1>5, <1>6, <1>7, <1>8
  DEF Next, vars, Exited, Change, Watcher, Reconnect, ConnectFails,
      Break, EndDebounce, RetryPass, IntervalPass, StartRepair, CachedPass,
      Gather, List, Get, GatherFail, GatherRejected, Finish, DrainOne, Install

-----------------------------------------------------------------------------
(* The inductive invariant: the cache and the snapshot are right up to     *)
(* asOf and snapAsOf.                                                      *)

LEMMA CacheAsOfStep ==
    ASSUME IInv, [Next]_vars
    PROVE  CacheAsOf'
<1>1. /\ TypeOK /\ NomadType /\ CatalogCurrent /\ Known(cache) /\ CacheAsOf
      /\ cache \in Rows /\ asOf \in 0..Len(log) /\ Len(log) \in Nat
  BY DEF IInv, TypeOK, NomadType, RowsType
<1>2. ASSUME NEW f \in Frames, Change(f) PROVE CacheAsOf'
  <2>1. cache' = cache /\ asOf' = asOf
    BY <1>2 DEF Change
  <2>2. ASSUME NEW r \in Reg, NEW i \in 1..asOf, IsLast(r, i)'
        PROVE  Right(cache, r)'
    <3>1. IsLast(r, i) /\ catalog'[r] = catalog[r]
      BY <1>1, <1>2, <2>2, ChangeFacts
    <3>2. Right(cache, r)
      BY <1>1, <3>1 DEF CacheAsOf
    <3>3. /\ cache[r] # 0 => log'[cache[r]] = log[cache[r]]
          /\ catalog[r] # 0 => log'[catalog[r]] = log[catalog[r]]
      BY <1>1, <1>2, ChangeFacts DEF NomadType
    <3> QED
      BY <2>1, <3>1, <3>2, <3>3 DEF Right, Live, Enabled
  <2> QED
    BY <2>1, <2>2 DEF CacheAsOf
<1>3. CASE Receive
  <2>1. CASE Head(queue) = 0
    BY <1>1, <1>3, <2>1 DEF Receive, CacheAsOf, IsLast, Right, Live, Enabled
  <2>2. CASE Head(queue) # 0
    <3> DEFINE i == Head(queue)
    <3>1. /\ i \in 1..Len(log) /\ cache' = Apply(cache, i)
          /\ asOf' = Older(asOf, i) /\ UNCHANGED nomadVars
      BY <1>1, <1>3, <2>2, HeadType DEF Receive, TypeOK
    <3>2. ASSUME NEW r \in Reg, NEW k \in 1..asOf', IsLast(r, k)
          PROVE  Right(Apply(cache, i), r)
      <4>1. k \in 1..i /\ k \in 1..asOf
        BY <1>1, <3>1 DEF Older
      <4>2. Right(cache, r)
        BY <1>1, <3>2, <4>1 DEF CacheAsOf
      <4> QED
        BY <1>1, <3>1, <3>2, <4>1, <4>2, ApplyKeepsRight
    <3> QED
      BY <3>1, <3>2 DEF CacheAsOf, IsLast, Right, Live, Enabled
  <2> QED
    BY <2>1, <2>2
<1>4. CASE Install
  <2>1. \A r \in Reg : \A i \in 1..snapAsOf : IsLast(r, i) => Right(snap, r)
    BY <1>4 DEF Install, gathered, IInv, SnapAsOf
  <2>2. cache' = snap /\ asOf' = snapAsOf /\ UNCHANGED nomadVars
    BY <1>4 DEF Install
  <2> QED
    BY <2>1, <2>2 DEF CacheAsOf, IsLast, Right, Live, Enabled
<1>5. CASE UNCHANGED <<cache, asOf, nomadVars>>
  BY <1>1, <1>5 DEF CacheAsOf, IsLast, Right, Live, Enabled
<1> QED
  BY <1>2, <1>3, <1>4, <1>5
  DEF Next, vars, Exited, Watcher, Reconnect, Connect, ConnectFails, Deliver,
      Break, SendRepair, EndDebounce, RetryPass, IntervalPass, StartRepair,
      CachedPass, Gather, List, Get, GatherFail, GatherRejected, Finish,
      ReplayOne, DrainOne, Resend

LEMMA SnapAsOfStep ==
    ASSUME IInv, [Next]_vars
    PROVE  SnapAsOf'
<1>1. /\ TypeOK /\ NomadType /\ CatalogCurrent /\ Known(snap) /\ SnapAsOf
      /\ snap \in Rows /\ snapAsOf \in 0..Len(log) /\ Len(log) \in Nat
  BY DEF IInv, TypeOK, NomadType, RowsType
<1>2. ASSUME NEW f \in Frames, Change(f) PROVE SnapAsOf'
  <2>1. UNCHANGED <<pc, snap, snapAsOf, toGet>>
    BY <1>2 DEF Change
  <2>2. ASSUME pc = "get", NEW r \in Reg, NEW i \in 1..snapAsOf, IsLast(r, i)',
               ServiceOf[r] \notin toGet
        PROVE  Right(snap, r)'
    <3>1. IsLast(r, i) /\ catalog'[r] = catalog[r]
      BY <1>1, <1>2, <2>2, ChangeFacts
    <3>2. Right(snap, r)
      BY <1>1, <2>2, <3>1 DEF SnapAsOf
    <3>3. /\ snap[r] # 0 => log'[snap[r]] = log[snap[r]]
          /\ catalog[r] # 0 => log'[catalog[r]] = log[catalog[r]]
      BY <1>1, <1>2, ChangeFacts DEF NomadType
    <3> QED
      BY <2>1, <3>1, <3>2, <3>3 DEF Right, Live, Enabled
  <2> QED
    BY <2>1, <2>2 DEF SnapAsOf
<1>3. CASE List
  <2>1. /\ snap' = Empty /\ UNCHANGED nomadVars
        /\ toGet' = {ServiceOf[r] : r \in {q \in Reg : Enabled(catalog, q)}}
    BY <1>3 DEF List
  <2>2. \A r \in Reg : ServiceOf[r] \in toGet' \/ Right(Empty, r)
    BY <2>1 DEF Right, Live, Enabled, Empty
  <2> QED
    BY <2>1, <2>2 DEF SnapAsOf, Right, Live, Enabled
<1>4. ASSUME NEW s \in toGet, Get(s) PROVE SnapAsOf'
  <2>1. /\ snap' = [r \in Reg |-> IF ServiceOf[r] = s THEN catalog[r]
                                                    ELSE snap[r]]
        /\ toGet' = toGet \ {s} /\ pc = "get"
        /\ UNCHANGED <<snapAsOf, nomadVars>>
    BY <1>4 DEF Get
  <2>2. ASSUME NEW r \in Reg, NEW i \in 1..snapAsOf, IsLast(r, i),
               ServiceOf[r] \notin toGet'
        PROVE  Right(snap', r)
    <3>1. CASE ServiceOf[r] = s
      BY <2>1, <3>1 DEF Right, Live, Enabled
    <3>2. CASE ServiceOf[r] # s
      <4>1. Right(snap, r)
        BY <1>1, <2>1, <2>2, <3>2 DEF SnapAsOf
      <4> QED
        BY <2>1, <3>2, <4>1 DEF Right, Live, Enabled
    <3> QED
      BY <3>1, <3>2
  <2> QED
    BY <2>1, <2>2 DEF SnapAsOf, IsLast, Right, Live, Enabled
<1>5. ASSUME NEW i \in 1..Len(log), snap' = Apply(snap, i), gathered,
             snapAsOf' = Older(snapAsOf, i), UNCHANGED <<toGet, nomadVars>>
      PROVE  SnapAsOf'
  <2>1. ASSUME NEW r \in Reg, NEW k \in 1..snapAsOf', IsLast(r, k)
        PROVE  Right(Apply(snap, i), r)
    <3>1. k \in 1..i /\ k \in 1..snapAsOf
      BY <1>1, <1>5 DEF Older
    <3>2. Right(snap, r)
      BY <1>1, <1>5, <2>1, <3>1 DEF SnapAsOf, gathered
    <3> QED
      BY <1>1, <2>1, <3>1, <3>2, ApplyKeepsRight
  <2> QED
    BY <1>5, <2>1 DEF SnapAsOf, IsLast, Right, Live, Enabled
<1>6. CASE ReplayOne
  BY <1>1, <1>5, <1>6, HeadType DEF ReplayOne, ApplyToSnap, TypeOK
<1>7. CASE DrainOne
  <2>1. CASE Head(queue) = 0
    BY <1>1, <1>7, <2>1
    DEF DrainOne, SnapAsOf, IsLast, Right, Live, Enabled
  <2>2. CASE Head(queue) # 0
    BY <1>1, <1>5, <1>7, <2>2, HeadType DEF DrainOne, ApplyToSnap, TypeOK
  <2> QED
    BY <2>1, <2>2
<1>8. CASE pc' # "get"
  BY <1>8 DEF SnapAsOf
<1>9. CASE UNCHANGED <<pc, snap, snapAsOf, toGet, nomadVars>>
  BY <1>1, <1>9 DEF SnapAsOf, IsLast, Right, Live, Enabled
<1> QED
  BY <1>2, <1>3, <1>4, <1>6, <1>7, <1>8, <1>9
  DEF Next, vars, Exited, Watcher, Reconnect, Connect, ConnectFails, Deliver,
      Break, SendRepair, Receive, EndDebounce, RetryPass, IntervalPass,
      StartRepair, CachedPass, Gather, GatherFail, GatherRejected, Finish,
      Install, Finished, Resend

-----------------------------------------------------------------------------
(* The inductive invariant: what was handed over is right or still awaited. *)

\* A frame stops being awaited only when the main loop takes it.
LEMMA AwaitedStep ==
    ASSUME TypeOK, [Next]_vars, NEW i \in 1..Len(log), Awaited(i)
    PROVE  \/ Awaited(i)'
           \/ queue # <<>> /\ queue' = Tail(queue) /\ i = Head(queue)
<1>1. /\ queue \in Seq(0..Len(log)) /\ cursor \in Nat /\ from \in Nat
      /\ Len(log) \in Nat /\ cursor =< Len(log) /\ 0 \in 0..Len(log)
  BY DEF TypeOK, ChannelType, WatcherType, NomadType
<1>2. ASSUME NEW b \in Backlogs, Connect(b) PROVE Awaited(i)'
  BY <1>1, <1>2 DEF Connect, Older, Awaited
<1>3. CASE Deliver
  <2>1. cursor + 1 \in 0..Len(log)
    BY <1>1, <1>3 DEF Deliver
  <2>2. Range(queue') = Range(queue) \union {cursor + 1}
    BY <1>1, <1>3, <2>1, RangeAppend DEF Deliver
  <2>3. cursor' = cursor + 1 /\ from' = from
    BY <1>3 DEF Deliver
  <2>4. CASE i > cursor
    BY <1>1, <2>2, <2>3, <2>4 DEF Awaited
  <2>5. CASE i =< from \/ i \in Range(queue)
    BY <2>2, <2>3, <2>5 DEF Awaited
  <2> QED
    BY <2>4, <2>5 DEF Awaited
<1>4. CASE SendRepair \/ Resend
  <2>1. queue' = queue \/ queue' = Append(queue, 0)
    BY <1>4 DEF SendRepair, Resend
  <2>2. Range(Append(queue, 0)) = Range(queue) \union {0}
    BY <1>1, RangeAppend
  <2> QED
    BY <1>4, <2>1, <2>2 DEF SendRepair, Resend, Awaited
<1>5. CASE Receive \/ DrainOne
  <2>1. Range(queue) = Range(Tail(queue)) \union {Head(queue)}
    BY <1>1, <1>5, RangeTail DEF Receive, DrainOne
  <2> QED
    BY <1>5, <2>1 DEF Receive, DrainOne, Awaited
<1>6. CASE UNCHANGED <<queue, cursor, from>>
  BY <1>6 DEF Awaited
<1> QED
  BY <1>2, <1>3, <1>4, <1>5, <1>6
  DEF Next, vars, Exited, Change, Watcher, Reconnect, ConnectFails, Break,
      EndDebounce, RetryPass, IntervalPass, StartRepair, CachedPass, Gather,
      List, Get, GatherFail, GatherRejected, Finish, ReplayOne, Install

LEMMA CacheFollowsStep ==
    ASSUME IInv, [Next]_vars
    PROVE  CacheFollows'
<1>1. /\ TypeOK /\ NomadType /\ CatalogCurrent /\ Known(cache) /\ CacheFollows
      /\ cache \in Rows /\ Len(log) \in Nat /\ QueueInOrder
      /\ queue \in Seq(0..Len(log)) /\ cursor \in 0..Len(log)
  BY DEF IInv, TypeOK, NomadType, RowsType, ChannelType, WatcherType
<1>2. ASSUME ~(RepairDue \/ lostRepair \/ pc = "exited"),
             NEW r \in Reg, NEW i \in 1..Len(log), IsLast(r, i), ~Awaited(i)
      PROVE  Right(cache, r)
  BY <1>1, <1>2 DEF CacheFollows
<1>3. ASSUME NEW f \in Frames, Change(f) PROVE CacheFollows'
  <2>1. /\ UNCHANGED <<cache, cursor, from, queue>>
        /\ RepairDue' = RepairDue /\ lostRepair' = lostRepair /\ pc' = pc
    BY <1>3 DEF Change, RepairDue
  <2>2. ASSUME ~(RepairDue \/ lostRepair \/ pc = "exited"),
               NEW r \in Reg, NEW i \in 1..Len(log'), IsLast(r, i)',
               ~Awaited(i)'
        PROVE  Right(cache, r)'
    <3>1. ~Awaited(i)
      BY <2>1, <2>2 DEF Awaited
    <3>2. i # Len(log) + 1
      BY <1>1, <3>1 DEF Awaited
    <3>3. IsLast(r, i) /\ catalog'[r] = catalog[r] /\ i \in 1..Len(log)
      BY <1>1, <1>3, <2>2, <3>2, ChangeFacts
    <3>4. Right(cache, r)
      BY <1>2, <2>2, <3>1, <3>3
    <3>5. /\ cache[r] # 0 => log'[cache[r]] = log[cache[r]]
          /\ catalog[r] # 0 => log'[catalog[r]] = log[catalog[r]]
      BY <1>1, <1>3, ChangeFacts DEF NomadType
    <3> QED
      BY <2>1, <3>3, <3>4, <3>5 DEF Right, Live, Enabled
  <2> QED
    BY <2>1, <2>2 DEF CacheFollows
<1>4. ASSUME UNCHANGED <<nomadVars, cache>>,
             RepairDue \/ lostRepair \/ pc = "exited"
                 => RepairDue' \/ lostRepair' \/ pc' = "exited",
             ~(queue # <<>> /\ queue' = Tail(queue))
      PROVE  CacheFollows'
  <2>1. ASSUME ~(RepairDue' \/ lostRepair' \/ pc' = "exited"),
               NEW r \in Reg, NEW i \in 1..Len(log), IsLast(r, i),
               ~Awaited(i)'
        PROVE  Right(cache, r)
    <3>1. ~Awaited(i)
      BY <1>1, <1>4, <2>1, AwaitedStep
    <3> QED
      BY <1>2, <1>4, <2>1, <3>1
  <2> QED
    BY <1>4, <2>1 DEF CacheFollows, IsLast, Right, Live, Enabled
<1>5. CASE Receive
  <2> DEFINE i == Head(queue)
  <2>1. CASE i = 0
    BY <1>5, <2>1 DEF Receive, CacheFollows, RepairDue
  <2>2. CASE i # 0
    <3>1. /\ i \in 1..Len(log) /\ cache' = Apply(cache, i)
          /\ UNCHANGED nomadVars /\ UNCHANGED lostRepair
          /\ queue # <<>> /\ queue' = Tail(queue) /\ pc' = "debounce"
          /\ repair' = (repair \/ log[i].malformed) /\ retry' = retry
          /\ pc \in {"idle", "debounce"} /\ UNCHANGED <<cursor, from>>
      BY <1>1, <1>5, <2>2, HeadType DEF Receive, TypeOK
    <3>2. SUFFICES ASSUME ~(RepairDue' \/ lostRepair'),
                          NEW r \in Reg, NEW k \in 1..Len(log), IsLast(r, k),
                          ~Awaited(k)'
                   PROVE  Right(Apply(cache, i), r)
      BY <3>1 DEF CacheFollows, IsLast, Right, Live, Enabled
    <3>3. Range(queue) = Range(queue') \union {i}
      BY <1>1, <3>1, RangeTail
    <3>4. ~log[i].malformed /\ ~(RepairDue \/ lostRepair \/ pc = "exited")
      BY <2>2, <3>1, <3>2, <3>3 DEF RepairDue
    <3>5. log[i].skipped = {}
      BY <1>1, <3>1, <3>4 DEF NomadType
    <3>6. CASE k = i
      BY <1>1, <3>1, <3>2, <3>5, <3>6, ApplyLast
    <3>7. CASE k # i
      <4>1. ~Awaited(k)
        BY <1>1, <3>2, <3>7, AwaitedStep
      <4>2. Right(cache, r)
        BY <1>2, <3>2, <3>4, <4>1
      <4>3. k =< i
        BY <1>1, <2>2, <3>1, <3>2, <4>1, HeadFirst DEF Awaited
      <4> QED
        BY <1>1, <3>1, <3>2, <4>2, <4>3, ApplyKeepsRight
    <3> QED
      BY <3>6, <3>7
  <2> QED
    BY <2>1, <2>2
<1>6. CASE RepairDue' \/ lostRepair' \/ pc' = "exited"
  BY <1>6 DEF CacheFollows
<1>7. CASE Install
  <2>1. CASE again
    BY <1>7, <2>1, <1>6 DEF Install, RepairDue
  <2>2. CASE ~again
    <3>1. /\ cache' = snap /\ replay = <<>> /\ toGet = {} /\ pc = "get"
          /\ UNCHANGED <<nomadVars, queue, cursor, from>>
      BY <1>7 DEF Install, gathered
    <3>2. \A r \in Reg : \A i \in 1..Len(log) :
             IsLast(r, i) => Awaited(i) \/ Right(snap, r)
      BY <2>2, <3>1 DEF IInv, SnapFollows, Range
    <3> QED
      BY <3>1, <3>2
      DEF CacheFollows, Awaited, IsLast, Right, Live, Enabled
  <2> QED
    BY <2>1, <2>2
<1>8. CASE Resend
  <2>1. Len(queue) < Cap => 0 \in Range(queue')
    <3>1. Range(Append(queue, 0)) = Range(queue) \union {0}
      BY <1>1, RangeAppend
    <3> QED
      BY <1>8, <3>1 DEF Resend
  <2> QED
    BY <1>6, <1>8, <2>1 DEF Resend, RepairDue
<1>9. CASE Watcher
  <2>1. CASE SendRepair
    <3>1. Range(Append(queue, 0)) = Range(queue) \union {0}
      BY <1>1, RangeAppend
    <3> QED
      BY <1>6, <2>1, <3>1 DEF SendRepair, RepairDue
  <2>2. CASE Deliver
    <3>1. cursor + 1 \in 0..Len(log)
      BY <1>1, <2>2 DEF Deliver
    <3>2. Range(queue') = Range(queue) \union {cursor + 1}
      BY <1>1, <2>2, <3>1, RangeAppend DEF Deliver
    <3>3. ~(queue # <<>> /\ queue' = Tail(queue))
      BY <1>1, <2>2, <3>1, TailFacts DEF Deliver
    <3> QED
      BY <1>4, <2>2, <3>2, <3>3 DEF Deliver, RepairDue
  <2>3. CASE Reconnect \/ Break
    <3>1. UNCHANGED <<nomadVars, cache, queue, repair, retry, pc, lostRepair>>
      BY <2>3 DEF Reconnect, Connect, ConnectFails, Break
    <3>2. ~(queue # <<>> /\ queue' = Tail(queue))
      BY <1>1, <3>1, TailFacts
    <3> QED
      BY <1>4, <3>1, <3>2 DEF RepairDue
  <2> QED
    BY <1>9, <2>1, <2>2, <2>3 DEF Watcher
<1>10. CASE EndDebounce \/ CachedPass \/ UNCHANGED vars
  <2>1. UNCHANGED <<nomadVars, cache, queue, repair, retry, lostRepair>>
    BY <1>10 DEF EndDebounce, CachedPass, vars
  <2>2. ~(queue # <<>> /\ queue' = Tail(queue))
    BY <1>1, <2>1, TailFacts
  <2>3. RepairDue \/ lostRepair \/ pc = "exited"
            => RepairDue' \/ lostRepair' \/ pc' = "exited"
    BY <1>10, <2>1 DEF EndDebounce, CachedPass, vars, RepairDue
  <2> QED
    BY <1>4, <2>1, <2>2, <2>3
<1>11. CASE RetryPass \/ IntervalPass \/ Gather \/ ReplayOne \/ DrainOne
  BY <1>6, <1>11
  DEF RetryPass, IntervalPass, StartRepair, Gather, List, Get, GatherFail,
      GatherRejected, ReplayOne, DrainOne, gathered, RepairDue
<1> QED
  BY <1>3, <1>5, <1>7, <1>8, <1>9, <1>10, <1>11 DEF Next, Finish, Exited

LEMMA SnapFollowsStep ==
    ASSUME IInv, [Next]_vars
    PROVE  SnapFollows'
<1>1. /\ TypeOK /\ NomadType /\ CatalogCurrent /\ Known(snap) /\ SnapFollows
      /\ snap \in Rows /\ Len(log) \in Nat
      /\ QueueInOrder /\ ReplayInOrder
      /\ queue \in Seq(0..Len(log)) /\ cursor \in 0..Len(log)
      /\ replay \in Seq(1..Len(log))
  BY DEF IInv, TypeOK, NomadType, RowsType, ChannelType, WatcherType
<1>2. ASSUME pc = "get", ~again, NEW r \in Reg, NEW i \in 1..Len(log),
             IsLast(r, i), ~Awaited(i), i \notin Range(replay),
             ServiceOf[r] \notin toGet
      PROVE  Right(snap, r)
  BY <1>1, <1>2 DEF SnapFollows
<1>3. ASSUME NEW f \in Frames, Change(f) PROVE SnapFollows'
  <2>1. UNCHANGED <<snap, cursor, from, queue, replay, pc, again, toGet>>
    BY <1>3 DEF Change
  <2>2. ASSUME pc = "get", ~again,
               NEW r \in Reg, NEW i \in 1..Len(log'), IsLast(r, i)',
               ~Awaited(i)', i \notin Range(replay), ServiceOf[r] \notin toGet
        PROVE  Right(snap, r)'
    <3>1. ~Awaited(i)
      BY <2>1, <2>2 DEF Awaited
    <3>2. i # Len(log) + 1
      BY <1>1, <3>1 DEF Awaited
    <3>3. IsLast(r, i) /\ catalog'[r] = catalog[r] /\ i \in 1..Len(log)
      BY <1>1, <1>3, <2>2, <3>2, ChangeFacts
    <3>4. Right(snap, r)
      BY <1>2, <2>2, <3>1, <3>3
    <3>5. /\ snap[r] # 0 => log'[snap[r]] = log[snap[r]]
          /\ catalog[r] # 0 => log'[catalog[r]] = log[catalog[r]]
      BY <1>1, <1>3, ChangeFacts DEF NomadType
    <3> QED
      BY <2>1, <3>3, <3>4, <3>5 DEF Right, Live, Enabled
  <2> QED
    BY <2>1, <2>2 DEF SnapFollows
<1>4. CASE List
  <2>1. /\ snap' = Empty /\ UNCHANGED nomadVars
        /\ toGet' = {ServiceOf[r] : r \in {q \in Reg : Enabled(catalog, q)}}
    BY <1>4 DEF List
  <2>2. \A r \in Reg : ServiceOf[r] \in toGet' \/ Right(Empty, r)
    BY <2>1 DEF Right, Live, Enabled, Empty
  <2> QED
    BY <2>1, <2>2 DEF SnapFollows, Right, Live, Enabled
<1>5. ASSUME NEW s \in toGet, Get(s) PROVE SnapFollows'
  <2>1. /\ snap' = [r \in Reg |-> IF ServiceOf[r] = s THEN catalog[r]
                                                    ELSE snap[r]]
        /\ toGet' = toGet \ {s} /\ pc = "get"
        /\ UNCHANGED <<queue, replay, cursor, from, again, nomadVars>>
    BY <1>5 DEF Get
  <2>2. ASSUME ~again, NEW r \in Reg, NEW i \in 1..Len(log), IsLast(r, i),
               ~Awaited(i), i \notin Range(replay), ServiceOf[r] \notin toGet'
        PROVE  Right(snap', r)
    <3>1. CASE ServiceOf[r] = s
      BY <2>1, <3>1 DEF Right, Live, Enabled
    <3>2. CASE ServiceOf[r] # s
      <4>1. Right(snap, r)
        BY <1>2, <2>1, <2>2, <3>2
      <4> QED
        BY <2>1, <3>2, <4>1 DEF Right, Live, Enabled
    <3> QED
      BY <3>1, <3>2
  <2> QED
    BY <2>1, <2>2 DEF SnapFollows, Awaited, IsLast, Right, Live, Enabled
<1>6. ASSUME NEW i \in 1..Len(log), snap' = Apply(snap, i), gathered,
             again' = (again \/ log[i].malformed),
             UNCHANGED <<toGet, nomadVars>>,
             \A k \in 1..Len(log) :
                Awaited(k) \/ k \in Range(replay)
                    => k = i \/ Awaited(k)' \/ k \in Range(replay'),
             \A k \in 1..cursor : i < k =>
                k =< from \/ Awaited(k)' \/ k \in Range(replay'),
             UNCHANGED <<cursor, from>>
      PROVE  SnapFollows'
  <2>1. SUFFICES ASSUME ~again', NEW r \in Reg, NEW k \in 1..Len(log),
                        IsLast(r, k), ~Awaited(k)', k \notin Range(replay'),
                        ServiceOf[r] \notin toGet
                 PROVE  Right(Apply(snap, i), r)
    BY <1>6 DEF SnapFollows, IsLast, Right, Live, Enabled
  <2>2. ~log[i].malformed /\ ~again
    BY <1>6, <2>1
  <2>3. log[i].skipped = {}
    BY <1>1, <2>2 DEF NomadType
  <2>4. CASE k = i
    BY <1>1, <2>1, <2>3, <2>4, ApplyLast
  <2>5. CASE k # i
    <3>1. ~Awaited(k) /\ k \notin Range(replay)
      BY <1>6, <2>1, <2>5
    <3>2. Right(snap, r)
      BY <1>2, <1>6, <2>1, <2>2, <3>1 DEF gathered
    <3>3. k \in 1..cursor /\ ~(k =< from)
      BY <1>1, <3>1 DEF Awaited
    <3>4. k =< i
      BY <1>1, <1>6, <2>1, <3>3
    <3> QED
      BY <1>1, <2>1, <3>2, <3>4, ApplyKeepsRight
  <2> QED
    BY <2>4, <2>5
<1>7. CASE ReplayOne
  <2> DEFINE i == Head(replay)
  <2>1. /\ i \in 1..Len(log) /\ snap' = Apply(snap, i) /\ gathered
        /\ again' = (again \/ log[i].malformed) /\ replay # <<>>
        /\ replay' = Tail(replay)
        /\ UNCHANGED <<toGet, nomadVars, queue, cursor, from>>
    BY <1>1, <1>7, HeadType DEF ReplayOne, ApplyToSnap, TypeOK
  <2>2. Range(replay) = Range(replay') \union {i}
    BY <1>1, <2>1, RangeTail
  <2>3. \A k \in 1..Len(log) : Awaited(k)' = Awaited(k)
    BY <2>1 DEF Awaited
  <2>4. \A k \in 1..cursor : i < k =>
            k =< from \/ k \in Range(queue) \/ k \in Range(replay')
    BY <1>1, <2>1, ReplayFirst
  <2>5. \A k \in 1..cursor : i < k =>
            k =< from \/ Awaited(k)' \/ k \in Range(replay')
    BY <1>1, <2>1, <2>4 DEF Awaited
  <2> HIDE DEF i
  <2> QED
    BY <1>6, <2>1, <2>2, <2>3, <2>5
<1>8. CASE DrainOne
  <2> DEFINE i == Head(queue)
  <2>1. CASE i = 0
    BY <1>8, <2>1 DEF DrainOne, SnapFollows
  <2>2. CASE i # 0
    <3>1. /\ i \in 1..Len(log) /\ snap' = Apply(snap, i) /\ gathered
          /\ again' = (again \/ log[i].malformed) /\ queue # <<>>
          /\ queue' = Tail(queue)
          /\ UNCHANGED <<toGet, nomadVars, replay, cursor, from>>
      BY <1>1, <1>8, <2>2, HeadType DEF DrainOne, ApplyToSnap, TypeOK
    <3>2. \A k \in 1..Len(log) :
             Awaited(k) \/ k \in Range(replay)
                => k = i \/ Awaited(k)' \/ k \in Range(replay')
      BY <1>1, <3>1, AwaitedStep
    <3>3. \A k \in 1..cursor : i < k => k =< from \/ k \in Range(queue')
      BY <1>1, <2>2, <3>1, HeadFirst
    <3>4. \A k \in 1..cursor : i < k =>
             k =< from \/ Awaited(k)' \/ k \in Range(replay')
      BY <3>1, <3>3 DEF Awaited
    <3> HIDE DEF i
    <3> QED
      BY <1>6, <3>1, <3>2, <3>4
  <2> QED
    BY <2>1, <2>2
<1>9. CASE pc' # "get"
  BY <1>9 DEF SnapFollows
<1>10. ASSUME UNCHANGED <<pc, snap, toGet, again, replay, nomadVars>>,
              ~(queue # <<>> /\ queue' = Tail(queue))
       PROVE  SnapFollows'
  <2>1. ASSUME pc = "get", ~again, NEW r \in Reg, NEW i \in 1..Len(log),
               IsLast(r, i), ~Awaited(i)', i \notin Range(replay),
               ServiceOf[r] \notin toGet
        PROVE  Right(snap, r)
    <3>1. ~Awaited(i)
      BY <1>1, <1>10, <2>1, AwaitedStep
    <3> QED
      BY <1>2, <2>1, <3>1
  <2> QED
    BY <1>10, <2>1 DEF SnapFollows, IsLast, Right, Live, Enabled
<1>11. CASE Watcher \/ CachedPass \/ UNCHANGED vars
  <2>1. UNCHANGED <<pc, snap, toGet, again, replay, nomadVars>>
    BY <1>11 DEF Watcher, Reconnect, Connect, ConnectFails, Deliver, Break,
                 SendRepair, CachedPass, vars
  <2>2. queue' = queue \/ \E x : queue' = Append(queue, x)
    BY <1>11 DEF Watcher, Reconnect, Connect, ConnectFails, Deliver, Break,
                 SendRepair, CachedPass, vars
  <2>3. ~(queue # <<>> /\ queue' = Tail(queue))
    BY <1>1, <2>2, TailFacts
  <2> QED
    BY <1>10, <2>1, <2>3
<1> QED
  BY <1>3, <1>4, <1>5, <1>7, <1>8, <1>9, <1>11
  DEF Next, Exited, Receive, EndDebounce, RetryPass, IntervalPass,
      StartRepair, Gather, GatherFail, GatherRejected, Finish, Install,
      Finished, Resend

-----------------------------------------------------------------------------
(* The theorems.                                                           *)

LEMMA InitIInv == Init => IInv
<1> SUFFICES ASSUME Init PROVE IInv
  OBVIOUS
<1>1. TypeOK
  BY InitType
<1>2. Len(log) = 0 /\ queue = <<>> /\ replay = <<>> /\ cursor = 0 /\ asOf = 0
      /\ pc = "list" /\ catalog = Empty /\ cache = Empty /\ snap = Empty
  BY DEF Init
<1> QED
  BY <1>1, <1>2
  DEF IInv, Known, Empty, CatalogCurrent, QueueInOrder, ReplayInOrder,
      CacheAsOf, CacheFollows, RepairDue, SnapAsOf, SnapFollows

LEMMA StepIInv == IInv /\ [Next]_vars => IInv'
<1> SUFFICES ASSUME IInv, [Next]_vars PROVE IInv'
  OBVIOUS
<1>1. TypeOK'
  BY TypeStep DEF IInv
<1>2. Known(catalog)' /\ CatalogCurrent'
  BY CatalogStep DEF IInv
<1>3. Known(cache)' /\ Known(snap)'
  BY KnownStep DEF IInv
<1>4. QueueInOrder' /\ ReplayInOrder'
  BY QueueOrderStep, ReplayOrderStep DEF IInv
<1>5. CacheAsOf' /\ CacheFollows' /\ SnapAsOf' /\ SnapFollows'
  BY CacheAsOfStep, CacheFollowsStep, SnapAsOfStep, SnapFollowsStep
<1> QED
  BY <1>1, <1>2, <1>3, <1>4, <1>5 DEF IInv

\* Where no frame is awaited the two halves of the invariant meet.
LEMMA IInvCoherent == IInv => Coherent
<1> SUFFICES ASSUME IInv, ~RepairDue, ~lostRepair, pc # "exited", from =< asOf,
                    NEW r \in Reg, NEW i \in 1..cursor, IsLast(r, i),
                    i \notin Range(queue)
             PROVE  Right(cache, r)
  BY DEF Coherent
<1>1. /\ cursor \in 0..Len(log) /\ from \in 0..Len(log)
      /\ asOf \in 0..Len(log) /\ Len(log) \in Nat
  BY DEF IInv, TypeOK, WatcherType, RowsType, NomadType
<1>2. i \in 1..Len(log) /\ (i =< from \/ ~Awaited(i))
  BY <1>1 DEF Awaited
<1>3. CASE i =< from
  BY <1>1, <1>3 DEF IInv, CacheAsOf
<1>4. CASE ~Awaited(i)
  BY <1>2, <1>4 DEF IInv, CacheFollows
<1> QED
  BY <1>2, <1>3, <1>4

\* IInv is an invariant of ServiceCache.
THEOREM Inductive == Spec => []IInv
BY InitIInv, StepIInv, PTL DEF Spec

(***************************************************************************)
(* The cache is right whenever no repair is outstanding or was dropped and *)
(* the frames handed over reach back to the last snapshot: whatever Nomad  *)
(* commits, however the stream breaks, the gathers fail and the batches    *)
(* are replayed (serviceState.apply, gatherState and the pass of run).     *)
(***************************************************************************)
THEOREM CacheCoherent == Spec => []Coherent
BY Inductive, IInvCoherent, PTL
=============================================================================
