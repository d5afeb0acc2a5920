---------------------------- MODULE ServiceCache ----------------------------
(***************************************************************************)
(* The registration cache of the connector and everything that keeps it    *)
(* current: Nomad's service catalog and event stream (external), the       *)
(* goroutine nomadClient.watchEvents, the buffered events channel, and the *)
(* main loop of run(), which applies events to its serviceState, debounces *)
(* them, and replaces the whole state with a gathered snapshot whenever a  *)
(* repair is due.                                                          *)
(*                                                                         *)
(* Nomad's history is the sequence log of frames; a frame is what one raft *)
(* index did to the registrations, and its index is its position.  A row   *)
(* of the catalog, the cache or a snapshot is the ModifyIndex of the       *)
(* registration it holds, 0 if it holds none: the content of the row is    *)
(* what log says happened to the registration at that index.  A batch in   *)
(* the events channel is the index of its frame, a repair request is 0.    *)
(*                                                                         *)
(* asOf, snapAsOf, from, listed and lostRepair are history variables: no   *)
(* action reads them.                                                      *)
(***************************************************************************)
EXTENDS Integers, Sequences, Functions

CONSTANTS
    Reg,          \* registrations (namespace and ID)
    Service,      \* services (namespace and name)
    ServiceOf,    \* the service a registration belongs to
    Frames,       \* the frames Nomad may commit
    Cap,          \* capacity of the events channel (256 in the code)
    Backlogs,     \* how many past frames a new stream may begin with
    FatalAfter,   \* -max-reconcile-failures, 0 never gives up
    MaxIndex,     \* bound: frames committed
    MaxBreaks     \* bound: times the stream fails or breaks

Ops == {"unchanged", "enabled", "disabled", "deregistered"}

(***************************************************************************)
(* One serviceEventBatch.  op says what the raft index did to each         *)
(* registration: registered it with or without the enable tag, or          *)
(* deregistered it.  In a malformed batch apply stops at the first event   *)
(* it cannot interpret: skipped are the registrations whose events it      *)
(* never reaches.                                                          *)
(***************************************************************************)
Frame == [op : [Reg -> Ops], malformed : BOOLEAN, skipped : SUBSET Reg]

ASSUME RegAssumption == ServiceOf \in [Reg -> Service]
ASSUME FramesAssumption ==
    /\ Frames \subseteq Frame
    /\ \A f \in Frames : ~f.malformed => f.skipped = {}
ASSUME CapAssumption == Cap \in Nat \ {0}
ASSUME BacklogsAssumption == Backlogs \subseteq Nat
ASSUME BoundsAssumption ==
    FatalAfter \in Nat /\ MaxIndex \in Nat /\ MaxBreaks \in Nat

VARIABLES
    log,          \* the frames Nomad committed
    catalog,      \* Nomad's registrations
    stream,       \* watchEvents: "connecting", "up" or "lost"
    cursor,       \* index of the last frame the stream handed over
    breaks,       \* times the stream failed or broke
    queue,        \* the events channel
    pc,           \* where the main loop is
    cache,        \* state, the serviceState of run()
    served,       \* the cache the last reconcile converged to
    repair,       \* the debounced batches ask for a repair
    replay,       \* the debounced batches
    snap,         \* the snapshot being gathered, then replayed onto
    toGet,        \* listed services not read yet
    again,        \* repairAgain
    retry,        \* retryAt is set
    failures,     \* consecutive failed gathers, up to FatalAfter
    asOf,         \* history: the cache reflects every frame up to here
    snapAsOf,     \* history: the same of the snapshot
    listed,       \* history: length of the log when the services were listed
    from,         \* history: every frame in from+1..cursor was handed over
    lostRepair    \* history: a repair request was dropped on a full channel

nomadVars   == <<log, catalog>>
watcherVars == <<stream, cursor, breaks, from>>
cacheVars   == <<cache, asOf, served>>
snapVars    == <<snap, snapAsOf, listed, toGet, again>>
budgetVars  == <<retry, failures>>
vars == <<nomadVars, watcherVars, queue, pc, cacheVars, repair, replay,
          snapVars, budgetVars, lostRepair>>

Empty == [r \in Reg |-> 0]

\* The snapshot and its bookkeeping are local to a pass.
NoSnapshot ==
    /\ snap' = Empty
    /\ toGet' = {}
    /\ again' = FALSE
    /\ snapAsOf' = 0
    /\ listed' = 0

Older(i, j) == IF i =< j THEN i ELSE j

\* The row holds a registration that opted in.
Enabled(c, r) == c[r] # 0 /\ log[c[r]].op[r] = "enabled"

\* Frame i is the last one that says anything about r.
IsLast(r, i) ==
    /\ log[i].op[r] # "unchanged"
    /\ \A j \in (i + 1)..Len(log) : log[j].op[r] = "unchanged"

-----------------------------------------------------------------------------
(* serviceState.apply.                                                     *)

\* As if an upsert without the enable tag did not delete.
ApplyKeepsDisabled(c, i) ==
    [r \in Reg |->
        IF r \in log[i].skipped THEN c[r]
        ELSE CASE log[i].op[r] = "enabled" -> IF i >= c[r] THEN i ELSE c[r]
               [] log[i].op[r] = "deregistered" ->
                    IF c[r] =< i THEN 0 ELSE c[r]
               [] OTHER -> c[r]]

(***************************************************************************)
(* The cache c after the events of frame i.  A registration that lost its  *)
(* enable tag is deleted whatever its version; the other two cases compare *)
(* versions.                                                               *)
(***************************************************************************)
Apply(c, i) ==
    [r \in Reg |->
        IF r \in log[i].skipped THEN c[r]
        ELSE CASE log[i].op[r] = "enabled"  -> IF i >= c[r] THEN i ELSE c[r]
               [] log[i].op[r] = "disabled" -> 0
               [] log[i].op[r] = "deregistered" ->
                    IF c[r] =< i THEN 0 ELSE c[r]
               [] OTHER -> c[r]]

-----------------------------------------------------------------------------
(* Nomad.                                                                  *)

Change(f) ==
    /\ pc # "exited"
    /\ Len(log) < MaxIndex
    /\ \A r \in Reg : f.op[r] = "deregistered" => catalog[r] # 0
    /\ log' = Append(log, f)
    /\ catalog' = [r \in Reg |->
                      CASE f.op[r] = "unchanged"    -> catalog[r]
                        [] f.op[r] = "deregistered" -> 0
                        [] OTHER                    -> Len(log) + 1]
    /\ UNCHANGED <<watcherVars, queue, pc, cacheVars, repair, replay,
                   snapVars, budgetVars, lostRepair>>

-----------------------------------------------------------------------------
(* watchEvents and streamEvents.                                           *)

watcherFrame == <<nomadVars, pc, cacheVars, repair, replay, snapVars,
                  budgetVars, lostRepair>>

(***************************************************************************)
(* The request names no index, so the stream begins with whatever Nomad    *)
(* still holds: the last b frames, or all there are.                       *)
(***************************************************************************)
Connect(b) ==
    LET p == IF Len(log) >= b THEN Len(log) - b ELSE 0
    IN  /\ pc # "exited"
        /\ stream = "connecting"
        /\ stream' = "up"
        /\ cursor' = p
        /\ from' = IF p =< cursor THEN Older(from, p) ELSE p
        /\ UNCHANGED <<breaks, queue, watcherFrame>>

ConnectFails ==
    /\ pc # "exited"
    /\ stream = "connecting"
    /\ breaks < MaxBreaks
    /\ stream' = "lost"
    /\ breaks' = breaks + 1
    /\ UNCHANGED <<cursor, from, queue, watcherFrame>>

\* As if the send to the events channel never blocked.
DeliverUnbounded ==
    /\ pc # "exited"
    /\ stream = "up"
    /\ cursor < Len(log)
    /\ queue' = Append(queue, cursor + 1)
    /\ cursor' = cursor + 1
    /\ UNCHANGED <<stream, breaks, from, watcherFrame>>

\* A frame is decoded and sent on the channel, which blocks while it is full.
Deliver ==
    /\ pc # "exited"
    /\ stream = "up"
    /\ cursor < Len(log)
    /\ Len(queue) < Cap
    /\ queue' = Append(queue, cursor + 1)
    /\ cursor' = cursor + 1
    /\ UNCHANGED <<stream, breaks, from, watcherFrame>>

Break ==
    /\ pc # "exited"
    /\ stream = "up"
    /\ breaks < MaxBreaks
    /\ stream' = "lost"
    /\ breaks' = breaks + 1
    /\ UNCHANGED <<cursor, from, queue, watcherFrame>>

\* The repair is requested when the stream is lost, before the reconnect.
SendRepair ==
    /\ pc # "exited"
    /\ stream = "lost"
    /\ Len(queue) < Cap
    /\ queue' = Append(queue, 0)
    /\ stream' = "connecting"
    /\ UNCHANGED <<cursor, breaks, from, watcherFrame>>

-----------------------------------------------------------------------------
(* The main loop: events and debounce.                                     *)

mainFrame == <<nomadVars, watcherVars>>

\* A batch is applied to the cache at once and kept for the replay.
Receive ==
    /\ pc \in {"idle", "debounce"}
    /\ queue # <<>>
    /\ queue' = Tail(queue)
    /\ pc' = "debounce"
    /\ LET i == Head(queue)
       IN  IF i = 0
           THEN /\ repair' = TRUE
                /\ UNCHANGED <<cache, asOf, replay>>
           ELSE /\ cache' = Apply(cache, i)
                /\ asOf' = Older(asOf, i)
                /\ replay' = Append(replay, i)
                /\ repair' = (repair \/ log[i].malformed)
    /\ UNCHANGED <<mainFrame, served, snapVars, budgetVars, lostRepair>>

\* The 500ms timer fires: one pass for the whole burst.
EndDebounce ==
    /\ pc = "debounce"
    /\ IF repair
       THEN /\ pc' = "list"
            /\ UNCHANGED <<served, replay>>
       ELSE /\ pc' = "idle"
            /\ served' = cache
            /\ replay' = <<>>
    /\ UNCHANGED <<mainFrame, queue, cache, asOf, repair, snapVars,
                   budgetVars, lostRepair>>

\* A draining deadline or the certificate timer: a pass over the cache.
CachedPass ==
    /\ pc = "idle"
    /\ served' = cache
    /\ UNCHANGED <<mainFrame, queue, pc, cache, asOf, repair, replay,
                   snapVars, budgetVars, lostRepair>>

StartRepair ==
    /\ pc = "idle"
    /\ pc' = "list"
    /\ UNCHANGED <<mainFrame, queue, cacheVars, repair, replay, snapVars,
                   budgetVars, lostRepair>>

RetryPass == retry /\ StartRepair

\* As if the sync interval reconciled from the cache.
IntervalUsesCache == CachedPass
IntervalPass == StartRepair

-----------------------------------------------------------------------------
(* The main loop: a repairing pass.                                        *)

\* The stubs carry the union of the tags of a service's registrations.
List ==
    /\ pc = "list"
    /\ pc' = "get"
    /\ snap' = Empty
    /\ toGet' = {ServiceOf[r] : r \in {q \in Reg : Enabled(catalog, q)}}
    /\ again' = FALSE
    /\ snapAsOf' = Len(log)
    /\ listed' = Len(log)
    /\ UNCHANGED <<mainFrame, queue, cacheVars, repair, replay, budgetVars,
                   lostRepair>>

\* Every registration of the service is taken, with the enable tag or not.
Get(s) ==
    /\ pc = "get"
    /\ s \in toGet
    /\ snap' = [r \in Reg |-> IF ServiceOf[r] = s THEN catalog[r] ELSE snap[r]]
    /\ toGet' = toGet \ {s}
    /\ UNCHANGED <<mainFrame, queue, pc, cacheVars, repair, replay, snapAsOf,
                   listed, again, budgetVars, lostRepair>>

\* As if a failed gather did not ask for a retry.
GatherFailNoRetry ==
    /\ pc = "list" \/ (pc = "get" /\ toGet # {})
    /\ failures' = IF failures < FatalAfter THEN failures + 1 ELSE failures
    /\ pc' = IF FatalAfter > 0 /\ failures' >= FatalAfter
             THEN "exited" ELSE "idle"
    /\ repair' = FALSE
    /\ replay' = <<>>
    /\ NoSnapshot
    /\ UNCHANGED <<mainFrame, queue, cacheVars, retry, lostRepair>>

\* A request of the gather failed: spend budget, give up or schedule a retry.
GatherFail ==
    /\ pc = "list" \/ (pc = "get" /\ toGet # {})
    /\ failures' = IF failures < FatalAfter THEN failures + 1 ELSE failures
    /\ pc' = IF FatalAfter > 0 /\ failures' >= FatalAfter
             THEN "exited" ELSE "idle"
    /\ retry' = TRUE
    /\ repair' = FALSE
    /\ replay' = <<>>
    /\ NoSnapshot
    /\ UNCHANGED <<mainFrame, queue, cacheVars, lostRepair>>

\* Nomad rejected the identity of the allocation: give up at once.
GatherRejected ==
    /\ pc = "list" \/ (pc = "get" /\ toGet # {})
    /\ pc' = "exited"
    /\ NoSnapshot
    /\ UNCHANGED <<mainFrame, queue, cacheVars, repair, replay, budgetVars,
                   lostRepair>>

gathered == pc = "get" /\ toGet = {}

ApplyToSnap(i) ==
    /\ snap' = Apply(snap, i)
    /\ snapAsOf' = Older(snapAsOf, i)
    /\ again' = (again \/ log[i].malformed)
    /\ UNCHANGED <<listed, toGet>>

ReplayOne ==
    /\ gathered
    /\ replay # <<>>
    /\ replay' = Tail(replay)
    /\ ApplyToSnap(Head(replay))
    /\ UNCHANGED <<mainFrame, queue, pc, cacheVars, repair, budgetVars,
                   lostRepair>>

\* Batches that arrived during the gather, and the repair requests among them.
DrainOne ==
    /\ gathered
    /\ replay = <<>>
    /\ queue # <<>>
    /\ queue' = Tail(queue)
    /\ IF Head(queue) = 0
       THEN /\ again' = TRUE
            /\ UNCHANGED <<snap, snapAsOf, listed, toGet>>
       ELSE ApplyToSnap(Head(queue))
    /\ UNCHANGED <<mainFrame, pc, cacheVars, repair, replay, budgetVars,
                   lostRepair>>

Finished ==
    /\ pc' = "idle"
    /\ served' = cache'
    /\ retry' = FALSE
    /\ failures' = 0
    /\ repair' = FALSE

\* The channel is empty: the snapshot becomes the state.
Install ==
    /\ gathered
    /\ replay = <<>>
    /\ queue = <<>>
    /\ cache' = snap
    /\ asOf' = snapAsOf
    /\ IF again
       THEN /\ pc' = "resend"
            /\ UNCHANGED <<served, retry, failures, repair>>
       ELSE Finished
    /\ lostRepair' = (lostRepair /\ again)
    /\ NoSnapshot
    /\ UNCHANGED <<mainFrame, queue, replay>>

\* As if an event read during the gather were not put back.
ResendDropped ==
    /\ pc = "resend"
    /\ UNCHANGED <<cache, asOf, queue, lostRepair>>
    /\ Finished
    /\ UNCHANGED <<mainFrame, replay, snapVars>>

\* The repair request is put back on the channel unless the channel is full.
Resend ==
    /\ pc = "resend"
    /\ IF Len(queue) < Cap
       THEN queue' = Append(queue, 0) /\ UNCHANGED lostRepair
       ELSE lostRepair' = TRUE /\ UNCHANGED queue
    /\ UNCHANGED <<cache, asOf>>
    /\ Finished
    /\ UNCHANGED <<mainFrame, replay, snapVars>>

\* The process is gone.
Exited == pc = "exited" /\ UNCHANGED vars

-----------------------------------------------------------------------------
Init ==
    /\ log = <<>> /\ catalog = Empty
    /\ stream = "connecting" /\ cursor = 0 /\ breaks = 0 /\ from = 0
    /\ queue = <<>>
    /\ pc = "list"
    /\ cache = Empty /\ asOf = 0 /\ served = Empty
    /\ repair = FALSE /\ replay = <<>>
    /\ snap = Empty /\ toGet = {} /\ again = FALSE
    /\ snapAsOf = 0 /\ listed = 0
    /\ retry = FALSE /\ failures = 0
    /\ lostRepair = FALSE

Reconnect == ConnectFails \/ \E b \in Backlogs : Connect(b)
Watcher == Reconnect \/ Deliver \/ Break \/ SendRepair
Gather == List \/ (\E s \in toGet : Get(s)) \/ GatherFail \/ GatherRejected
Finish == ReplayOne \/ DrainOne \/ Install \/ Resend

Next ==
    \/ \E f \in Frames : Change(f)
    \/ Watcher
    \/ Receive
    \/ EndDebounce
    \/ RetryPass
    \/ IntervalPass
    \/ CachedPass
    \/ Gather
    \/ Finish
    \/ Exited

Spec == Init /\ [][Next]_vars

(***************************************************************************)
(* The main loop runs whenever it can; a request returns, well or badly,   *)
(* because the client has timeouts, and one that is repeated for ever      *)
(* sometimes succeeds.  The select of the loop chooses uniformly among the *)
(* channels that are ready, so one that is ready again and again is        *)
(* chosen: strong fairness.  The retry timer, made anew in each turn of    *)
(* the loop, must find it without events for 250 ms: there are only        *)
(* MaxIndex frames, and a second at least between two repair requests.     *)
(***************************************************************************)
MainFairness ==
    /\ WF_vars(EndDebounce) /\ WF_vars(Gather) /\ WF_vars(Finish)
    /\ SF_vars(List) /\ SF_vars(\E s \in Service : Get(s))
    /\ SF_vars(Receive) /\ SF_vars(RetryPass)

FairSpec == Spec /\ MainFairness

\* The interval timer fires again and again.
IntervalRuns == SF_vars(IntervalPass)

\* The watcher runs too.
WatcherRuns == WF_vars(Reconnect) /\ WF_vars(Deliver) /\ WF_vars(SendRepair)

-----------------------------------------------------------------------------
(* Properties.                                                             *)

Rows == [Reg -> 0..Len(log)]

NomadType ==
    /\ log \in Seq(Frames) /\ Len(log) =< MaxIndex
    /\ catalog \in Rows
WatcherType ==
    /\ stream \in {"connecting", "up", "lost"}
    /\ cursor \in 0..Len(log) /\ from \in 0..Len(log)
    /\ breaks \in 0..MaxBreaks
ChannelType ==
    /\ queue \in Seq(0..Len(log)) /\ Len(queue) =< Cap
    /\ replay \in Seq(1..Len(log))
RowsType ==
    /\ cache \in Rows /\ served \in Rows /\ snap \in Rows
    /\ asOf \in 0..Len(log) /\ snapAsOf \in 0..Len(log)
    /\ listed \in 0..Len(log)
MainType ==
    /\ pc \in {"idle", "debounce", "list", "get", "resend", "exited"}
    /\ toGet \subseteq Service
    /\ failures \in 0..FatalAfter
FlagsType ==
    /\ repair \in BOOLEAN /\ again \in BOOLEAN
    /\ retry \in BOOLEAN /\ lostRepair \in BOOLEAN

\* Frames are numbered by Nomad's index; the channel holds at most Cap.
TypeOK ==
    /\ NomadType /\ WatcherType /\ ChannelType
    /\ RowsType /\ MainType /\ FlagsType

\* What a row says about the registrations that opted in.
Live(c, r) == IF Enabled(c, r) THEN c[r] ELSE 0
Right(c, r) == Live(c, r) = Live(catalog, r)

\* A repair is under way or asked for.
RepairDue ==
    \/ repair \/ retry
    \/ pc \in {"list", "get", "resend"}
    \/ 0 \in Range(queue)

(***************************************************************************)
(* The cache is right.  When no repair is outstanding or was dropped, and  *)
(* the frames handed over reach back to where the snapshot ends, then for  *)
(* every registration whose last frame has been received the cache and     *)
(* Nomad agree: no interleaving of events, gathers, failures, replays and  *)
(* reconnections leaves a lost or a resurrected registration behind that   *)
(* nothing will correct (apply, gatherState, the pass of run).             *)
(***************************************************************************)
Coherent ==
    ~RepairDue /\ ~lostRepair /\ pc # "exited" /\ from =< asOf =>
        \A r \in Reg : \A i \in 1..cursor :
            IsLast(r, i) /\ i \notin Range(queue) => Right(cache, r)

(***************************************************************************)
(* Why Coherent holds.  A nonzero row names a frame that registered its    *)
(* registration, and the catalog's rows the last one; the frames on the    *)
(* channel and in the replay are each followed by all later ones that were *)
(* handed over; up to asOf a row is right because nothing older was        *)
(* applied since, and beyond from because its last frame came after every  *)
(* other.  The snapshot is right in the same two ways, service by service. *)
(***************************************************************************)
Known(c) ==
    \A r \in Reg : c[r] # 0 => log[c[r]].op[r] \in {"enabled", "disabled"}

CatalogCurrent ==
    \A r \in Reg : \A i \in 1..Len(log) :
        IsLast(r, i) => catalog[r] = IF log[i].op[r] = "deregistered"
                                     THEN 0 ELSE i

QueueInOrder ==
    \A n \in DOMAIN queue : \A j \in 1..cursor :
        queue[n] # 0 /\ queue[n] < j =>
            j =< from \/ \E m \in DOMAIN queue : m > n /\ queue[m] = j

ReplayInOrder ==
    \A n \in DOMAIN replay : \A j \in 1..cursor :
        replay[n] < j =>
            \/ j =< from \/ j \in Range(queue)
            \/ \E m \in DOMAIN replay : m > n /\ replay[m] = j

Awaited(i) == i > cursor \/ i =< from \/ i \in Range(queue)

CacheAsOf ==
    \A r \in Reg : \A i \in 1..asOf : IsLast(r, i) => Right(cache, r)

CacheFollows ==
    RepairDue \/ lostRepair \/ pc = "exited" \/
        \A r \in Reg : \A i \in 1..Len(log) :
            IsLast(r, i) => Awaited(i) \/ Right(cache, r)

SnapAsOf ==
    pc = "get" => \A r \in Reg : \A i \in 1..snapAsOf :
        IsLast(r, i) => ServiceOf[r] \in toGet \/ Right(snap, r)

SnapFollows ==
    pc = "get" /\ ~again => \A r \in Reg : \A i \in 1..Len(log) :
        IsLast(r, i) => \/ Awaited(i) \/ i \in Range(replay)
                        \/ ServiceOf[r] \in toGet \/ Right(snap, r)

\* All of it together is inductive.
IInv ==
    /\ TypeOK
    /\ Known(catalog) /\ Known(cache) /\ Known(snap)
    /\ CatalogCurrent
    /\ QueueInOrder /\ ReplayInOrder
    /\ CacheAsOf /\ CacheFollows
    /\ SnapAsOf /\ SnapFollows

(***************************************************************************)
(* Once Nomad stops changing, the endpoints converge to its catalog or the *)
(* connector gives up, whatever was lost, with a stream that may hang for  *)
(* ever: the interval pass and the failure retries see to it.              *)
(***************************************************************************)
ServedRight == \A r \in Reg : Right(served, r)

Converges == IntervalRuns => <>[](pc = "exited" \/ ServedRight)

(***************************************************************************)
(* The same with an interval too long to matter, unless the backlog of a   *)
(* new stream began after the snapshot in place or a repair request found  *)
(* the channel full: events, their repairs and their retries are enough.   *)
(***************************************************************************)
ConvergesFromEvents ==
    WatcherRuns =>
        <>[](pc = "exited" \/ lostRepair \/ from > asOf \/ ServedRight)

(***************************************************************************)
(* "Replay events received while the multi-request snapshot was being      *)
(* built so the installed state is not already stale" (main.go:250): with  *)
(* the stream down, so that no event under way can correct it, a snapshot  *)
(* ready to be installed is right wherever Nomad has not changed since the *)
(* services were listed.                                                   *)
(***************************************************************************)
InstalledNotStale ==
    gathered /\ replay = <<>> /\ queue = <<>> /\ ~again
        /\ stream = "connecting" =>
        \A r \in Reg : \A i \in 1..listed : IsLast(r, i) => Right(snap, r)
=============================================================================
