------------------------- MODULE HttpEndpointProof --------------------------
(***************************************************************************)
(* Proofs about HttpEndpoint, for every number of connections and every    *)
(* limit.                                                                  *)
(***************************************************************************)
EXTENDS HttpEndpoint, TLAPS

USE LimitAssumption, BoundsAssumption

\* The steps of a connection that change nothing but where its goroutine is.
Passes(c) ==
    \/ Serve(c) \/ HeaderTimeout(c) \/ Cut(c) \/ NotMounted(c) \/ NotReused(c)
    \/ BecomeIdle(c) \/ KeepAlive(c) \/ ClientLeaves(c) \/ Answer(c)
    \/ Abort(c) \/ Upgrade(c) \/ UpgradeEnds(c)

\* The steps of a walk over connections.
Visits(c) == VisitIdle(c) \/ CloseServed(c) \/ CloseTracked(c)

\* The steps of the main loop from one statement to the next.
Proceeds ==
    \/ Drain \/ DisableKeepAlives \/ Drained
    \/ CloseServer \/ TakeServed \/ TakeTracked \/ Closed

LEMMA NextCases ==
    Next => \/ SetBackend \/ Proceeds \/ ServeReturns
            \/ \E c \in Conn : \/ Visits(c) \/ Passes(c) \/ Leave(c)
                               \/ Accept(c) \/ Track(c) \/ Request(c)
                               \/ LoadBackend(c)
BY DEF Next, Draining, Closing, Goroutine, Peers, Visits, Passes, Proceeds

LEMMA PassFacts ==
    ASSUME TypeOK, NEW c \in Conn, Passes(c)
    PROVE  /\ UNCHANGED <<endVars, serving, tracked, open, reqVars>>
           /\ \E to \in Places :
                 /\ at' = [at EXCEPT ![c] = to]
                 /\ to = "waiting" => keep /\ ~ShuttingDown
                 /\ \/ at[c] = "tracked" /\ to = "reading"
                    \/ /\ at[c] \in {"reading", "serving", "proxying",
                                     "answered", "idle", "waiting", "hijacked"}
                       /\ to \in {"answered", "idle", "waiting", "leaving",
                                  "hijacked", "ended"}
                 /\ at[c] = "hijacked" <=> to = "ended"
<1>1. UNCHANGED <<endVars, serving, tracked, open, reqVars>>
  BY DEF Passes, Serve, HeaderTimeout, Cut, NotMounted, NotReused, BecomeIdle,
         KeepAlive, ClientLeaves, Answer, Abort, Upgrade, UpgradeEnds, sockVars
<1>2. CASE Serve(c)
  BY <1>1, <1>2 DEF Serve, Goes, Places
<1>3. CASE Cut(c)
  BY <1>1, <1>3 DEF Cut, Goes, Places
<1>4. CASE KeepAlive(c)
  BY <1>1, <1>4 DEF KeepAlive, Goes, Places
<1>5. CASE \/ HeaderTimeout(c) \/ NotMounted(c) \/ NotReused(c)
           \/ BecomeIdle(c) \/ ClientLeaves(c)
  BY <1>1, <1>5 DEF HeaderTimeout, NotMounted, NotReused, BecomeIdle,
                    ClientLeaves, Goes, Places
<1>6. CASE Answer(c) \/ Abort(c) \/ Upgrade(c) \/ UpgradeEnds(c)
  BY <1>1, <1>6 DEF Answer, Abort, Upgrade, UpgradeEnds, Goes, Places
<1> QED
  BY <1>2, <1>3, <1>4, <1>5, <1>6 DEF Passes

-----------------------------------------------------------------------------
(* Type correctness.                                                       *)

LEMMA InitType == Init => TypeOK
BY DEF Init, TypeOK, Mains, Places

LEMMA TypeStep == TypeOK /\ [Next]_vars => TypeOK'
<1> SUFFICES ASSUME TypeOK, [Next]_vars PROVE TypeOK'
  OBVIOUS
<1>1. CASE SetBackend
  BY <1>1 DEF SetBackend, TypeOK, connVars, reqVars
<1>2. CASE Proceeds
  BY <1>2 DEF Proceeds, Drain, DisableKeepAlives, Drained, CloseServer,
              TakeServed, TakeTracked, Closed, Main, TypeOK, Mains, connVars,
              reqVars
<1>3. CASE ServeReturns
  BY <1>3 DEF ServeReturns, TypeOK, endVars, connVars, reqVars
<1>4. ASSUME NEW c \in Conn, Visits(c) PROVE TypeOK'
  BY <1>4 DEF Visits, VisitIdle, CloseServed, CloseTracked, Shut, TypeOK,
              reqVars
<1>5. ASSUME NEW c \in Conn, Passes(c) PROVE TypeOK'
  BY <1>5, PassFacts DEF TypeOK, endVars, reqVars
<1>6. ASSUME NEW c \in Conn, Leave(c) PROVE TypeOK'
  BY <1>6 DEF Leave, Goes, Shut, TypeOK, Places, endVars, reqVars
<1>7. ASSUME NEW c \in Conn, Accept(c) \/ Track(c) PROVE TypeOK'
  BY <1>7 DEF Accept, Track, Goes, TypeOK, Places, endVars, reqVars
<1>8. ASSUME NEW c \in Conn, Request(c) \/ LoadBackend(c) PROVE TypeOK'
  BY <1>8 DEF Request, LoadBackend, Goes, TypeOK, Places, endVars, sockVars
<1>9. CASE UNCHANGED vars
  BY <1>9 DEF vars, endVars, connVars, reqVars, TypeOK
<1> QED
  BY <1>1, <1>2, <1>3, <1>4, <1>5, <1>6, <1>7, <1>8, <1>9, NextCases

\* Every reachable state of HttpEndpoint is well formed.
THEOREM TypeCorrect == Spec => []TypeOK
BY InitType, TypeStep, PTL DEF Spec

-----------------------------------------------------------------------------
(***************************************************************************)
(* IInv, a part at a time.                                                 *)
(***************************************************************************)

LEMMA VisitsTracked ==
    ASSUME IInv, NEW c \in Conn, Visits(c)
    PROVE  /\ UNCHANGED <<main, keep, backend, serving, at, reqVars>>
           /\ c \in left /\ left' = left \ {c}
           /\ \/ Shut(c) /\ c \notin Arriving
              \/ main = "idling" /\ at[c] # "waiting"
                    /\ UNCHANGED <<open, tracked>>
<1>1. CASE VisitIdle(c)
  BY <1>1 DEF VisitIdle, ServerIdle, Shut, Arriving
<1>2. CASE CloseServed(c) \/ CloseTracked(c)
  <2>1. /\ main \in {"stopped", "closing"} /\ Shut(c)
        /\ UNCHANGED <<main, keep, backend, serving, at, reqVars>>
        /\ c \in left /\ left' = left \ {c}
    BY <1>2 DEF CloseServed, CloseTracked
  <2>2. Arriving = {}
    BY <2>1 DEF IInv, Shutting
  <2> QED
    BY <2>1, <2>2
<1> QED
  BY <1>1, <1>2 DEF Visits

LEMMA OwnedStep == IInv /\ [Next]_vars => Owned'
<1> SUFFICES ASSUME IInv, [Next]_vars PROVE Owned'
  OBVIOUS
<1>t. TypeOK /\ Owned
  BY DEF IInv
<1>1. CASE SetBackend \/ Proceeds \/ ServeReturns
  <2>1. UNCHANGED connVars
    BY <1>1 DEF SetBackend, Proceeds, Drain, DisableKeepAlives, Drained,
                CloseServer, TakeServed, TakeTracked, Closed, ServeReturns
  <2> QED
    BY <1>t, <2>1 DEF connVars, Owned, Arriving
<1>2. ASSUME NEW c \in Conn, Visits(c) PROVE Owned'
  <2>1. UNCHANGED at
    BY <1>2, VisitsTracked
  <2>2. CASE Shut(c) /\ c \notin Arriving
    BY <1>t, <2>1, <2>2 DEF Shut, Owned, Arriving
  <2>3. CASE UNCHANGED <<open, tracked>>
    BY <1>t, <2>1, <2>3 DEF Owned, Arriving
  <2> QED
    BY <1>2, <2>2, <2>3, VisitsTracked
<1>3. ASSUME NEW c \in Conn, Passes(c) PROVE Owned'
  <2>1. PICK to \in Places :
           /\ at' = [at EXCEPT ![c] = to]
           /\ at[c] = "tracked" \/ at[c] \notin {"new", "accepted", "done"}
           /\ to \notin {"new", "accepted", "tracked", "done"}
    BY <1>t, <1>3, PassFacts
  <2>2. UNCHANGED <<open, tracked>>
    BY <1>t, <1>3, PassFacts
  <2>3. Arriving' = Arriving \ {c}
    BY <1>t, <2>1 DEF Arriving, TypeOK
  <2>4. {d \in Conn : at[d] = "accepted"}' = {d \in Conn : at[d] = "accepted"}
    BY <1>t, <2>1 DEF TypeOK
  <2> QED
    BY <1>t, <2>1, <2>2, <2>3, <2>4 DEF Owned, TypeOK
<1>4. ASSUME NEW c \in Conn, Leave(c) PROVE Owned'
  BY <1>t, <1>4 DEF Leave, Goes, Shut, Owned, Arriving, TypeOK
<1>5. ASSUME NEW c \in Conn, Accept(c) PROVE Owned'
  BY <1>t, <1>5 DEF Accept, Goes, Owned, Arriving, TypeOK
<1>6. ASSUME NEW c \in Conn, Track(c) PROVE Owned'
  BY <1>t, <1>6 DEF Track, Goes, Owned, Arriving, TypeOK
<1>7. ASSUME NEW c \in Conn, Request(c) \/ LoadBackend(c) PROVE Owned'
  BY <1>t, <1>7 DEF Request, LoadBackend, Goes, sockVars, Owned, Arriving,
                    TypeOK
<1>8. CASE UNCHANGED vars
  BY <1>t, <1>8 DEF vars, connVars, Owned, Arriving
<1> QED
  BY <1>1, <1>2, <1>3, <1>4, <1>5, <1>6, <1>7, <1>8, NextCases

LEMMA NoneKeptStep == IInv /\ [Next]_vars => NoneKept'
<1> SUFFICES ASSUME IInv, [Next]_vars PROVE NoneKept'
  OBVIOUS
<1>t. TypeOK /\ NoneKept /\ Shutting
  BY DEF IInv
<1>1. CASE SetBackend \/ ServeReturns
  BY <1>t, <1>1 DEF SetBackend, ServeReturns, endVars, connVars, reqVars,
                    NoneKept
<1>2. CASE Proceeds
  <2>1. UNCHANGED <<connVars, reqVars>>
    BY <1>2 DEF Proceeds, Drain, DisableKeepAlives, Drained, CloseServer,
                TakeServed, TakeTracked, Closed
  <2>2. CASE DisableKeepAlives
    <3>1. /\ main' = "idling" /\ keep' = FALSE /\ late' = {}
          /\ \A c \in open : at[c] = "waiting" => c \in left'
      BY <1>t, <2>1, <2>2 DEF DisableKeepAlives, Main, ServerTracks, reqVars,
                              NoneKept, TypeOK
    <3> QED
      BY <2>1, <3>1 DEF connVars, NoneKept
  <2>3. CASE Drained
    BY <1>t, <2>1, <2>3 DEF Drained, Main, connVars, reqVars, NoneKept
  <2>4. CASE \/ Drain \/ CloseServer \/ TakeServed \/ TakeTracked \/ Closed
    BY <1>t, <2>1, <2>4 DEF Drain, CloseServer, TakeServed, TakeTracked,
                            Closed, Main, connVars, reqVars, NoneKept
  <2> QED
    BY <1>2, <2>2, <2>3, <2>4 DEF Proceeds
<1>3. ASSUME NEW c \in Conn, Visits(c) PROVE NoneKept'
  BY <1>t, <1>3, VisitsTracked DEF Shut, reqVars, NoneKept
<1>4. ASSUME NEW c \in Conn, Passes(c) PROVE NoneKept'
  <2>1. PICK to \in Places :
           /\ at' = [at EXCEPT ![c] = to]
           /\ to = "waiting" => keep
           /\ c \in late => to \in {"answered", "idle", "waiting", "leaving",
                                    "hijacked", "ended"}
    BY <1>t, <1>4, PassFacts DEF NoneKept
  <2>2. UNCHANGED <<main, keep, left, open, late>>
    BY <1>t, <1>4, PassFacts DEF endVars, reqVars
  <2>3. keep => late = {}
    BY <1>t DEF NoneKept
  <2> QED
    BY <1>t, <2>1, <2>2, <2>3 DEF NoneKept, TypeOK
<1>5. ASSUME NEW c \in Conn, Leave(c) PROVE NoneKept'
  BY <1>t, <1>5 DEF Leave, Goes, Shut, endVars, reqVars, NoneKept, TypeOK
<1>6. ASSUME NEW c \in Conn, Accept(c) \/ Track(c) PROVE NoneKept'
  BY <1>t, <1>6 DEF Accept, Track, Goes, endVars, reqVars, NoneKept, TypeOK
<1>7. ASSUME NEW c \in Conn, Request(c) PROVE NoneKept'
  BY <1>t, <1>7 DEF Request, Goes, endVars, sockVars, NoneKept, TypeOK
<1>8. ASSUME NEW c \in Conn, LoadBackend(c) PROVE NoneKept'
  BY <1>t, <1>8 DEF LoadBackend, Goes, endVars, sockVars, NoneKept, TypeOK
<1>9. CASE UNCHANGED vars
  BY <1>t, <1>9 DEF vars, endVars, connVars, reqVars, NoneKept
<1> QED
  BY <1>1, <1>2, <1>3, <1>4, <1>5, <1>6, <1>7, <1>8, <1>9, NextCases

LEMMA ShuttingStep == IInv /\ [Next]_vars => Shutting'
<1> SUFFICES ASSUME IInv, [Next]_vars PROVE Shutting'
  OBVIOUS
<1>t. TypeOK /\ Owned /\ Shutting
  BY DEF IInv
<1>1. CASE SetBackend
  BY <1>t, <1>1 DEF SetBackend, connVars, Shutting, Arriving
<1>2. CASE ServeReturns
  BY <1>t, <1>2 DEF ServeReturns, endVars, connVars, Shutting, Arriving
<1>3. CASE Proceeds
  <2>1. UNCHANGED <<serving, connVars>>
    BY <1>3 DEF Proceeds, Drain, DisableKeepAlives, Drained, CloseServer,
                TakeServed, TakeTracked, Closed
  <2>2. UNCHANGED Arriving
    BY <2>1 DEF connVars, Arriving
  <2>3. CASE TakeServed
    <3>1. \A c \in open : ServerTracks(c) \/ at[c] \in {"hijacked", "ended"}
      BY <1>t, <2>3 DEF TakeServed, ServerTracks, Owned, Shutting, Arriving,
                        TypeOK, Places
    <3> QED
      BY <1>t, <2>1, <2>2, <2>3, <3>1
         DEF TakeServed, Main, connVars, Shutting, TypeOK
  <2>4. CASE TakeTracked
    <3>1. open \subseteq tracked
      BY <1>t, <2>4 DEF TakeTracked, Main, Owned, Shutting, Arriving
    <3> QED
      BY <1>t, <2>1, <2>2, <2>4, <3>1 DEF TakeTracked, Main, connVars, Shutting
  <2>5. CASE Closed
    BY <1>t, <2>1, <2>2, <2>5 DEF Closed, Main, connVars, Shutting
  <2>6. CASE Drain \/ DisableKeepAlives \/ Drained \/ CloseServer
    BY <1>t, <2>1, <2>2, <2>6 DEF Drain, DisableKeepAlives, Drained,
                                  CloseServer, Main, connVars, Shutting
  <2> QED
    BY <1>3, <2>3, <2>4, <2>5, <2>6 DEF Proceeds
<1>4. ASSUME NEW c \in Conn, Visits(c) PROVE Shutting'
  <2>1. Arriving' = Arriving
    BY <1>4, VisitsTracked DEF Arriving
  <2> QED
    BY <1>t, <1>4, <2>1, VisitsTracked DEF Shut, Shutting
<1>5. ASSUME NEW c \in Conn, Passes(c) PROVE Shutting'
  <2>1. PICK to \in Places :
           /\ at' = [at EXCEPT ![c] = to]
           /\ to \notin {"accepted", "tracked"}
           /\ at[c] = "hijacked" => to = "ended"
           /\ at[c] # "ended"
    BY <1>t, <1>5, PassFacts
  <2>2. UNCHANGED <<main, left, serving, open>>
    BY <1>t, <1>5, PassFacts DEF endVars
  <2>3. Arriving' \subseteq Arriving
    BY <1>t, <2>1 DEF Arriving, TypeOK
  <2> QED
    BY <1>t, <2>1, <2>2, <2>3 DEF Shutting, TypeOK
<1>6. ASSUME NEW c \in Conn, Leave(c) PROVE Shutting'
  BY <1>t, <1>6 DEF Leave, Goes, Shut, endVars, Shutting, Arriving, TypeOK
<1>7. ASSUME NEW c \in Conn, Accept(c) PROVE Shutting'
  BY <1>t, <1>7 DEF Accept, Goes, endVars, Shutting, Arriving, TypeOK
<1>8. ASSUME NEW c \in Conn, Track(c) PROVE Shutting'
  BY <1>t, <1>8 DEF Track, Goes, endVars, Shutting, Arriving, TypeOK
<1>9. ASSUME NEW c \in Conn, Request(c) \/ LoadBackend(c) PROVE Shutting'
  BY <1>t, <1>9 DEF Request, LoadBackend, Goes, endVars, sockVars, Shutting,
                    Arriving, TypeOK
<1>10. CASE UNCHANGED vars
  BY <1>t, <1>10 DEF vars, endVars, connVars, Shutting, Arriving
<1> QED
  BY <1>1, <1>2, <1>3, <1>4, <1>5, <1>6, <1>7, <1>8, <1>9, <1>10, NextCases

LEMMA AddressedStep == IInv /\ [Next]_vars => Addressed'
<1> SUFFICES ASSUME IInv, [Next]_vars PROVE Addressed'
  OBVIOUS
<1>t. TypeOK /\ Addressed
  BY DEF IInv
<1>1. CASE SetBackend
  BY <1>t, <1>1 DEF SetBackend, connVars, reqVars, Addressed, TypeOK
<1>2. CASE Proceeds \/ ServeReturns
  BY <1>t, <1>2 DEF Proceeds, Drain, DisableKeepAlives, Drained, CloseServer,
                    TakeServed, TakeTracked, Closed, ServeReturns, endVars,
                    connVars, reqVars, Addressed
<1>3. ASSUME NEW c \in Conn, Visits(c) PROVE Addressed'
  BY <1>t, <1>3, VisitsTracked DEF reqVars, Addressed
<1>4. ASSUME NEW c \in Conn, Passes(c) PROVE Addressed'
  <2>1. PICK to \in Places : at' = [at EXCEPT ![c] = to] /\ to # "proxying"
    BY <1>t, <1>4, PassFacts
  <2> QED
    BY <1>t, <1>4, <2>1, PassFacts DEF endVars, reqVars, Addressed, TypeOK
<1>5. ASSUME NEW c \in Conn, Leave(c) \/ Accept(c) \/ Track(c) PROVE Addressed'
  BY <1>t, <1>5 DEF Leave, Accept, Track, Goes, endVars, reqVars, Addressed,
                    TypeOK
<1>6. ASSUME NEW c \in Conn, Request(c) PROVE Addressed'
  BY <1>t, <1>6 DEF Request, Goes, endVars, Addressed, TypeOK
<1>7. ASSUME NEW c \in Conn, LoadBackend(c) PROVE Addressed'
  BY <1>t, <1>7 DEF LoadBackend, Goes, endVars, Addressed, TypeOK
<1>8. CASE UNCHANGED vars
  BY <1>t, <1>8 DEF vars, endVars, connVars, reqVars, Addressed
<1> QED
  BY <1>1, <1>2, <1>3, <1>4, <1>5, <1>6, <1>7, <1>8, NextCases

LEMMA InitIInv == Init => IInv
<1> SUFFICES ASSUME Init PROVE IInv
  OBVIOUS
<1>1. Owned /\ NoneKept /\ Shutting
  BY DEF Init, Owned, NoneKept, Shutting, Arriving
<1>2. Addressed
  BY DEF Init, Addressed
<1> QED
  BY <1>1, <1>2, InitType DEF IInv

LEMMA StepIInv == IInv /\ [Next]_vars => IInv'
BY TypeStep, OwnedStep, NoneKeptStep, ShuttingStep, AddressedStep DEF IInv

(***************************************************************************)
(* What the goroutines, the server and the main loop have to keep between  *)
(* them so that nobody is overlooked.                                      *)
(***************************************************************************)
THEOREM Inductive == Spec => []IInv
BY InitIInv, StepIInv, PTL DEF Spec

(***************************************************************************)
(* An endpoint that is closed has no client left, whoever was arriving or  *)
(* upgraded meanwhile.                                                     *)
(***************************************************************************)
THEOREM ClosedForAll == Spec => []NothingLeft
<1>1. IInv => NothingLeft
  BY DEF IInv, Shutting, Owned, NothingLeft
<1> QED
  BY <1>1, Inductive, PTL

(***************************************************************************)
(* Requests follow SetBackend, on whatever connection they come.           *)
(***************************************************************************)
THEOREM RequestsFresh == Spec => []FreshRequest
<1>1. IInv => FreshRequest
  BY DEF IInv, Addressed, FreshRequest
<1> QED
  BY <1>1, Inductive, PTL

(***************************************************************************)
(* A drained endpoint keeps no connection for a second request.            *)
(***************************************************************************)
LEMMA OnceLate ==
    IInv /\ [Next]_vars =>
        \A c \in Conn : at[c] # "serving" /\ at'[c] = "serving" => c \notin late
<1> SUFFICES ASSUME IInv, [Next]_vars, NEW d \in Conn,
                    at[d] # "serving", at'[d] = "serving"
             PROVE  d \notin late
  OBVIOUS
<1>t. TypeOK /\ NoneKept
  BY DEF IInv
<1>1. at' # at
  OBVIOUS
<1>2. ~(SetBackend \/ Proceeds \/ ServeReturns \/ UNCHANGED vars)
  BY <1>1 DEF SetBackend, Proceeds, Drain, DisableKeepAlives, Drained,
              CloseServer, TakeServed, TakeTracked, Closed, ServeReturns,
              connVars, vars
<1>3. ASSUME NEW c \in Conn, Visits(c) PROVE FALSE
  BY <1>1, <1>3, VisitsTracked
<1>4. ASSUME NEW c \in Conn, Passes(c) PROVE FALSE
  BY <1>t, <1>4, PassFacts DEF TypeOK
<1>5. ASSUME NEW c \in Conn,
             Leave(c) \/ Accept(c) \/ Track(c) \/ LoadBackend(c)
      PROVE  FALSE
  BY <1>t, <1>5 DEF Leave, Accept, Track, LoadBackend, Goes, TypeOK
<1>6. ASSUME NEW c \in Conn, Request(c) PROVE d \notin late
  BY <1>t, <1>6 DEF Request, Goes, NoneKept, TypeOK
<1> QED
  BY <1>2, <1>3, <1>4, <1>5, <1>6, NextCases

THEOREM NoSecondRequest == Spec => OneMoreRequest
<1> USE DEF OneMoreRequest
<1>1. IInv /\ [Next]_vars =>
        [\A c \in Conn :
            at[c] # "serving" /\ at'[c] = "serving" => c \notin late]_vars
  BY OnceLate
<1> QED
  BY <1>1, Inductive, PTL DEF Spec

-----------------------------------------------------------------------------
(***************************************************************************)
(* The refinement.  Phase follows the main loop, and a connection is seen  *)
(* to change when its socket does.                                         *)
(***************************************************************************)
Conns == [c \in Conn |-> Seen(c)]

LEMMA Stutters ==
    ASSUME UNCHANGED <<Phase, tracked>>, \A c \in Conn : Seen(c)' = Seen(c)
    PROVE  UNCHANGED Abstract!vars
BY DEF Abstract!vars

LEMMA Shuts ==
    ASSUME IInv, NEW c \in Conn, Shut(c), UNCHANGED Phase,
           c \notin Arriving, at[c] \notin {"new", "done"}, at'[c] # "new",
           \A d \in Conn \ {c} : at'[d] = at[d]
    PROVE  Abstract!Next \/ UNCHANGED Abstract!vars
<1>1. \A d \in Conn \ {c} : Seen(d)' = Seen(d)
  BY DEF Shut, Seen
<1>2. Seen(c)' = "over" /\ Seen(c) \in {"open", "over"}
  BY DEF Shut, Seen
<1>3. Conns' = [Conns EXCEPT ![c] = "over"] /\ Conns[c] = Seen(c)
  BY <1>1, <1>2 DEF Conns
<1>4. CASE c \in open
  <2>1. c \in tracked /\ tracked' = tracked \ {c} /\ Conns[c] = "open"
    BY <1>3, <1>4 DEF Shut, Seen, IInv, Owned, Arriving
  <2> QED
    BY <1>3, <2>1 DEF Abstract!Next, Abstract!Finish, Conns
<1>5. CASE c \notin open
  BY <1>1, <1>2, <1>5, Stutters DEF Shut, Seen, IInv, Owned
<1> QED
  BY <1>4, <1>5

LEMMA InitRefines == Init => Abstract!Init
BY DEF Init, Abstract!Init, Phase, Seen

LEMMA StepRefines == IInv /\ [Next]_vars => [Abstract!Next]_(Abstract!vars)
<1> SUFFICES ASSUME IInv, [Next]_vars
             PROVE  Abstract!Next \/ UNCHANGED Abstract!vars
  OBVIOUS
<1>t. TypeOK
  BY DEF IInv
<1>1. CASE SetBackend \/ ServeReturns
  BY <1>1, Stutters DEF SetBackend, ServeReturns, endVars, connVars, Phase, Seen
<1>2. CASE Proceeds
  <2>1. UNCHANGED tracked /\ \A c \in Conn : Seen(c)' = Seen(c)
    BY <1>2 DEF Proceeds, Drain, DisableKeepAlives, Drained, CloseServer,
                TakeServed, TakeTracked, Closed, connVars, Seen
  <2>2. CASE Drain
    <3>1. Phase = "open" /\ Phase' = "draining"
      BY <2>2 DEF Drain, Main, Phase
    <3> QED
      BY <2>1, <3>1 DEF Abstract!Next, Abstract!Drain
  <2>3. CASE Closed
    <3>1. Phase = "draining" /\ Phase' = "closed"
      BY <2>3 DEF Closed, Main, Phase
    <3>2. tracked = {}
      BY <2>3 DEF Closed, Main, IInv, Shutting, Owned
    <3> QED
      BY <2>1, <3>1, <3>2 DEF Abstract!Next, Abstract!Close
  <2>4. CASE \/ DisableKeepAlives \/ Drained \/ CloseServer
             \/ TakeServed \/ TakeTracked
    <3>1. UNCHANGED Phase
      BY <2>4 DEF DisableKeepAlives, Drained, CloseServer, TakeServed,
                  TakeTracked, Main, Phase
    <3> QED
      BY <2>1, <3>1, Stutters
  <2> QED
    BY <1>2, <2>2, <2>3, <2>4 DEF Proceeds
<1>3. ASSUME NEW c \in Conn, Visits(c)
      PROVE  Abstract!Next \/ UNCHANGED Abstract!vars
  <2>1. UNCHANGED <<Phase, at>>
    BY <1>3, VisitsTracked DEF Phase
  <2>2. CASE UNCHANGED <<open, tracked>>
    BY <2>1, <2>2, Stutters DEF Seen
  <2>3. CASE Shut(c) /\ c \notin Arriving /\ at[c] \notin {"new", "done"}
    BY <2>1, <2>3, Shuts
  <2>4. CASE Shut(c) /\ at[c] \in {"new", "done"}
    BY <2>2, <2>4 DEF Shut, IInv, Owned
  <2> QED
    BY <1>3, <2>2, <2>3, <2>4, VisitsTracked
<1>4. ASSUME NEW c \in Conn, Passes(c) PROVE UNCHANGED Abstract!vars
  <2>1. PICK to \in Places : /\ at' = [at EXCEPT ![c] = to]
                             /\ at[c] # "new" /\ to # "new"
    BY <1>t, <1>4, PassFacts
  <2> QED
    BY <1>t, <1>4, <2>1, PassFacts, Stutters DEF endVars, Phase, Seen, TypeOK
<1>5. ASSUME NEW c \in Conn, Leave(c)
      PROVE  Abstract!Next \/ UNCHANGED Abstract!vars
  BY <1>t, <1>5, Shuts DEF Leave, Goes, endVars, Phase, Arriving, TypeOK
<1>6. ASSUME NEW c \in Conn, Accept(c) PROVE Abstract!Next
  <2>1. Phase = "open" /\ UNCHANGED <<Phase, tracked>>
    BY <1>6 DEF Accept, endVars, Phase
  <2>2. Seen(c) = "new" /\ Seen(c)' = "open"
    BY <1>6 DEF Accept, Goes, Seen, IInv, Owned
  <2>3. \A d \in Conn \ {c} : Seen(d)' = Seen(d)
    BY <1>t, <1>6 DEF Accept, Goes, Seen, TypeOK
  <2>4. Conns' = [Conns EXCEPT ![c] = "open"] /\ Conns[c] = "new"
    BY <2>2, <2>3 DEF Conns
  <2> QED
    BY <2>1, <2>4 DEF Abstract!Next, Abstract!Begin, Conns
<1>7. ASSUME NEW c \in Conn, Track(c) PROVE Abstract!Next
  <2>1. UNCHANGED Phase /\ tracked' = tracked \cup {c}
    BY <1>7 DEF Track, endVars, Phase
  <2>2. Seen(c) = "open"
    BY <1>7 DEF Track, Goes, Seen, IInv, Owned, Arriving
  <2>3. \A d \in Conn : Seen(d)' = Seen(d)
    BY <1>t, <1>7 DEF Track, Goes, Seen, TypeOK
  <2> QED
    BY <2>1, <2>2, <2>3 DEF Abstract!Next, Abstract!Know
<1>8. ASSUME NEW c \in Conn, Request(c) \/ LoadBackend(c)
      PROVE  UNCHANGED Abstract!vars
  BY <1>t, <1>8, Stutters DEF Request, LoadBackend, Goes, endVars, sockVars,
                              Phase, Seen, TypeOK
<1>9. CASE UNCHANGED vars
  BY <1>9, Stutters DEF vars, endVars, connVars, Phase, Seen
<1> QED
  BY <1>1, <1>2, <1>3, <1>4, <1>5, <1>6, <1>7, <1>8, <1>9, NextCases

(***************************************************************************)
(* An HTTP endpoint is what publishedEndpoint promises.                    *)
(***************************************************************************)
THEOREM Implements == Spec => Promised
BY Inductive, InitRefines, StepRefines, PTL DEF Spec, Promised, Abstract!Spec
=============================================================================
