-------------------------- MODULE TcpEndpointProof --------------------------
(***************************************************************************)
(* Proofs about TcpEndpoint, for every number of connections, every limit  *)
(* and every amount of data.                                               *)
(***************************************************************************)
EXTENDS TcpEndpoint, TLAPS

USE LimitAssumption, BoundsAssumption

Pair == Conn \X Side

LEMMA Sides ==
    /\ Side = {"client", "backend"}
    /\ \A s \in Side : Other(s) \in Side /\ Other(s) # s /\ Other(Other(s)) = s
    /\ \A c \in Conn, s \in Side : <<c, s>> \in Pair
BY DEF Side, Other, Pair

LEMMA TypeFacts ==
    ASSUME TypeOK
    PROVE  /\ phase \in {"open", "draining", "closed"}
           /\ backend \in 0..MaxMoves
           /\ at \in [Conn -> {"new", "accepted", "tracked", "dialing",
                               "dialed", "piping", "leaving", "done"}]
           /\ since \in [Conn -> 0..MaxMoves] /\ addr \in [Conn -> 0..MaxMoves]
           /\ tracked \subseteq Pair /\ copying \subseteq Pair
           /\ sock \in [Pair -> {"none", "open", "half", "closed"}]
           /\ peer \in [Pair -> {"none", "open", "eof", "gone"}]
           /\ data \in [Pair -> 0..MaxData]
BY DEF TypeOK, Pair

-----------------------------------------------------------------------------
(* Type correctness.                                                       *)

LEMMA InitType == Init => TypeOK
BY DEF Init, TypeOK

LEMMA TypeStep == TypeOK /\ [Next]_vars => TypeOK'
<1> SUFFICES ASSUME TypeOK, [Next]_vars PROVE TypeOK'
  OBVIOUS
<1> USE TypeFacts, Sides
<1>1. CASE Main
  <2>1. CASE SetBackend
    BY <2>1 DEF SetBackend, TypeOK, connVars, netVars
  <2>2. CASE Drain
    BY <2>2 DEF Drain, TypeOK, connVars, netVars
  <2>3. CASE Close
    BY <2>3 DEF Close, TypeOK, connVars
  <2> QED
    BY <1>1, <2>1, <2>2, <2>3 DEF Main
<1>2. ASSUME NEW c \in Conn, Accept(c) PROVE TypeOK'
  BY <1>2 DEF Accept, TypeOK, endVars, Pair
<1>3. ASSUME NEW c \in Conn, ProxyConn(c) PROVE TypeOK'
  <2>1. CASE TrackClient(c)
    BY <2>1 DEF TrackClient, Goes, TypeOK, endVars, netVars, Pair
  <2>2. CASE LoadBackend(c)
    BY <2>2 DEF LoadBackend, Goes, TypeOK, endVars, netVars, Pair
  <2>3. CASE DialFails(c)
    BY <2>3 DEF DialFails, Goes, TypeOK, endVars, netVars, Pair
  <2>4. CASE Dialed(c)
    BY <2>4 DEF Dialed, Goes, TypeOK, endVars, Pair
  <2>5. CASE StartCopies(c)
    BY <2>5 DEF StartCopies, Goes, TypeOK, endVars, Pair
  <2>6. CASE LeaveBackend(c)
    BY <2>6 DEF LeaveBackend, Goes, TypeOK, endVars, Pair
  <2>7. CASE LeaveClient(c)
    BY <2>7 DEF LeaveClient, Goes, TypeOK, endVars, Pair
  <2> QED
    BY <1>3, <2>1, <2>2, <2>3, <2>4, <2>5, <2>6, <2>7 DEF ProxyConn
<1>4. ASSUME NEW c \in Conn, NEW s \in Side, Pipe(c, s) PROVE TypeOK'
  <2>1. CASE Copy(c, s)
    BY <2>1 DEF Copy, TypeOK, endVars, connVars, Pair
  <2>2. CASE EndCopy(c, s)
    BY <2>2 DEF EndCopy, HalfClosed, TypeOK, endVars, connVars, Pair
  <2> QED
    BY <1>4, <2>1, <2>2 DEF Pipe
<1>5. ASSUME NEW c \in Conn, NEW s \in Side, Peers(c, s) PROVE TypeOK'
  <2>1. CASE Send(c, s)
    BY <2>1 DEF Send, TypeOK, endVars, connVars, Pair
  <2>2. CASE FinishSending(c, s)
    BY <2>2 DEF FinishSending, TypeOK, endVars, connVars, Pair
  <2>3. CASE Vanish(c, s)
    BY <2>3 DEF Vanish, TypeOK, endVars, connVars, Pair
  <2> QED
    BY <1>5, <2>1, <2>2, <2>3 DEF Peers
<1>6. CASE UNCHANGED vars
  BY <1>6 DEF vars, endVars, connVars, netVars, TypeOK
<1> QED
  BY <1>1, <1>2, <1>3, <1>4, <1>5, <1>6 DEF Next

\* Every reachable state of TcpEndpoint is well formed.
THEOREM TypeCorrect == Spec => []TypeOK
BY InitType, TypeStep, PTL DEF Spec

-----------------------------------------------------------------------------
(***************************************************************************)
(* IInv.  A step of a connection touches that connection only, so each     *)
(* part is shown for the connection of the step and kept for the others.   *)
(***************************************************************************)

LEMMA InitIInv == Init => IInv
BY InitType, Sides DEF Init, IInv, Tracking, Sockets, Copies, Addressed

LEMMA StepIInv == IInv /\ [Next]_vars => IInv'
<1> SUFFICES ASSUME IInv, [Next]_vars PROVE IInv'
  OBVIOUS
<1>t. TypeOK /\ TypeOK'
  BY TypeStep DEF IInv
<1>i. Tracking /\ Sockets /\ Copies /\ Addressed
  BY DEF IInv
<1> SUFFICES (Tracking /\ Sockets /\ Copies /\ Addressed)'
  BY <1>t DEF IInv
<1> USE <1>t, <1>i, TypeFacts, Sides
<1>1. CASE SetBackend \/ Drain
  BY <1>1 DEF SetBackend, Drain, connVars, netVars, Tracking, Sockets, Copies,
              Addressed
<1>2. CASE Close
  <2>1. Tracking' /\ Copies' /\ Addressed'
    BY <1>2 DEF Close, connVars, Tracking, Copies, Addressed
  <2>2. Sockets'
    BY <1>2 DEF Close, connVars, Tracking, Sockets, Pair
  <2> QED
    BY <2>1, <2>2
<1>3. ASSUME NEW c \in Conn, Accept(c)
      PROVE  (Tracking /\ Sockets /\ Copies /\ Addressed)'
  <2>1. Tracking'
    BY <1>3 DEF Accept, Tracking
  <2>2. Sockets'
    <3>1. /\ at[c] = "new" /\ at'[c] = "accepted"
          /\ sock'[<<c, "client">>] = "open"
          /\ sock'[<<c, "backend">>] = sock[<<c, "backend">>]
      BY <1>3 DEF Accept
    <3>2. \A d \in Conn \ {c} :
            at'[d] = at[d] /\ \A s \in Side : sock'[<<d, s>>] = sock[<<d, s>>]
      BY <1>3 DEF Accept
    <3>3. sock[<<c, "backend">>] = "none"
      BY <3>1 DEF Sockets
    <3>4. ASSUME NEW d \in Conn
          PROVE  /\ sock'[<<d, "client">>] = "none" <=> at'[d] = "new"
                 /\ at'[d] = "accepted" => sock'[<<d, "client">>] = "open"
                 /\ at'[d] = "done" => sock'[<<d, "client">>] = "closed"
                 /\ sock'[<<d, "backend">>] = "none" =>
                       at'[d] \notin {"dialed", "piping"}
                 /\ at'[d] \in {"new", "accepted", "tracked", "dialing"} =>
                       sock'[<<d, "backend">>] = "none"
                 /\ at'[d] \in {"leaving", "done"} =>
                       sock'[<<d, "backend">>] \in {"none", "closed"}
                 /\ at'[d] = "dialed" => sock'[<<d, "backend">>] = "open"
      <4>1. CASE d = c
        BY <3>1, <3>3, <4>1
      <4>2. CASE d # c
        BY <3>2, <4>2 DEF Sockets
      <4> QED
        BY <4>1, <4>2
    <3> QED
      BY <3>4 DEF Sockets
  <2>3. Copies'
    BY <1>3 DEF Accept, Copies
  <2>4. Addressed'
    BY <1>3 DEF Accept, Addressed, endVars
  <2> QED
    BY <2>1, <2>2, <2>3, <2>4
<1>4. ASSUME NEW c \in Conn, ProxyConn(c)
      PROVE  (Tracking /\ Sockets /\ Copies /\ Addressed)'
  <2>1. \A d \in Conn \ {c} :
          /\ at'[d] = at[d]
          /\ \A s \in Side : sock'[<<d, s>>] = sock[<<d, s>>]
          /\ \A s \in Side : <<d, s>> \in tracked' <=> <<d, s>> \in tracked
    <3> SUFFICES ASSUME NEW d \in Conn \ {c}, NEW s \in Side
                 PROVE  /\ at'[d] = at[d] /\ sock'[<<d, s>>] = sock[<<d, s>>]
                        /\ <<d, s>> \in tracked' <=> <<d, s>> \in tracked
      OBVIOUS
    <3>1. at'[d] = at[d]
      BY <1>4 DEF ProxyConn, TrackClient, LoadBackend, DialFails, Dialed,
                  StartCopies, LeaveBackend, LeaveClient, Goes
    <3>2. sock'[<<d, s>>] = sock[<<d, s>>]
      <4>1. \/ sock' = sock
            \/ \E t \in Side, x \in {"open", "closed"} :
                  sock' = [sock EXCEPT ![<<c, t>>] = x]
        BY <1>4 DEF ProxyConn, TrackClient, LoadBackend, DialFails, Dialed,
                    StartCopies, LeaveBackend, LeaveClient, netVars
      <4> QED
        BY <4>1
    <3>3. <<d, s>> \in tracked' <=> <<d, s>> \in tracked
      BY <1>4 DEF ProxyConn, TrackClient, LoadBackend, DialFails, Dialed,
                  StartCopies, LeaveBackend, LeaveClient
    <3> QED
      BY <3>1, <3>2, <3>3
  <2>2. ASSUME TrackClient(c) PROVE Tracking' /\ Sockets'
    BY <2>1, <2>2 DEF TrackClient, Goes, netVars, Tracking, Sockets
  <2>3. ASSUME LoadBackend(c) PROVE Tracking' /\ Sockets'
    BY <2>1, <2>3 DEF LoadBackend, Goes, netVars, Tracking, Sockets
  <2>4. ASSUME DialFails(c) PROVE Tracking' /\ Sockets'
    BY <2>1, <2>4 DEF DialFails, Goes, netVars, Tracking, Sockets
  <2>5. ASSUME Dialed(c) PROVE Tracking' /\ Sockets'
    BY <2>1, <2>5 DEF Dialed, Goes, Tracking, Sockets
  <2>6. ASSUME StartCopies(c) PROVE Tracking' /\ Sockets'
    BY <2>1, <2>6 DEF StartCopies, Goes, Tracking, Sockets
  <2>7. ASSUME LeaveBackend(c) PROVE Tracking' /\ Sockets'
    BY <2>1, <2>7 DEF LeaveBackend, Goes, Tracking, Sockets
  <2>8. ASSUME LeaveClient(c) PROVE Tracking' /\ Sockets'
    BY <2>1, <2>8 DEF LeaveClient, Goes, Tracking, Sockets
  <2>9. Tracking' /\ Sockets'
    BY <1>4, <2>2, <2>3, <2>4, <2>5, <2>6, <2>7, <2>8 DEF ProxyConn
  <2>10. Copies'
    <3> SUFFICES ASSUME NEW d \in Conn, NEW s \in Side, <<d, s>> \in copying'
                 PROVE  at'[d] = "piping"
      BY DEF Copies
    <3>1. CASE StartCopies(c)
      <4>1. at'[c] = "piping"
        BY <1>t, <3>1, TypeFacts DEF StartCopies, Goes
      <4>2. d # c => <<d, s>> \in copying
        BY <3>1 DEF StartCopies
      <4> QED
        BY <2>1, <4>1, <4>2 DEF Copies
    <3>2. CASE ~StartCopies(c)
      <4>1. copying' = copying
        BY <1>4, <3>2 DEF ProxyConn, TrackClient, LoadBackend, DialFails,
                          Dialed, LeaveBackend, LeaveClient, netVars
      <4>2. at[d] = "piping"
        BY <4>1 DEF Copies
      <4>3. d # c
        BY <1>4, <3>2, <4>1, <4>2
           DEF ProxyConn, TrackClient, LoadBackend, DialFails, Dialed,
               LeaveBackend, LeaveClient, Goes
      <4> QED
        BY <2>1, <4>2, <4>3
    <3> QED
      BY <3>1, <3>2
  <2>11. Addressed'
    BY <1>4 DEF ProxyConn, TrackClient, LoadBackend, DialFails, Dialed,
                StartCopies, LeaveBackend, LeaveClient, Goes, Addressed,
                endVars
  <2> QED
    BY <2>9, <2>10, <2>11
<1>5. ASSUME NEW c \in Conn, NEW s \in Side, Pipe(c, s) \/ Peers(c, s)
      PROVE  (Tracking /\ Sockets /\ Copies /\ Addressed)'
  <2>1. /\ UNCHANGED <<at, since, addr, tracked, backend>>
        /\ copying' \subseteq copying
    BY <1>5 DEF Pipe, Copy, EndCopy, Peers, Send, FinishSending, Vanish,
                connVars, endVars
  <2>2. Sockets'
    <3>1. CASE sock' = sock
      BY <2>1, <3>1 DEF Sockets
    <3>2. CASE EndCopy(c, s)
      BY <2>1, <3>2 DEF EndCopy, HalfClosed, Sockets, Copies
    <3> QED
      BY <1>5, <3>1, <3>2 DEF Pipe, Copy, Peers, Send, FinishSending, Vanish
  <2>3. Tracking' /\ Copies' /\ Addressed'
    BY <2>1 DEF Tracking, Copies, Addressed
  <2> QED
    BY <2>2, <2>3
<1>6. CASE UNCHANGED vars
  BY <1>6 DEF vars, endVars, connVars, netVars, Tracking, Sockets, Copies,
              Addressed
<1> QED
  BY <1>1, <1>2, <1>3, <1>4, <1>5, <1>6 DEF Next, Main

\* The inductive invariant holds in every reachable state.
THEOREM Inductive == Spec => []IInv
BY InitIInv, StepIInv, PTL DEF Spec

\* Outside the two untracked windows, Close and Idle see every open socket, and
\* an idle endpoint has no connection but one it has only just accepted.
THEOREM SocketsOwned == Spec => []Owned
<1>1. ASSUME IInv, NEW c \in Conn
      PROVE  /\ Connected(c, "client") =>
                   <<c, "client">> \in tracked \/ at[c] = "accepted"
             /\ Connected(c, "backend") =>
                   <<c, "backend">> \in tracked \/ at[c] = "dialed"
             /\ at[c] = "done" => \A s \in Side : <<c, s>> \notin tracked
  BY <1>1, TypeFacts, Sides DEF IInv, Tracking, Sockets, Connected
<1>2. ASSUME IInv, Idle, NEW c \in Conn
      PROVE  at[c] \in {"new", "accepted", "done"}
  <2>1. <<c, "client">> \notin tracked
    BY <1>2 DEF Idle
  <2> QED
    BY <1>2, <2>1, TypeFacts DEF IInv, Tracking
<1>3. IInv => Owned
  BY <1>1, <1>2 DEF Owned
<1> QED
  BY <1>3, Inductive, PTL

\* No connection is proxied to a backend that was replaced before its accept.
THEOREM BackendFresh == Spec => []FreshBackend
<1>1. IInv => FreshBackend
  BY TypeFacts, Sides DEF IInv, Sockets, Addressed, FreshBackend
<1> QED
  BY <1>1, Inductive, PTL

-----------------------------------------------------------------------------
(***************************************************************************)
(* Half-close, without a limit: a copy ends on the end of what it reads.   *)
(***************************************************************************)

LEMMA Untouched ==
    ASSUME NEW d \in Conn, EndsSeenOf(d), at'[d] = at[d],
           \A s \in Side :
              /\ sock'[<<d, s>>] = sock[<<d, s>>]
              /\ peer'[<<d, s>>] = peer[<<d, s>>]
              /\ data'[<<d, s>>] = data[<<d, s>>]
              /\ <<d, s>> \in copying' <=> <<d, s>> \in copying
    PROVE  EndsSeenOf(d)'
BY Sides DEF EndsSeenOf, AnyGone, Finished

LEMMA ProxyConnEnds ==
    ASSUME IInv, NEW c \in Conn, EndsSeenOf(c), ProxyConn(c)
    PROVE  EndsSeenOf(c)'
<1> USE TypeFacts, Sides DEF IInv
<1>1. CASE TrackClient(c) \/ LoadBackend(c)
  BY <1>1 DEF TrackClient, LoadBackend, Goes, netVars, EndsSeenOf, AnyGone,
              Finished
<1>2. CASE DialFails(c)
  BY <1>2 DEF DialFails, Goes, netVars, EndsSeenOf, Sockets
<1>3. CASE Dialed(c)
  BY <1>3 DEF Dialed, Goes, EndsSeenOf
<1>4. CASE StartCopies(c)
  BY <1>4 DEF StartCopies, Goes, EndsSeenOf, Sockets
<1>5. CASE LeaveBackend(c)
  BY <1>5 DEF LeaveBackend, Goes, EndsSeenOf, AnyGone, Finished, Sockets
<1>6. CASE LeaveClient(c)
  BY <1>6 DEF LeaveClient, Goes, EndsSeenOf, AnyGone, Finished
<1> QED
  BY <1>1, <1>2, <1>3, <1>4, <1>5, <1>6 DEF ProxyConn

LEMMA PipeEnds ==
    ASSUME Limit = 0, IInv, NEW c \in Conn, EndsSeenOf(c), NEW s \in Side,
           Pipe(c, s)
    PROVE  EndsSeenOf(c)'
<1> USE TypeFacts, Sides DEF IInv
<1>0. at[c] = "piping" /\ at' = at /\ peer' = peer
  BY DEF Pipe, Copy, EndCopy, Copies, connVars
<1>1. CASE Copy(c, s)
  BY <1>0, <1>1 DEF Copy, EndsSeenOf, AnyGone, Finished
<1>2. CASE EndCopy(c, s)
  <2>1. ASSUME ~AnyGone(c)
        PROVE  Finished(c, s)
    BY <1>0, <1>2, <2>1
    DEF EndCopy, CopyOver, Writable, Finished, AnyGone, EndsSeenOf, Sockets
  <2>2. /\ copying' = copying \ {<<c, s>>} /\ data' = data
        /\ sock'[<<c, s>>] = sock[<<c, s>>]
        /\ sock'[<<c, Other(s)>>] = IF sock[<<c, Other(s)>>] = "open"
                                    THEN "half" ELSE sock[<<c, Other(s)>>]
    BY <1>2 DEF EndCopy, HalfClosed
  <2> QED
    BY <1>0, <2>1, <2>2 DEF EndsSeenOf, AnyGone, Finished, Sockets
<1> QED
  BY <1>1, <1>2 DEF Pipe

LEMMA PeersEnds ==
    ASSUME IInv, NEW c \in Conn, EndsSeenOf(c), NEW s \in Side, Peers(c, s)
    PROVE  EndsSeenOf(c)'
<1> USE TypeFacts, Sides DEF IInv
<1>0. UNCHANGED <<at, sock, copying>>
  BY DEF Peers, Send, FinishSending, Vanish, connVars
<1>1. CASE Send(c, s)
  BY <1>0, <1>1 DEF Send, Alive, EndsSeenOf, AnyGone, Finished
<1>2. CASE FinishSending(c, s)
  BY <1>0, <1>2 DEF FinishSending, Alive, EndsSeenOf, AnyGone, Finished
<1>3. CASE Vanish(c, s)
  BY <1>0, <1>3 DEF Vanish, EndsSeenOf, AnyGone
<1> QED
  BY <1>1, <1>2, <1>3 DEF Peers

LEMMA StepHInv == ASSUME Limit = 0 PROVE HInv /\ [Next]_vars => HInv'
<1> SUFFICES ASSUME HInv, [Next]_vars PROVE HInv'
  OBVIOUS
<1>1. IInv /\ IInv' /\ EndsSeen
  BY StepIInv DEF HInv
<1> SUFFICES ASSUME phase' # "closed", NEW d \in Conn PROVE EndsSeenOf(d)'
  BY <1>1 DEF HInv, EndsSeen
<1> USE <1>1, TypeFacts, Sides DEF IInv
<1>2. phase # "closed" /\ EndsSeenOf(d)
  BY DEF Next, Main, SetBackend, Drain, Close, Accept, ProxyConn,
         TrackClient, LoadBackend, DialFails, Dialed, StartCopies,
         LeaveBackend, LeaveClient, Pipe, Copy, EndCopy, Peers, Send,
         FinishSending, Vanish, vars, endVars, EndsSeen
<1>3. CASE Main \/ UNCHANGED vars
  BY <1>2, <1>3, Untouched
  DEF Main, SetBackend, Drain, Close, vars, connVars, netVars
<1>4. ASSUME NEW c \in Conn, Accept(c) PROVE EndsSeenOf(d)'
  <2>1. CASE d = c
    BY <1>4, <2>1 DEF Accept, EndsSeenOf, Sockets
  <2>2. CASE d # c
    BY <1>2, <1>4, <2>2, Untouched DEF Accept
  <2> QED
    BY <2>1, <2>2
<1>5. ASSUME NEW c \in Conn, ProxyConn(c) PROVE EndsSeenOf(d)'
  <2>1. CASE d = c
    BY <1>2, <1>5, <2>1, ProxyConnEnds
  <2>2. CASE d # c
    <3>1. /\ at'[d] = at[d]
          /\ \A s \in Side : /\ sock'[<<d, s>>] = sock[<<d, s>>]
                             /\ peer'[<<d, s>>] = peer[<<d, s>>]
                             /\ data'[<<d, s>>] = data[<<d, s>>]
                             /\ <<d, s>> \in copying' <=> <<d, s>> \in copying
      BY <1>5, <2>2
      DEF ProxyConn, TrackClient, LoadBackend, DialFails, Dialed,
          StartCopies, LeaveBackend, LeaveClient, Goes, netVars
    <3> QED
      BY <1>2, <3>1, Untouched
  <2> QED
    BY <2>1, <2>2
<1>6. ASSUME NEW c \in Conn, NEW s \in Side, Pipe(c, s) \/ Peers(c, s)
      PROVE  EndsSeenOf(d)'
  <2>1. CASE d = c
    BY <1>2, <1>6, <2>1, PipeEnds, PeersEnds
  <2>2. CASE d # c
    BY <1>2, <1>6, <2>2, Untouched
    DEF Pipe, Copy, EndCopy, Peers, Send, FinishSending, Vanish, connVars
  <2> QED
    BY <2>1, <2>2
<1> QED
  BY <1>3, <1>4, <1>5, <1>6 DEF Next

\* On a listener without a limit, no side of a connection is closed before it
\* has said all it had to say and all of it was copied.
THEOREM HalfClose == ASSUME Limit = 0 PROVE Spec => []HalfClosePropagated
<1>1. Init => HInv
  BY InitIInv, Sides DEF Init, HInv, EndsSeen, EndsSeenOf
<1>2. HInv => HalfClosePropagated
  BY TypeFacts, Sides
  DEF HInv, IInv, EndsSeen, EndsSeenOf, Sockets, HalfClosePropagated
<1> QED
  BY <1>1, <1>2, StepHInv, PTL DEF Spec
-----------------------------------------------------------------------------
(***************************************************************************)
(* The refinement.  A step of the endpoint changes what is seen of one     *)
(* connection at most, and Close of those the endpoint knows.              *)
(***************************************************************************)
Conns == [c \in Conn |-> Seen(c)]

LEMMA Stutters ==
    ASSUME UNCHANGED phase, Known' = Known, \A c \in Conn : Seen(c)' = Seen(c)
    PROVE  UNCHANGED Abstract!vars
BY DEF Abstract!vars

LEMMA QuietSteps ==
    ASSUME IInv, UNCHANGED phase,
           UNCHANGED tracked \/ \E c \in Conn :
              tracked' \in {tracked \cup {<<c, "backend">>},
                            tracked \ {<<c, "backend">>}},
           \A c \in Conn : /\ Connected(c, "client")' <=> Connected(c, "client")
                           /\ at'[c] = "new" <=> at[c] = "new"
    PROVE  UNCHANGED Abstract!vars
<1>1. Known' = Known
  BY DEF Known
<1>2. \A c \in Conn : Seen(c)' = Seen(c)
  BY DEF Seen
<1> QED
  BY <1>1, <1>2, Stutters

LEMMA InitRefines == Init => Abstract!Init
<1> SUFFICES ASSUME Init PROVE Abstract!Init
  OBVIOUS
<1>1. \A c \in Conn : Seen(c) = "new"
  BY Sides DEF Init, Seen, Connected, Pair
<1>2. Known = {} /\ phase = "open"
  BY DEF Init, Known
<1> QED
  BY <1>1, <1>2 DEF Abstract!Init

LEMMA StepRefines == IInv /\ [Next]_vars => [Abstract!Next]_(Abstract!vars)
<1> SUFFICES ASSUME IInv, [Next]_vars
             PROVE  Abstract!Next \/ UNCHANGED Abstract!vars
  OBVIOUS
<1>t. TypeOK
  BY DEF IInv
<1> USE TypeFacts, Sides, <1>t
<1>1. CASE SetBackend
  BY <1>1, QuietSteps DEF SetBackend, connVars, netVars, Connected
<1>2. CASE Drain
  <2>1. Known' = Known /\ \A c \in Conn : Seen(c)' = Seen(c)
    BY <1>2 DEF Drain, connVars, netVars, Known, Seen, Connected
  <2> QED
    BY <1>2, <2>1 DEF Drain, Abstract!Next, Abstract!Drain
<1>3. CASE Close
  <2>1. Known' = Known
    BY <1>3 DEF Close, connVars, Known
  <2>2. \A c \in Conn :
           Seen(c)' = IF c \in Known THEN "over" ELSE Seen(c)
    BY <1>3 DEF Close, connVars, Known, Seen, Connected, Pair, IInv, Tracking
  <2> QED
    BY <1>3, <2>1, <2>2 DEF Close, Abstract!Next, Abstract!Close
<1>4. ASSUME NEW c \in Conn, Accept(c) PROVE Abstract!Next
  <2>1. phase = "open" /\ UNCHANGED <<phase, Known>>
    BY <1>4 DEF Accept, endVars, Known
  <2>2. Seen(c) = "new" /\ Seen(c)' = "open"
    BY <1>4 DEF Accept, Seen, Connected, Pair, IInv, Sockets
  <2>3. \A d \in Conn \ {c} : Seen(d)' = Seen(d)
    BY <1>4 DEF Accept, Seen, Connected, Pair
  <2>4. Conns' = [Conns EXCEPT ![c] = "open"] /\ Conns[c] = "new"
    BY <2>2, <2>3 DEF Conns
  <2> QED
    BY <2>1, <2>4 DEF Abstract!Next, Abstract!Begin, Conns
<1>5. ASSUME NEW c \in Conn, TrackClient(c) PROVE Abstract!Next
  <2>1. phase' = phase /\ Known' = Known \cup {c}
    BY <1>5 DEF TrackClient, endVars, Known
  <2>2. Seen(c) = "open"
    BY <1>5 DEF TrackClient, Goes, Seen, Connected, IInv, Sockets
  <2>3. \A d \in Conn : Seen(d)' = Seen(d)
    BY <1>5 DEF TrackClient, Goes, netVars, Seen, Connected
  <2> QED
    BY <2>1, <2>2, <2>3 DEF Abstract!Next, Abstract!Know
<1>6. ASSUME NEW c \in Conn,
             \/ LoadBackend(c) \/ DialFails(c) \/ Dialed(c)
             \/ StartCopies(c) \/ LeaveBackend(c)
      PROVE  UNCHANGED Abstract!vars
  <2>1. UNCHANGED phase
    BY <1>6 DEF LoadBackend, DialFails, Dialed, StartCopies, LeaveBackend,
                endVars
  <2>2. UNCHANGED tracked \/ tracked' \in {tracked \cup {<<c, "backend">>},
                                           tracked \ {<<c, "backend">>}}
    <3>1. CASE StartCopies(c)
      BY <3>1 DEF StartCopies
    <3>2. CASE LeaveBackend(c)
      BY <3>2 DEF LeaveBackend
    <3> QED
      BY <1>6, <3>1, <3>2 DEF LoadBackend, DialFails, Dialed
  <2>3. \A d \in Conn : sock'[<<d, "client">>] = sock[<<d, "client">>]
    BY <1>6 DEF LoadBackend, DialFails, Dialed, StartCopies, LeaveBackend,
                netVars, Pair
  <2>4. \A d \in Conn : at'[d] = "new" <=> at[d] = "new"
    BY <1>6 DEF LoadBackend, DialFails, Dialed, StartCopies, LeaveBackend, Goes
  <2> QED
    BY <2>1, <2>2, <2>3, <2>4, QuietSteps DEF Connected
<1>7. ASSUME NEW c \in Conn, LeaveClient(c) PROVE Abstract!Next
  <2>1. phase' = phase /\ Known' = Known \ {c} /\ c \in Known
    BY <1>7 DEF LeaveClient, Goes, endVars, Known, IInv, Tracking
  <2>2. Seen(c)' = "over" /\ Seen(c) \in {"open", "over"}
    BY <1>7 DEF LeaveClient, Goes, Seen, Connected, Pair
  <2>3. \A d \in Conn \ {c} : Seen(d)' = Seen(d)
    BY <1>7 DEF LeaveClient, Goes, Seen, Connected, Pair
  <2>4. Conns' = [Conns EXCEPT ![c] = "over"]
    BY <2>2, <2>3 DEF Conns
  <2>5. CASE Seen(c) = "open"
    BY <2>1, <2>4, <2>5 DEF Abstract!Next, Abstract!Finish, Conns
  <2>6. CASE Seen(c) = "over"
    <3>1. Conns' = Conns /\ Conns[c] = "over"
      BY <2>4, <2>6 DEF Conns
    <3> QED
      BY <2>1, <3>1 DEF Abstract!Next, Abstract!Forget, Conns
  <2> QED
    BY <2>2, <2>5, <2>6
<1>8. ASSUME NEW c \in Conn, NEW s \in Side, Copy(c, s)
      PROVE  UNCHANGED Abstract!vars
  BY <1>8, QuietSteps DEF Copy, endVars, connVars, Connected
<1>9. ASSUME NEW c \in Conn, NEW s \in Side, EndCopy(c, s)
      PROVE  Abstract!Next \/ UNCHANGED Abstract!vars
  <2>1. phase' = phase /\ Known' = Known /\ UNCHANGED <<at, tracked>>
    BY <1>9 DEF EndCopy, endVars, connVars, Known
  <2>2. at[c] = "piping" /\ c \in Known
    BY <1>9 DEF EndCopy, Known, IInv, Copies, Tracking
  <2>3. \A d \in Conn \ {c} : Seen(d)' = Seen(d)
    BY <1>9, <2>1 DEF EndCopy, Seen, Connected, Pair
  <2>4. CASE Seen(c)' = Seen(c)
    BY <2>1, <2>3, <2>4, Stutters
  <2>5. CASE Seen(c)' # Seen(c)
    <3>1. Seen(c) = "open" /\ Seen(c)' = "over"
      BY <1>9, <2>1, <2>2, <2>5 DEF EndCopy, HalfClosed, Seen, Connected, Pair
    <3>2. Conns' = [Conns EXCEPT ![c] = "over"] /\ Conns[c] = "open"
      BY <2>3, <3>1 DEF Conns
    <3> QED
      BY <2>1, <2>2, <3>2 DEF Abstract!Next, Abstract!Finish, Conns
  <2> QED
    BY <2>4, <2>5
<1>10. ASSUME NEW c \in Conn, NEW s \in Side, Peers(c, s)
       PROVE  UNCHANGED Abstract!vars
  BY <1>10, QuietSteps DEF Peers, Send, FinishSending, Vanish, endVars,
                           connVars, Connected
<1>11. CASE UNCHANGED vars
  BY <1>11, QuietSteps DEF vars, endVars, connVars, netVars, Connected
<1> QED
  BY <1>1, <1>2, <1>3, <1>4, <1>5, <1>6, <1>7, <1>8, <1>9, <1>10, <1>11
     DEF Next, Main, ProxyConn, Pipe

(***************************************************************************)
(* A TCP endpoint is what publishedEndpoint promises.                      *)
(***************************************************************************)
THEOREM Implements == Spec => Promised
<1>1. Spec => []IInv
  BY Inductive
<1> QED
  BY <1>1, InitRefines, StepRefines, PTL DEF Spec, Promised, Abstract!Spec
=============================================================================
