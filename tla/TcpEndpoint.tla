---------------------------- MODULE TcpEndpoint ----------------------------
(***************************************************************************)
(* One tcpEndpoint (proxy.go): the accept loop, a goroutine per connection *)
(* and the two copies it starts, while the main loop calls SetBackend,     *)
(* Drain, Idle and Close.                                                  *)
(*                                                                         *)
(* A connection has a client side and a backend side.  data is what the    *)
(* peer of a side sent and the proxy has not copied yet, in chunks; a      *)
(* reset or a vanished peer is "gone".  The listener is a LimitListener if *)
(* Limit > 0: its connections have Close but no CloseWrite.                *)
(***************************************************************************)
EXTENDS Integers, FiniteSets

CONSTANTS
    Conn,        \* bound: connections accepted in the life of the endpoint
    Limit,       \* tailscale.max-connections, 0 for no limit
    MaxData,     \* bound: chunks a peer may have in flight
    MaxMoves     \* bound: calls of SetBackend

ASSUME LimitAssumption == Limit \in Nat
ASSUME BoundsAssumption == MaxData \in Nat /\ MaxMoves \in Nat

Side == {"client", "backend"}
Other(s) == IF s = "client" THEN "backend" ELSE "client"

VARIABLES
    phase,     \* of the endpoint: "open", "draining", "closed"
    backend,   \* the version of the backend address, counted by SetBackend
    at,        \* where the goroutine of a connection is
    since,     \* the backend when the connection was accepted
    addr,      \* the backend it dials
    tracked,   \* e.conns: the sockets that Idle and Close know
    sock,      \* the proxy's sockets
    peer,      \* whether the peer still sends
    data,      \* chunks not yet copied
    copying    \* the copies that run, named by the side they read

endVars == <<phase, backend>>
connVars == <<at, since, addr, tracked>>
netVars == <<sock, peer, data, copying>>
vars == <<endVars, connVars, netVars>>

Connected(c, s) == sock[<<c, s>>] \in {"open", "half"}

\* The connections that hold a place under the limit.
Used == {c \in Conn : Connected(c, "client")}

-----------------------------------------------------------------------------
(* The main loop.                                                          *)

SetBackend ==
    /\ phase = "open"
    /\ backend < MaxMoves
    /\ backend' = backend + 1
    /\ UNCHANGED <<phase, connVars, netVars>>

Drain ==
    /\ phase = "open"
    /\ phase' = "draining"
    /\ UNCHANGED <<backend, connVars, netVars>>

\* Closing an endpoint that is idle, or whose grace is over.
Close ==
    /\ phase = "draining"
    /\ phase' = "closed"
    /\ sock' = [p \in Conn \X Side |->
                  IF p \in tracked THEN "closed" ELSE sock[p]]
    /\ UNCHANGED <<backend, connVars, peer, data, copying>>

Idle == tracked = {}

-----------------------------------------------------------------------------
(* acceptLoop and proxyConn.                                               *)

\* As if Drain left the listener open.
AcceptDrained(c) ==
    /\ phase # "closed"
    /\ at[c] = "new"
    /\ Limit = 0 \/ Cardinality(Used) < Limit
    /\ at' = [at EXCEPT ![c] = "accepted"]
    /\ since' = [since EXCEPT ![c] = backend]
    /\ sock' = [sock EXCEPT ![<<c, "client">>] = "open"]
    /\ peer' = [peer EXCEPT ![<<c, "client">>] = "open"]
    /\ UNCHANGED <<endVars, addr, tracked, data, copying>>

Accept(c) ==
    /\ phase = "open"
    /\ at[c] = "new"
    /\ Limit = 0 \/ Cardinality(Used) < Limit
    /\ at' = [at EXCEPT ![c] = "accepted"]
    /\ since' = [since EXCEPT ![c] = backend]
    /\ sock' = [sock EXCEPT ![<<c, "client">>] = "open"]
    /\ peer' = [peer EXCEPT ![<<c, "client">>] = "open"]
    /\ UNCHANGED <<endVars, addr, tracked, data, copying>>

Goes(c, from, to) ==
    /\ at[c] = from
    /\ at' = [at EXCEPT ![c] = to]

TrackClient(c) ==
    /\ Goes(c, "accepted", "tracked")
    /\ tracked' = tracked \cup {<<c, "client">>}
    /\ UNCHANGED <<endVars, since, addr, netVars>>

\* As if the endpoint kept the backend it was published with.
DialFirstBackend(c) ==
    /\ Goes(c, "tracked", "dialing")
    /\ addr' = [addr EXCEPT ![c] = 0]
    /\ UNCHANGED <<endVars, since, tracked, netVars>>

LoadBackend(c) ==
    /\ Goes(c, "tracked", "dialing")
    /\ addr' = [addr EXCEPT ![c] = backend]
    /\ UNCHANGED <<endVars, since, tracked, netVars>>

\* As if a failed dial returned without closing the client.
DialFailsLeaky(c) ==
    /\ Goes(c, "dialing", "done")
    /\ UNCHANGED <<endVars, since, addr, tracked, netVars>>

DialFails(c) ==
    /\ Goes(c, "dialing", "leaving")
    /\ UNCHANGED <<endVars, since, addr, tracked, netVars>>

Dialed(c) ==
    /\ Goes(c, "dialing", "dialed")
    /\ sock' = [sock EXCEPT ![<<c, "backend">>] = "open"]
    /\ peer' = [peer EXCEPT ![<<c, "backend">>] = "open"]
    /\ UNCHANGED <<endVars, since, addr, tracked, data, copying>>

StartCopies(c) ==
    /\ Goes(c, "dialed", "piping")
    /\ tracked' = tracked \cup {<<c, "backend">>}
    /\ copying' = copying \cup {<<c, "client">>, <<c, "backend">>}
    /\ UNCHANGED <<endVars, since, addr, sock, peer, data>>

Writable(c, s) == sock[<<c, s>>] = "open" /\ peer[<<c, s>>] # "gone"

\* io.Copy moves a chunk from side s to the other one.
Copy(c, s) ==
    /\ <<c, s>> \in copying
    /\ sock[<<c, s>>] # "closed" /\ sock[<<c, Other(s)>>] = "open"
    /\ data[<<c, s>>] > 0
    /\ data' = [data EXCEPT ![<<c, s>>] = @ - 1]
    /\ UNCHANGED <<endVars, connVars, sock, peer, copying>>

\* io.Copy returns at the end of what it reads and on either side's error.
CopyOver(c, s) ==
    \/ sock[<<c, s>>] = "closed"
    \/ peer[<<c, s>>] = "gone"
    \/ peer[<<c, s>>] = "eof" /\ data[<<c, s>>] = 0
    \/ data[<<c, s>>] > 0 /\ ~Writable(c, Other(s))

\* What CloseWrite, or Close in its absence, leaves of a socket.
HalfClosed(s) == IF s = "client" /\ Limit > 0 THEN "closed" ELSE "half"

\* As if the end of one direction were not passed on.
NoHalfClose(c, s) ==
    /\ <<c, s>> \in copying
    /\ CopyOver(c, s)
    /\ copying' = copying \ {<<c, s>>}
    /\ UNCHANGED <<endVars, connVars, sock, peer, data>>

\* As if the end of one direction closed the socket it was written to.
CloseBoth(c, s) ==
    /\ <<c, s>> \in copying
    /\ CopyOver(c, s)
    /\ copying' = copying \ {<<c, s>>}
    /\ sock' = [sock EXCEPT ![<<c, Other(s)>>] = "closed"]
    /\ UNCHANGED <<endVars, connVars, peer, data>>

\* As if the branch without CloseWrite returned before wg.Done.
MissedDone(c, s) ==
    /\ <<c, s>> \in copying
    /\ CopyOver(c, s)
    /\ copying' = IF HalfClosed(Other(s)) = "closed"
                  THEN copying ELSE copying \ {<<c, s>>}
    /\ sock' = [sock EXCEPT ![<<c, Other(s)>>] =
                   IF @ = "open" THEN HalfClosed(Other(s)) ELSE @]
    /\ UNCHANGED <<endVars, connVars, peer, data>>

EndCopy(c, s) ==
    /\ <<c, s>> \in copying
    /\ CopyOver(c, s)
    /\ copying' = copying \ {<<c, s>>}
    /\ sock' = [sock EXCEPT ![<<c, Other(s)>>] =
                   IF @ = "open" THEN HalfClosed(Other(s)) ELSE @]
    /\ UNCHANGED <<endVars, connVars, peer, data>>

\* The deferred calls: close and untrack the backend, then the client.
LeaveBackend(c) ==
    /\ Goes(c, "piping", "leaving")
    /\ \A s \in Side : <<c, s>> \notin copying
    /\ sock' = [sock EXCEPT ![<<c, "backend">>] = "closed"]
    /\ tracked' = tracked \ {<<c, "backend">>}
    /\ UNCHANGED <<endVars, since, addr, peer, data, copying>>

\* As if the client were not closed when the connection is over.
LeaveOpen(c) ==
    /\ Goes(c, "leaving", "done")
    /\ tracked' = tracked \ {<<c, "client">>}
    /\ UNCHANGED <<endVars, since, addr, netVars>>

LeaveClient(c) ==
    /\ Goes(c, "leaving", "done")
    /\ sock' = [sock EXCEPT ![<<c, "client">>] = "closed"]
    /\ tracked' = tracked \ {<<c, "client">>}
    /\ UNCHANGED <<endVars, since, addr, peer, data, copying>>

-----------------------------------------------------------------------------
(* The peers.                                                              *)

Alive(c, s) == Connected(c, s) /\ peer[<<c, s>>] = "open"

Send(c, s) ==
    /\ Alive(c, s)
    /\ data[<<c, s>>] < MaxData
    /\ data' = [data EXCEPT ![<<c, s>>] = @ + 1]
    /\ UNCHANGED <<endVars, connVars, sock, peer, copying>>

FinishSending(c, s) ==
    /\ Alive(c, s)
    /\ peer' = [peer EXCEPT ![<<c, s>>] = "eof"]
    /\ UNCHANGED <<endVars, connVars, sock, data, copying>>

Vanish(c, s) ==
    /\ Connected(c, s)
    /\ peer[<<c, s>>] # "gone"
    /\ peer' = [peer EXCEPT ![<<c, s>>] = "gone"]
    /\ UNCHANGED <<endVars, connVars, sock, data, copying>>

-----------------------------------------------------------------------------
Init ==
    /\ phase = "open" /\ backend = 0
    /\ at = [c \in Conn |-> "new"]
    /\ since = [c \in Conn |-> 0] /\ addr = [c \in Conn |-> 0]
    /\ tracked = {}
    /\ sock = [p \in Conn \X Side |-> "none"]
    /\ peer = [p \in Conn \X Side |-> "none"]
    /\ data = [p \in Conn \X Side |-> 0]
    /\ copying = {}

ProxyConn(c) ==
    \/ TrackClient(c)
    \/ LoadBackend(c)
    \/ DialFails(c)
    \/ Dialed(c)
    \/ StartCopies(c)
    \/ LeaveBackend(c)
    \/ LeaveClient(c)

Pipe(c, s) == Copy(c, s) \/ EndCopy(c, s)

Main == SetBackend \/ Drain \/ Close

Peers(c, s) == Send(c, s) \/ FinishSending(c, s) \/ Vanish(c, s)

Next ==
    \/ Main
    \/ \E c \in Conn : Accept(c) \/ ProxyConn(c)
    \/ \E c \in Conn, s \in Side : Pipe(c, s) \/ Peers(c, s)

Spec == Init /\ [][Next]_vars

\* Goroutines are scheduled and a dial ends (-backend-dial-timeout).  Nothing
\* is asked of the peers or of the main loop.
FairSpec ==
    /\ Spec
    /\ \A c \in Conn : WF_vars(ProxyConn(c))
    /\ \A c \in Conn, s \in Side : WF_vars(Pipe(c, s))

-----------------------------------------------------------------------------
(* Properties.                                                             *)

\* The states of the endpoint, its connections and their sockets.
TypeOK ==
    /\ phase \in {"open", "draining", "closed"}
    /\ backend \in 0..MaxMoves
    /\ at \in [Conn -> {"new", "accepted", "tracked", "dialing", "dialed",
                        "piping", "leaving", "done"}]
    /\ since \in [Conn -> 0..MaxMoves]
    /\ addr \in [Conn -> 0..MaxMoves]
    /\ tracked \subseteq Conn \X Side
    /\ sock \in [Conn \X Side -> {"none", "open", "half", "closed"}]
    /\ peer \in [Conn \X Side -> {"none", "open", "eof", "gone"}]
    /\ data \in [Conn \X Side -> 0..MaxData]
    /\ copying \subseteq Conn \X Side

(***************************************************************************)
(* Close and Idle can miss a socket at two places only, both between two   *)
(* statements of proxyConn: a client accepted and not tracked yet, and a   *)
(* backend dialed and not tracked yet.  Everywhere else an open socket is  *)
(* tracked, and a goroutine that ended leaves nothing open or tracked; an  *)
(* endpoint that says it is idle can only have overlooked the first.       *)
(***************************************************************************)
Owned ==
    \A c \in Conn :
        /\ Connected(c, "client") =>
              <<c, "client">> \in tracked \/ at[c] = "accepted"
        /\ Connected(c, "backend") =>
              <<c, "backend">> \in tracked \/ at[c] = "dialed"
        /\ at[c] = "done" => \A s \in Side : <<c, s>> \notin tracked
        /\ Idle => at[c] \in {"new", "accepted", "done"}

\* A connection accepted after SetBackend returned is not proxied to the
\* backend it replaced ("SetBackend points new connections at a different
\* local backend", proxy.go:32).
FreshBackend ==
    \A c \in Conn : sock[<<c, "backend">>] # "none" => addr[c] >= since[c]

Finished(c, s) == peer[<<c, s>>] = "eof" /\ data[<<c, s>>] = 0

AnyGone(c) == \E s \in Side : peer[<<c, s>>] = "gone"

(***************************************************************************)
(* Until the endpoint is closed, the proxy closes a side of an established *)
(* connection only when that side has said all it had to say and all of it *)
(* was copied, or when one of the two peers vanished ("Propagate EOF so    *)
(* protocols relying on half-close keep working", proxy.go:277).           *)
(***************************************************************************)
HalfClosePropagated ==
    phase # "closed" =>
        \A c \in Conn, s \in Side :
            sock[<<c, s>>] = "closed" /\ sock[<<c, "backend">>] # "none" =>
                Finished(c, s) \/ AnyGone(c)

Over(c, s) == peer[<<c, s>>] \in {"eof", "gone"} \/ sock[<<c, s>>] = "closed"

\* A connection whose two ends are over, on the peer's side or on the proxy's,
\* gives its sockets and its place under the limit back.
Released ==
    \A c \in Conn :
        (at[c] = "piping" /\ \A s \in Side : Over(c, s)) ~> at[c] = "done"

\* The end of what one peer says reaches the other one (proxy.go:277), who may
\* be waiting for it before it answers.
EofReaches ==
    \A c \in Conn, s \in Side :
        (at[c] = "piping" /\ peer[<<c, s>>] = "eof")
            ~> sock[<<c, Other(s)>>] # "open"

(***************************************************************************)
(* The inductive invariant.  A copy that ended has seen the end of what it *)
(* reads, unless someone vanished or the endpoint was closed; and only the *)
(* copy towards a side, once ended, closes that side for writing.          *)
(***************************************************************************)
Tracking ==
    \A c \in Conn :
        /\ <<c, "client">> \in tracked <=>
              at[c] \in {"tracked", "dialing", "dialed", "piping", "leaving"}
        /\ <<c, "backend">> \in tracked <=> at[c] = "piping"

Sockets ==
    \A c \in Conn :
        /\ sock[<<c, "client">>] = "none" <=> at[c] = "new"
        /\ at[c] = "accepted" => sock[<<c, "client">>] = "open"
        /\ at[c] = "done" => sock[<<c, "client">>] = "closed"
        /\ sock[<<c, "backend">>] = "none" =>
              at[c] \notin {"dialed", "piping"}
        /\ at[c] \in {"new", "accepted", "tracked", "dialing"} =>
              sock[<<c, "backend">>] = "none"
        /\ at[c] \in {"leaving", "done"} =>
              sock[<<c, "backend">>] \in {"none", "closed"}
        /\ at[c] = "dialed" => sock[<<c, "backend">>] = "open"

Copies == \A c \in Conn, s \in Side : <<c, s>> \in copying => at[c] = "piping"

Addressed ==
    \A c \in Conn : /\ since[c] <= backend
                    /\ at[c] \notin {"new", "accepted", "tracked"} =>
                          addr[c] >= since[c]

EndsSeenOf(c) ==
    /\ at[c] \in {"accepted", "tracked", "dialing", "dialed"} =>
          sock[<<c, "client">>] = "open"
    /\ at[c] = "piping" => \A s \in Side : sock[<<c, s>>] # "closed"
    /\ sock[<<c, "backend">>] # "none" /\ ~AnyGone(c) => \A s \in Side :
          /\ at[c] = "piping" /\ <<c, s>> \notin copying => Finished(c, s)
          /\ at[c] \in {"leaving", "done"} => Finished(c, s)
          /\ at[c] = "piping" /\ sock[<<c, s>>] # "open" =>
                <<c, Other(s)>> \notin copying

EndsSeen == phase # "closed" => \A c \in Conn : EndsSeenOf(c)

\* What the code of proxyConn guarantees at each of its steps.
IInv == TypeOK /\ Tracking /\ Sockets /\ Copies /\ Addressed

\* And, while the endpoint is not closed, who ended what: HalfClosePropagated
\* follows.
HInv == IInv /\ EndsSeen

\* What the reconciler and the client see of a connection.
Seen(c) == IF Connected(c, "client") THEN "open"
           ELSE IF at[c] = "new" THEN "new" ELSE "over"
Known == {c \in Conn : <<c, "client">> \in tracked}

Abstract == INSTANCE Endpoint WITH
    conn <- [c \in Conn |-> Seen(c)], known <- Known

(***************************************************************************)
(* The endpoint is one the reconciler can work with, as publishedEndpoint  *)
(* says (proxy.go:29-42): once drained it accepts nobody and leaves who is *)
(* connected alone; Close ends what it knows, and what it knows is what    *)
(* Idle counts.                                                            *)
(***************************************************************************)
Promised == Abstract!Spec
=============================================================================
