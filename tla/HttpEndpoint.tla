---------------------------- MODULE HttpEndpoint ----------------------------
(***************************************************************************)
(* One httpEndpoint (proxy.go): http.Server accepts through the tracking   *)
(* listener and serves each connection in a goroutine, request after       *)
(* request, while the main loop calls SetBackend, Drain, Idle and Close.   *)
(*                                                                         *)
(* Of net/http the model has what the endpoint builds on: Serve accepts    *)
(* one connection at a time; a connection that has answered becomes idle   *)
(* and then asks whether keep-alives are still on; Server.Close waits for  *)
(* Serve to return and closes what the server tracks itself, which a       *)
(* hijacked connection is not.                                             *)
(***************************************************************************)
EXTENDS Integers, FiniteSets

CONSTANTS
    Conn,        \* bound: connections accepted in the life of the endpoint
    Limit,       \* tailscale.max-connections, 0 for no limit
    MaxMoves     \* bound: calls of SetBackend

ASSUME LimitAssumption == Limit \in Nat
ASSUME BoundsAssumption == MaxMoves \in Nat

VARIABLES
    main,      \* how far Drain and Close of the main loop have come
    keep,      \* whether keep-alives are enabled
    serving,   \* whether Serve still accepts
    left,      \* connections a walk of the main loop has yet to visit
    backend,   \* the version of the backend address, counted by SetBackend
    at,        \* where the goroutine of a connection is
    tracked,   \* e.conns: the connections that Idle and Close know
    open,      \* the connections whose socket is open
    addr,      \* the backend a connection's request is sent to
    since,     \* history: the backend when that request was read
    late       \* history: connections that sent a request once drained

endVars == <<main, keep, left, backend>>
connVars == <<at, tracked, open>>
reqVars == <<addr, since, late>>
vars == <<endVars, serving, connVars, reqVars>>

\* The connections http.Server tracks itself, and those it counts as idle.
ServerTracks(c) ==
    at[c] \in {"reading", "serving", "proxying", "answered", "idle", "waiting",
               "leaving"}
ServerIdle(c) == at[c] \in {"idle", "waiting"}

\* Between the accept of the listener and the start of a goroutine.
Arriving == {c \in Conn : at[c] \in {"accepted", "tracked"}}

-----------------------------------------------------------------------------
(* The main loop.                                                          *)

Main(from, to) == main = from /\ main' = to

SetBackend ==
    /\ main = "open"
    /\ backend < MaxMoves
    /\ backend' = backend + 1
    /\ UNCHANGED <<main, keep, left, serving, connVars, reqVars>>

\* Drain closes the listener, ...
Drain ==
    /\ Main("open", "refusing")
    /\ UNCHANGED <<keep, left, backend, serving, connVars, reqVars>>

\* As if idle connections were closed and keep-alives left on.
KeepAlivesStay ==
    /\ Main("refusing", "idling")
    /\ left' = {c \in Conn : ServerTracks(c)}
    /\ UNCHANGED <<keep, backend, serving, connVars, reqVars>>

\* ... disables keep-alives ...
DisableKeepAlives ==
    /\ Main("refusing", "idling")
    /\ keep' = FALSE
    /\ left' = {c \in Conn : ServerTracks(c)}
    /\ UNCHANGED <<backend, serving, connVars, reqVars>>

\* trackingConn.Close of a connection the walk has come to.
Shut(c) == open' = open \ {c} /\ tracked' = tracked \ {c}

\* ... and closes the connections that wait for a request, also those that
\* have sent none at all for a while.
VisitIdle(c) ==
    /\ main = "idling" /\ c \in left
    /\ left' = left \ {c}
    /\ \/ ServerIdle(c) /\ Shut(c)
       \/ at[c] = "reading" /\ Shut(c)
       \/ ~ServerIdle(c) /\ UNCHANGED <<open, tracked>>
    /\ UNCHANGED <<main, keep, backend, serving, at, reqVars>>

Drained ==
    /\ Main("idling", "draining")
    /\ left = {}
    /\ UNCHANGED <<keep, left, backend, serving, connVars, reqVars>>

\* Close: srv.Close waits for Serve, ...
CloseServer ==
    /\ Main("draining", "stopping")
    /\ UNCHANGED <<keep, left, backend, serving, connVars, reqVars>>

\* ... and closes what the server tracks.
TakeServed ==
    /\ Main("stopping", "stopped")
    /\ ~serving
    /\ left' = {c \in Conn : ServerTracks(c)}
    /\ UNCHANGED <<keep, backend, serving, connVars, reqVars>>

CloseServed(c) ==
    /\ main = "stopped" /\ c \in left
    /\ left' = left \ {c}
    /\ Shut(c)
    /\ UNCHANGED <<main, keep, backend, serving, at, reqVars>>

\* As if the server knew them all.
TakeNone ==
    /\ Main("stopped", "closing")
    /\ left = {}
    /\ UNCHANGED <<keep, left, backend, serving, connVars, reqVars>>

\* Close then takes a copy of what is left of e.conns.
TakeTracked ==
    /\ Main("stopped", "closing")
    /\ left = {} /\ left' = tracked
    /\ UNCHANGED <<keep, backend, serving, connVars, reqVars>>

\* As if e.mu were held meanwhile, which trackingConn.Close waits for.
CloseLocked(c) ==
    /\ main = "closing" /\ c \in left \ tracked
    /\ left' = left \ {c}
    /\ Shut(c)
    /\ UNCHANGED <<main, keep, backend, serving, at, reqVars>>

\* trackingConn.Close takes e.mu to untrack its connection.
CloseTracked(c) ==
    /\ main = "closing" /\ c \in left
    /\ left' = left \ {c}
    /\ Shut(c)
    /\ UNCHANGED <<main, keep, backend, serving, at, reqVars>>

Closed ==
    /\ Main("closing", "closed")
    /\ left = {}
    /\ UNCHANGED <<keep, left, backend, serving, connVars, reqVars>>

Idle == tracked = {}

-----------------------------------------------------------------------------
(* Serve and the tracking listener.                                        *)

Goes(c, from, to) ==
    /\ at[c] \in from
    /\ at' = [at EXCEPT ![c] = to]

\* As if Drain left the listener open.
AcceptDrained(c) ==
    /\ main # "closed" /\ serving
    /\ Arriving = {}
    /\ Limit = 0 \/ Cardinality(open) < Limit
    /\ Goes(c, {"new"}, "accepted")
    /\ open' = open \cup {c}
    /\ UNCHANGED <<endVars, serving, tracked, reqVars>>

Accept(c) ==
    /\ main = "open" /\ serving
    /\ Arriving = {}
    /\ Limit = 0 \/ Cardinality(open) < Limit
    /\ Goes(c, {"new"}, "accepted")
    /\ open' = open \cup {c}
    /\ UNCHANGED <<endVars, serving, tracked, reqVars>>

Track(c) ==
    /\ Goes(c, {"accepted"}, "tracked")
    /\ tracked' = tracked \cup {c}
    /\ UNCHANGED <<endVars, serving, open, reqVars>>

Serve(c) ==
    /\ Goes(c, {"tracked"}, "reading")
    /\ UNCHANGED <<endVars, serving, tracked, open, reqVars>>

\* The listener is closed.
ServeReturns ==
    /\ serving /\ main # "open"
    /\ Arriving = {}
    /\ serving' = FALSE
    /\ UNCHANGED <<endVars, connVars, reqVars>>

-----------------------------------------------------------------------------
(* One connection: requests, the handler and the end.                      *)

sockVars == <<tracked, open>>

Request(c) ==
    /\ Goes(c, {"reading", "waiting"}, "serving")
    /\ c \in open
    /\ since' = [since EXCEPT ![c] = backend]
    /\ late' = IF main \in {"open", "refusing", "idling"} THEN late
               ELSE late \cup {c}
    /\ UNCHANGED <<endVars, serving, sockVars, addr>>

\* ReadHeaderTimeout of a connection without a request.
HeaderTimeout(c) ==
    /\ Goes(c, {"reading"}, "leaving")
    /\ UNCHANGED <<endVars, serving, sockVars, reqVars>>

\* The client leaves, or IdleTimeout is over.
ClientLeaves(c) ==
    /\ Goes(c, {"waiting"}, "leaving")
    /\ UNCHANGED <<endVars, serving, sockVars, reqVars>>

\* The path is not under the endpoint's: 404.
NotMounted(c) ==
    /\ Goes(c, {"serving"}, "answered")
    /\ UNCHANGED <<endVars, serving, sockVars, reqVars>>

\* As if the endpoint kept the backend it was published with.
LoadFirstBackend(c) ==
    /\ Goes(c, {"serving"}, "proxying")
    /\ addr' = [addr EXCEPT ![c] = 0]
    /\ UNCHANGED <<endVars, serving, sockVars, since, late>>

\* Rewrite asks for the backend once for every request.
LoadBackend(c) ==
    /\ Goes(c, {"serving"}, "proxying")
    /\ addr' = [addr EXCEPT ![c] = backend]
    /\ UNCHANGED <<endVars, serving, sockVars, since, late>>

\* The backend's response, or 502 in its absence.
Answer(c) ==
    /\ Goes(c, {"proxying"}, "answered")
    /\ UNCHANGED <<endVars, serving, sockVars, reqVars>>

\* Half a response, or a client that is gone.
Abort(c) ==
    /\ Goes(c, {"proxying"}, "leaving")
    /\ UNCHANGED <<endVars, serving, sockVars, reqVars>>

\* As if connections were tracked by the state the server reports.
UpgradeUntracked(c) ==
    /\ Goes(c, {"proxying"}, "hijacked")
    /\ tracked' = tracked \ {c}
    /\ UNCHANGED <<endVars, serving, open, reqVars>>

\* 101: ReverseProxy takes the connection away from the server.
Upgrade(c) ==
    /\ Goes(c, {"proxying"}, "hijacked")
    /\ UNCHANGED <<endVars, serving, sockVars, reqVars>>

\* Either end of an upgraded connection is over.
UpgradeEnds(c) ==
    /\ Goes(c, {"hijacked"}, "ended")
    /\ UNCHANGED <<endVars, serving, sockVars, reqVars>>

\* The request or the response does not let the connection be used again.
NotReused(c) ==
    /\ Goes(c, {"answered"}, "leaving")
    /\ UNCHANGED <<endVars, serving, sockVars, reqVars>>

BecomeIdle(c) ==
    /\ Goes(c, {"answered"}, "idle")
    /\ UNCHANGED <<endVars, serving, sockVars, reqVars>>

ShuttingDown == main \in {"stopping", "stopped", "closing", "closed"}

\* As if the question were not asked.
AlwaysKeep(c) ==
    /\ Goes(c, {"idle"}, "waiting")
    /\ UNCHANGED <<endVars, serving, sockVars, reqVars>>

KeepAlive(c) ==
    /\ IF keep /\ ~ShuttingDown THEN Goes(c, {"idle"}, "waiting")
                                ELSE Goes(c, {"idle"}, "leaving")
    /\ UNCHANGED <<endVars, serving, sockVars, reqVars>>

\* The goroutine notices that its socket was closed.
Cut(c) ==
    /\ c \notin open
    /\ \/ Goes(c, {"reading", "waiting", "proxying"}, "leaving")
       \/ Goes(c, {"hijacked"}, "ended")
    /\ UNCHANGED <<endVars, serving, sockVars, reqVars>>

\* The server, or ReverseProxy, closes the connection.
Leave(c) ==
    /\ Goes(c, {"leaving", "ended"}, "done")
    /\ Shut(c)
    /\ UNCHANGED <<endVars, serving, reqVars>>

-----------------------------------------------------------------------------
Init ==
    /\ main = "open" /\ keep = TRUE /\ serving = TRUE /\ left = {}
    /\ backend = 0
    /\ at = [c \in Conn |-> "new"]
    /\ tracked = {} /\ open = {} /\ late = {}
    /\ addr = [c \in Conn |-> 0] /\ since = [c \in Conn |-> 0]

Draining == DisableKeepAlives \/ Drained \/ \E c \in Conn : VisitIdle(c)

Closing ==
    \/ TakeServed \/ TakeTracked \/ Closed
    \/ \E c \in Conn : CloseServed(c) \/ CloseTracked(c)

\* What the process does of itself.
Goroutine(c) ==
    \/ Track(c) \/ Serve(c)
    \/ HeaderTimeout(c) \/ Cut(c)
    \/ NotMounted(c) \/ LoadBackend(c)
    \/ NotReused(c) \/ BecomeIdle(c) \/ KeepAlive(c)
    \/ Leave(c)

\* What it does when the client, the backend or the clock lets it.
Peers(c) ==
    \/ Accept(c) \/ Request(c) \/ ClientLeaves(c)
    \/ Answer(c) \/ Abort(c) \/ Upgrade(c) \/ UpgradeEnds(c)

Next ==
    \/ SetBackend \/ Drain \/ Draining
    \/ CloseServer \/ Closing
    \/ ServeReturns
    \/ \E c \in Conn : Goroutine(c) \/ Peers(c)

Spec == Init /\ [][Next]_vars

(***************************************************************************)
(* Goroutines are scheduled, the calls of the main loop end, and a header  *)
(* timeout is set (10s by default).  Nothing is asked of clients and       *)
(* backends.                                                               *)
(***************************************************************************)
FairSpec ==
    /\ Spec
    /\ WF_vars(Draining) /\ WF_vars(Closing) /\ WF_vars(ServeReturns)
    /\ \A c \in Conn : WF_vars(Goroutine(c))

-----------------------------------------------------------------------------
(* Properties.                                                             *)

Mains == {"open", "refusing", "idling", "draining", "stopping", "stopped",
          "closing", "closed"}
Places == {"new", "accepted", "tracked", "reading", "serving", "proxying",
           "answered", "idle", "waiting", "hijacked", "ended", "leaving",
           "done"}

\* The calls of the main loop, the connections and their requests.
TypeOK ==
    /\ main \in Mains /\ keep \in BOOLEAN /\ serving \in BOOLEAN
    /\ left \subseteq Conn /\ backend \in 0..MaxMoves
    /\ at \in [Conn -> Places]
    /\ tracked \subseteq Conn /\ open \subseteq Conn
    /\ addr \in [Conn -> 0..MaxMoves] /\ since \in [Conn -> 0..MaxMoves]
    /\ late \subseteq Conn

(***************************************************************************)
(* Idle and Close can overlook one connection at most, between the accept  *)
(* of the listener and e.conns (proxy.go:202), and Serve does not return   *)
(* in between; every other open connection is tracked, upgraded ones too.  *)
(***************************************************************************)
Owned ==
    /\ tracked \subseteq open
    /\ open \ tracked = {c \in Conn : at[c] = "accepted"}
    /\ \A c \in Conn : at[c] \in {"new", "done"} => c \notin open
    /\ \A c, d \in Arriving : c = d
    /\ Arriving \subseteq open

\* Who asks after keep-alives were disabled is told so; a connection that
\* waits for a request all the same is one the walk has yet to visit.
NoneKept ==
    /\ keep <=> main \in {"open", "refusing"}
    /\ \A c \in open : at[c] = "waiting" =>
          keep \/ (main = "idling" /\ c \in left)
    /\ late # {} => main \notin {"open", "refusing", "idling"}
    /\ \A c \in late : at[c] \in {"serving", "proxying", "answered", "idle",
                                  "hijacked", "ended", "leaving", "done"}

\* What Close has closed so far.
Shutting ==
    /\ main = "open" => serving
    /\ ~serving => Arriving = {}
    /\ main \in {"stopped", "closing", "closed"} => ~serving
    /\ main = "stopped" =>
          \A c \in open : c \in left \/ at[c] \in {"hijacked", "ended"}
    /\ main = "closing" => open \subseteq left
    /\ main = "closed" => open = {}

\* A request goes to the backend of when it was read or to a later one.
Addressed ==
    \A c \in Conn : /\ since[c] =< backend
                    /\ at[c] = "proxying" => addr[c] >= since[c]

\* All of it together is inductive.
IInv == TypeOK /\ Owned /\ NoneKept /\ Shutting /\ Addressed

(***************************************************************************)
(* Close leaves no client connected, upgraded connections included, which  *)
(* http.Server.Close does not know, and the one that was being accepted    *)
(* ("Close force-closes anything still open", proxy.go:40).                *)
(***************************************************************************)
NothingLeft == main = "closed" => open = {} /\ tracked = {} /\ Arriving = {}

(***************************************************************************)
(* No request read after SetBackend returned is proxied to the backend it  *)
(* replaced, also on a connection that is older (README.md's repointing    *)
(* without a drain; proxy.go:32).                                          *)
(***************************************************************************)
FreshRequest == \A c \in Conn : at[c] = "proxying" => addr[c] >= since[c]

(***************************************************************************)
(* A drained endpoint reads at most one more request from a connection:    *)
(* SetKeepAlivesEnabled(false) (proxy.go:166) leaves none to be used again, *)
(* wherever it was when Drain came by.                                     *)
(***************************************************************************)
OneMoreRequest ==
    [][\A c \in Conn : at[c] # "serving" /\ at'[c] = "serving" => c \notin late]_vars

(***************************************************************************)
(* Idle comes true after Drain as soon as the requests in flight are       *)
(* answered and upgraded connections over: only those keep an endpoint     *)
(* from being idle for good, not a client that stays connected.            *)
(***************************************************************************)
Emptied ==
    main = "draining" ~>
        [](\A c \in tracked : at[c] \in {"proxying", "hijacked"})

\* Close returns: srv.Close waits for Serve, and trackingConn.Close for e.mu
\* (proxy.go:181-189).
CloseEnds == main = "stopping" ~> main = "closed"

\* What the reconciler and the client see of the endpoint and a connection.
Phase == IF main \in {"open", "closed"} THEN main ELSE "draining"
Seen(c) == IF c \in open THEN "open"
           ELSE IF at[c] = "new" THEN "new" ELSE "over"

Abstract == INSTANCE Endpoint WITH
    phase <- Phase, conn <- [c \in Conn |-> Seen(c)], known <- tracked

(***************************************************************************)
(* The endpoint is one the reconciler can work with, as publishedEndpoint  *)
(* says (proxy.go:29-42): once Drain has begun it accepts nobody, whatever *)
(* the server is doing, and when Close returns, what Idle counts is over.  *)
(***************************************************************************)
Promised == Abstract!Spec
=============================================================================
