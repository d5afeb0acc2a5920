------------------------------ MODULE Endpoint ------------------------------
(***************************************************************************)
(* publishedEndpoint (proxy.go): what the reconciler is promised by an     *)
(* endpoint of either kind.                                                *)
(*                                                                         *)
(* A connection is open to its client from the moment the listener hands   *)
(* it out; the endpoint knows it a little later.  Idle and Close look at   *)
(* the ones it knows.                                                      *)
(***************************************************************************)
CONSTANT Conn

VARIABLES
    phase,  \* "open", "draining" or "closed"
    conn,   \* "new", "open" or "over" to the client
    known   \* the connections Idle and Close look at

vars == <<phase, conn, known>>

Init ==
    /\ phase = "open"
    /\ conn = [c \in Conn |-> "new"]
    /\ known = {}

Begin(c) ==
    /\ phase = "open"
    /\ conn[c] = "new"
    /\ conn' = [conn EXCEPT ![c] = "open"]
    /\ UNCHANGED <<phase, known>>

Know(c) ==
    /\ conn[c] = "open"
    /\ known' = known \cup {c}
    /\ UNCHANGED <<phase, conn>>

\* A connection ends for a reason of its own.
Finish(c) ==
    /\ c \in known
    /\ conn[c] = "open"
    /\ conn' = [conn EXCEPT ![c] = "over"]
    /\ known' \in {known, known \ {c}}
    /\ UNCHANGED phase

Forget(c) ==
    /\ c \in known
    /\ conn[c] = "over"
    /\ known' = known \ {c}
    /\ UNCHANGED <<phase, conn>>

\* "Stops accepting new connections; existing proxied connections continue
\* to flow": none of them changes.
Drain ==
    /\ phase = "open"
    /\ phase' = "draining"
    /\ UNCHANGED <<conn, known>>

\* "Force-closes anything still open."
Close ==
    /\ phase = "draining"
    /\ phase' = "closed"
    /\ conn' = [c \in Conn |-> IF c \in known THEN "over" ELSE conn[c]]
    /\ UNCHANGED known

Next ==
    \/ \E c \in Conn : Begin(c) \/ Know(c) \/ Finish(c) \/ Forget(c)
    \/ Drain \/ Close

Spec == Init /\ [][Next]_vars
=============================================================================
