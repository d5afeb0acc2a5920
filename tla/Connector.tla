------------------------------ MODULE Connector -----------------------------
(***************************************************************************)
(* A connector: the reconciler of a node, given in each pass what          *)
(* desiredFromState makes of the cache as it is then, whatever the cache   *)
(* holds.                                                                  *)
(***************************************************************************)
EXTENDS Selection

CONSTANTS
    Here,           \* the node of the connector
    None,           \* no listener and no backend
    Ep, DrainGrace, ShutdownGrace, MaxConns  \* those of Reconciler

VARIABLES ep, pc, want, todo, failed, left   \* those of Reconciler

\* What the cache may hold: the registrations, with their index and tags.
States == [Reg -> [index : 0..MaxIndex, tags : TagLists \cup {<<>>}]]

DesiredOf(st) == DesiredFromState(st, Here).desired

\* desiredEndpoint.key: all of it but the backend.
KeyOf(d) == [service |-> d.service, port |-> d.port, endpoint |-> d.endpoint]

Keys == {KeyOf(d) : d \in UNION {DesiredOf(st) : st \in States}}

Ports == {<<k.service, k.port>> : k \in Keys}

\* The endpoints of a pass by their key (the map want of reconcile).
WantOf(st) ==
    [k \in Keys |->
        IF \E d \in DesiredOf(st) : KeyOf(d) = k
        THEN (CHOOSE d \in DesiredOf(st) : KeyOf(d) = k).backend
        ELSE None]

Rec == INSTANCE ReconcilerProof WITH
        Key <- Keys, Port <- Ports,
        PortOf <- [k \in Keys |-> <<k.service, k.port>>],
        Backend <- Reg, Wants <- {WantOf(st) : st \in States}
=============================================================================
