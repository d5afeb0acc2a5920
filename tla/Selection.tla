------------------------------ MODULE Selection -----------------------------
(***************************************************************************)
(* desiredFromState (main.go): what each connector publishes of the        *)
(* registrations in Nomad's catalog, taken here with every cache up to     *)
(* date.  All connectors compute it from the same registrations, each with *)
(* its own node and datacenter.                                            *)
(*                                                                         *)
(* A registration ID is a number, ordered as the strings are; a service is *)
(* a (namespace, name) group, and GroupOrder lists the groups as           *)
(* sort.Strings does.                                                      *)
(***************************************************************************)
EXTENDS Tags

CONSTANTS
    Reg,           \* registration IDs
    GroupOrder,    \* the services, in the order of their group keys
    ServiceOf,     \* the service of a registration
    NodeOf,        \* the node it runs on
    Address,       \* its address: "host", "loopback" or "" for none
    Node,          \* nodes, with a connector each
    DatacenterOf,  \* the datacenter of a node
    TagLists,      \* the lists of tags a registration may carry
    MaxIndex       \* bound: different create indexes at a time

ASSUME RegAssumption == Reg \subseteq Nat /\ IsFiniteSet(Reg)
ASSUME OrderAssumption ==
    GroupOrder \in Seq({GroupOrder[i] : i \in DOMAIN GroupOrder})
ASSUME MaxIndexAssumption == MaxIndex \in Nat
ASSUME HomeAssumption ==
    /\ ServiceOf \in [Reg -> {GroupOrder[i] : i \in DOMAIN GroupOrder}]
    /\ NodeOf \in [Reg -> Node]
    /\ Address \in [Reg -> {"host", "loopback", ""}]

VARIABLES
    state,  \* the registrations there are: create index and tags
    plan    \* what each connector publishes of them

vars == <<state, plan>>

Services == {GroupOrder[i] : i \in DOMAIN GroupOrder}

\* The specs of the lists of tags there are, each parsed once.
Specs == [s \in Services |-> [t \in TagLists |-> ParseTags(s, t)]]

Absent == [index |-> 0, tags |-> <<>>]

-----------------------------------------------------------------------------
(* One registration per service, of a state st.                            *)

Members(st, s) == {r \in Reg : st[r] # Absent /\ ServiceOf[r] = s}

NewerFirst(st, r, q) ==
    \/ st[r].index > st[q].index
    \/ st[r].index = st[q].index /\ r < q

Newest(st, R) == CHOOSE r \in R : \A q \in R \ {r} : NewerFirst(st, r, q)

\* The service's registrations, the newest first.
Group(st, s) ==
    LET R == Members(st, s)
    IN  CHOOSE g \in [1..Cardinality(R) -> R] :
            \A i, j \in DOMAIN g : i < j => NewerFirst(st, g[i], g[j])

\* registrationScopeRank: how near r is to the connector of node n.
Local(r, n) == NodeOf[r] = n
SameDatacenter(r, n) == DatacenterOf[NodeOf[r]] = DatacenterOf[n]

InScope(r, scope, n) ==
    \/ Local(r, n)
    \/ /\ Address[r] # "loopback"
       /\ \/ scope = "global"
          \/ scope = "datacenter" /\ SameDatacenter(r, n)

Rank(r, n) == IF Local(r, n) THEN 0 ELSE IF SameDatacenter(r, n) THEN 1 ELSE 2

\* As if the newest candidate were taken wherever it runs.
BetterNewest(st, r, best, n) == \A b \in best : NewerFirst(st, r, b)

\* best is the registration chosen so far, if any.
Better(st, r, best, n) ==
    \A b \in best :
        /\ Rank(r, n) =< Rank(b, n)
        /\ Rank(r, n) < Rank(b, n) \/ NewerFirst(st, r, b)

Selected(st, s, scope, n) ==
    LET choose(best, r) ==
            IF InScope(r, scope, n) /\ Better(st, r, best, n)
            THEN {r} ELSE best
    IN  FoldLeft(choose, {}, Group(st, s))

-----------------------------------------------------------------------------
(* The services one after the other; a port goes to the first to claim it. *)

\* As if ports were claimed without their Service.
FreePortAlone(desired, service, port) ==
    \A d \in desired : d.port # port

\* As if nothing were claimed.
FreeAlways(desired, service, port) == TRUE

Free(desired, service, port) ==
    \A d \in desired : ~(d.service = service /\ d.port = port)

\* As if every connector published the certificate.
WantsCertAnywhere(spec, r, n) == spec.cert

WantsCert(spec, r, n) == spec.cert /\ Local(r, n)

Claim(acc, s, spec, r, n) ==
    [desired |-> acc.desired \cup
        {[service |-> spec.service, port |-> e.port, endpoint |-> e,
          backend |-> r] :
         e \in {f \in spec.endpoints :
                   Free(acc.desired, spec.service, f.port)}},
     certs |-> acc.certs \cup IF WantsCert(spec, r, n) THEN {s} ELSE {}]

\* The newest registration's tags speak for the service.
TagsOf(st, s) == st[Newest(st, Members(st, s))].tags

Asks(st, s) == Members(st, s) # {} /\ OptedIn(TagsOf(st, s))

SpecOf(st, s) == Specs[s][TagsOf(st, s)]

\* The registration to forward to, if it has an address.
Usable(st, s, n) ==
    {r \in Selected(st, s, SpecOf(st, s).scope, n) : Address[r] # ""}

Serves(st, s, n) == Asks(st, s) /\ Usable(st, s, n) # {}

AddService(acc, st, s, n) ==
    IF Serves(st, s, n)
    THEN Claim(acc, s, SpecOf(st, s), CHOOSE r \in Usable(st, s, n) : TRUE, n)
    ELSE acc

DesiredFromState(st, n) ==
    LET add(acc, s) == AddService(acc, st, s, n)
    IN  FoldLeft(add, [desired |-> {}, certs |-> {}], GroupOrder)

-----------------------------------------------------------------------------
(* Nomad: registrations come, in one transaction or one after the other,   *)
(* are updated in place and go; the connectors follow.                     *)

Becomes(st) ==
    /\ state' = st
    /\ plan' = [n \in Node |-> DesiredFromState(st, n)]

Register(r, t) ==
    /\ state[r] = Absent
    /\ \E i \in 1..MaxIndex :
          /\ \A q \in Reg : state[q].index =< i
          /\ Becomes([state EXCEPT ![r] = [index |-> i, tags |-> t]])

Update(r, t) ==
    /\ state[r] # Absent
    /\ Becomes([state EXCEPT ![r].tags = t])

Deregister(r) ==
    /\ state[r] # Absent
    /\ Becomes([state EXCEPT ![r] = Absent])

Init ==
    /\ state = [r \in Reg |-> Absent]
    /\ plan = [n \in Node |-> [desired |-> {}, certs |-> {}]]

Next ==
    \E r \in Reg : \/ \E t \in TagLists : Register(r, t) \/ Update(r, t)
                   \/ Deregister(r)

Spec == Init /\ [][Next]_vars

-----------------------------------------------------------------------------
(* Properties.                                                             *)

(***************************************************************************)
(* The backend of a service is in its scope, and no registration in scope  *)
(* is nearer, or as near and newer ("a connector prefers a backend on its  *)
(* own node, then one in its datacenter, then ... the newest registration  *)
(* breaks ties", README.md:275); one is found whenever one is in scope.    *)
(***************************************************************************)
NearestBackend ==
    \A s \in Services, n \in Node : Asks(state, s) =>
        LET scope == SpecOf(state, s).scope
            eligible == {r \in Members(state, s) : InScope(r, scope, n)}
            chosen == Selected(state, s, scope, n)
        IN  /\ eligible # {} => chosen # {}
            /\ chosen \subseteq eligible
            /\ \A c \in chosen, r \in eligible :
                  /\ Rank(c, n) =< Rank(r, n)
                  /\ Rank(c, n) = Rank(r, n) =>
                        state[r].index =< state[c].index

(***************************************************************************)
(* A connector wants at most one endpoint at a (Service, port) pair,       *)
(* whatever names and ports the jobs of a node ask for: the assumption the *)
(* reconciler makes of its input (WantsAssumption of Reconciler).          *)
(***************************************************************************)
OneClaimPerPort ==
    \A n \in Node : \A d, e \in plan[n].desired :
        d.service = e.service /\ d.port = e.port => d = e

AsksFor(st, s, service, port) ==
    /\ Asks(st, s)
    /\ SpecOf(st, s).service = service
    /\ \E e \in SpecOf(st, s).endpoints : e.port = port

Changed(s) == \E r \in Reg : ServiceOf[r] = s /\ state'[r] # state[r]

(***************************************************************************)
(* A change to one Nomad service leaves every endpoint alone whose         *)
(* (Service, port) pair it does not ask for, before or after: deploying    *)
(* one job never moves or drains an endpoint of another.                   *)
(***************************************************************************)
Undisturbed ==
    [][\A n \in Node : \A d \in plan[n].desired \ plan'[n].desired :
          \E s \in Services :
             /\ Changed(s)
             /\ \/ AsksFor(state, s, d.service, d.port)
                \/ AsksFor(state', s, d.service, d.port)]_vars

(***************************************************************************)
(* Each port a service asks for is served at every connector that found a  *)
(* usable backend for it, by this service or by one that claimed the port  *)
(* before: a service with no usable backend holds no port back.            *)
(***************************************************************************)
PortsServed ==
    \A s \in Services, n \in Node : Serves(state, s, n) =>
        \A e \in SpecOf(state, s).endpoints :
           \E d \in plan[n].desired :
              d.service = SpecOf(state, s).service /\ d.port = e.port

(***************************************************************************)
(* Where every address is usable, the certificate of a service is          *)
(* published by the connectors of the nodes that run it, all of them and   *)
(* no other ("a certificate is published only by the connector hosting the *)
(* service", main.go:612).                                                 *)
(***************************************************************************)
CertFromHost ==
    \A s \in Services :
        Asks(state, s) /\ SpecOf(state, s).cert
        /\ (\A r \in Members(state, s) : Address[r] # "")
        => {n \in Node : s \in plan[n].certs} =
               {NodeOf[r] : r \in Members(state, s)}
=============================================================================
