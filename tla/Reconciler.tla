----------------------------- MODULE Reconciler -----------------------------
(***************************************************************************)
(* The reconciler (reconcile.go) and the connections of the endpoints it   *)
(* owns.  A pass runs in the main loop, one endpoint after the other, while *)
(* connections are accepted and finish and time passes.                    *)
(*                                                                         *)
(* An endpoint (a publishedEndpoint and its entry in active or draining)   *)
(* is a slot of Ep: "free", "active" while its listener is open,           *)
(* "draining" once Drain closed it.  Time is the age of a draining         *)
(* endpoint, in ticks, counted up to the drain grace.                      *)
(***************************************************************************)
EXTENDS Integers

CONSTANTS
    Ep,             \* endpoint slots (bound: endpoints alive at a time)
    Key,            \* listener keys: service, protocol, port, path, limits
    Port,           \* (Service, port) pairs of the tailnet
    PortOf,         \* the port a key listens on
    Backend,        \* backends of the host
    None,           \* no key and no backend
    Wants,          \* the desired sets the cache may ask for
    DrainGrace,     \* -drain-grace, in ticks
    ShutdownGrace,  \* -shutdown-grace, in ticks
    MaxConns        \* bound: connections of an endpoint

Desired == [Key -> Backend \cup {None}]

ASSUME PortOfAssumption == PortOf \in [Key -> Port]
ASSUME NoneAssumption == None \notin Backend \cup Key
ASSUME GraceAssumption ==
    DrainGrace \in Nat /\ ShutdownGrace \in Nat /\ MaxConns \in Nat
\* desiredFromState lets one endpoint claim a (Service, port) pair.
ASSUME WantsAssumption ==
    /\ Wants \subseteq Desired
    /\ \A w \in Wants : \A k, l \in Key :
          w[k] # None /\ w[l] # None /\ PortOf[k] = PortOf[l] => k = l

VARIABLES
    ep,       \* the endpoints
    pc,       \* where the reconciler is
    want,     \* the desired set of the current pass, or of the last one
    todo,     \* desired keys the publish loop has not reached
    failed,   \* keys whose publish failed in the last pass
    left      \* ticks left of the shutdown grace

vars == <<ep, pc, want, todo, failed, left>>

Free(e) == ep[e].state = "free"
Active(e) == ep[e].state = "active"
Draining(e) == ep[e].state = "draining"

Gone ==
    [state |-> "free", key |-> None, backend |-> None, conns |-> 0, age |-> 0]

-----------------------------------------------------------------------------
(* Connections and time.                                                   *)

\* What a listener accepted may be tracked after the listener is closed.
Accept(e) ==
    /\ ~Free(e)
    /\ ep[e].conns < MaxConns
    /\ ep' = [ep EXCEPT ![e].conns = @ + 1]
    /\ UNCHANGED <<pc, want, todo, failed, left>>

FinishConn(e) ==
    /\ ep[e].conns > 0
    /\ ep' = [ep EXCEPT ![e].conns = @ - 1]
    /\ UNCHANGED <<pc, want, todo, failed, left>>

Tick ==
    /\ ep' = [e \in Ep |-> IF Draining(e) /\ ep[e].age < DrainGrace
                           THEN [ep[e] EXCEPT !.age = @ + 1] ELSE ep[e]]
    /\ left' = IF left > 0 THEN left - 1 ELSE left
    /\ UNCHANGED <<pc, want, todo, failed>>

-----------------------------------------------------------------------------
(* A pass.                                                                 *)

StartPass(w) ==
    /\ pc = "idle"
    /\ pc' = "drain"
    /\ want' = w
    /\ failed' = {}
    /\ UNCHANGED <<ep, todo, left>>

\* As if the two comparisons with the grace disagreed by one tick.
ExpiredLate(e) == ep[e].age > DrainGrace
\* As if every sweep force-closed.
ExpiredAlways(e) == TRUE
Expired(e) == ep[e].age >= DrainGrace

\* nextDeadline wakes the main loop for a pass over the cache as it then is.
DeadlinePass ==
    /\ \E e \in Ep : Draining(e) /\ Expired(e)
    /\ \E w \in Wants : StartPass(w)

\* The gather failed: only the draining endpoints are looked after.
FailedPass ==
    /\ pc = "idle"
    /\ pc' = "sweep"
    /\ UNCHANGED <<ep, want, todo, failed, left>>

\* since is now: the age of an endpoint is 0 until it drains.
DrainEndpoint(e) ==
    /\ ep' = [ep EXCEPT ![e].state = "draining"]
    /\ UNCHANGED <<want, todo, failed, left>>

DrainOne(e) ==
    /\ pc = "drain"
    /\ Active(e)
    /\ want[ep[e].key] = None
    /\ DrainEndpoint(e)
    /\ UNCHANGED pc

\* As if publishing did not wait for the drain loop.
StartPublishAnyTime ==
    /\ pc = "drain"
    /\ pc' = "publish"
    /\ todo' = {k \in Key : want[k] # None}
    /\ UNCHANGED <<ep, want, failed, left>>

StartPublish ==
    /\ pc = "drain"
    /\ \A e \in Ep : Active(e) => want[ep[e].key] # None
    /\ pc' = "publish"
    /\ todo' = {k \in Key : want[k] # None}
    /\ UNCHANGED <<ep, want, failed, left>>

Reached(k) ==
    /\ pc = "publish"
    /\ k \in todo
    /\ todo' = todo \ {k}
    /\ UNCHANGED <<pc, want, left>>

\* As if a served key were left alone when its backend moved.
KeepBackend(k) ==
    /\ Reached(k)
    /\ \E e \in Ep : Active(e) /\ ep[e].key = k
    /\ UNCHANGED <<ep, failed>>

\* The key is served: its endpoint is repointed if the backend moved.
MoveBackend(k) ==
    /\ Reached(k)
    /\ \E e \in Ep : /\ Active(e) /\ ep[e].key = k
                     /\ ep' = [ep EXCEPT ![e].backend = want[k]]
    /\ UNCHANGED failed

Unserved(k) == \A e \in Ep : Active(e) => ep[e].key # k

Publish(k) ==
    /\ Reached(k)
    /\ Unserved(k)
    /\ \E e \in Ep :
          /\ Free(e)
          /\ ep' = [ep EXCEPT ![e] =
                      [state |-> "active", key |-> k, backend |-> want[k],
                       conns |-> 0, age |-> 0]]
    /\ UNCHANGED failed

PublishFails(k) ==
    /\ Reached(k)
    /\ Unserved(k)
    /\ failed' = failed \cup {k}
    /\ UNCHANGED ep

StartSweep ==
    /\ pc = "publish"
    /\ todo = {}
    /\ pc' = "sweep"
    /\ UNCHANGED <<ep, want, todo, failed, left>>

\* Close force-closes what is left of the endpoint.
CloseAll(S) ==
    ep' = [e \in Ep |-> IF e \in S THEN Gone ELSE ep[e]]

AllDraining == {e \in Ep : Draining(e)}
Sweepable == {e \in Ep : Draining(e) /\ (ep[e].conns = 0 \/ Expired(e))}

Sweep ==
    /\ pc = "sweep"
    /\ CloseAll(Sweepable)
    /\ pc' = "idle"
    /\ UNCHANGED <<want, todo, failed, left>>

-----------------------------------------------------------------------------
(* Shutdown: a signal, or the failure budget is spent.                     *)

BeginShutdown ==
    /\ pc = "idle"
    /\ pc' = "withdraw"
    /\ UNCHANGED <<ep, want, todo, failed, left>>

Withdraw(e) ==
    /\ pc = "withdraw"
    /\ Active(e)
    /\ DrainEndpoint(e)
    /\ UNCHANGED pc

StartGrace ==
    /\ pc = "withdraw"
    /\ \A e \in Ep : ~Active(e)
    /\ pc' = "grace"
    /\ left' = ShutdownGrace
    /\ UNCHANGED <<ep, want, todo, failed>>

\* The loop sweeps, leaves when nothing drains or the deadline passed, sleeps.
GraceSweep ==
    /\ pc = "grace"
    /\ CloseAll(Sweepable)
    /\ pc' = "check"
    /\ UNCHANGED <<want, todo, failed, left>>

\* As if shutdown swept once and did not wait for the deadline.
GraceCheckOnce ==
    /\ pc = "check"
    /\ pc' = "force"
    /\ UNCHANGED <<ep, want, todo, failed, left>>

GraceCheck ==
    /\ pc = "check"
    /\ pc' = IF left = 0 \/ \A e \in Ep : ~Draining(e)
             THEN "force" ELSE "grace"
    /\ UNCHANGED <<ep, want, todo, failed, left>>

\* As if shutdown ended with one more sweep in place of the force-close.
ForceIdleOnly ==
    /\ pc = "force"
    /\ CloseAll(Sweepable)
    /\ pc' = "done"
    /\ UNCHANGED <<want, todo, failed, left>>

ForceClose ==
    /\ pc = "force"
    /\ CloseAll(AllDraining)
    /\ pc' = "done"
    /\ UNCHANGED <<want, todo, failed, left>>

-----------------------------------------------------------------------------
Init ==
    /\ ep = [e \in Ep |-> Gone]
    /\ pc = "idle"
    /\ want = [k \in Key |-> None]
    /\ todo = {} /\ failed = {} /\ left = 0

PublishOne == \E k \in todo : MoveBackend(k) \/ Publish(k) \/ PublishFails(k)

Pass ==
    \/ \E e \in Ep : DrainOne(e)
    \/ StartPublish
    \/ PublishOne
    \/ StartSweep
    \/ Sweep

Shutdown ==
    \/ \E e \in Ep : Withdraw(e)
    \/ StartGrace
    \/ GraceSweep
    \/ GraceCheck
    \/ ForceClose

Next ==
    \/ \E e \in Ep : Accept(e) \/ FinishConn(e)
    \/ Tick
    \/ \E w \in Wants : StartPass(w)
    \/ DeadlinePass
    \/ FailedPass
    \/ Pass
    \/ BeginShutdown
    \/ Shutdown

Spec == Init /\ [][Next]_vars

(***************************************************************************)
(* The main loop finishes what it starts, time passes, and a deadline that *)
(* is due again and again is chosen by the select of the main loop.        *)
(* Connections owe nothing: they may last for ever.                        *)
(***************************************************************************)
FairSpec ==
    /\ Spec
    /\ WF_vars(Pass) /\ WF_vars(Shutdown) /\ WF_vars(Tick)
    /\ SF_vars(DeadlinePass)

-----------------------------------------------------------------------------
(* Properties.                                                             *)

Published == [state : {"active", "draining"}, key : Key,
              backend : Backend \cup {None},
              conns : 0..MaxConns, age : 0..DrainGrace]
Endpoint == {Gone} \cup Published

Pcs == {"idle", "drain", "publish", "sweep", "withdraw", "grace", "check",
        "force", "done"}

\* The endpoints, and where the reconciler is.
TypeOK ==
    /\ ep \in [Ep -> Endpoint]
    /\ pc \in Pcs
    /\ want \in Desired
    /\ todo \subseteq Key /\ failed \subseteq Key
    /\ left \in 0..ShutdownGrace

(***************************************************************************)
(* No two open listeners share a (Service, port) pair, in the middle of a  *)
(* pass either: an endpoint whose path or limits changed is drained before *)
(* its successor is published ("Drain first so a re-shaped endpoint can    *)
(* re-bind its port", reconcile.go:121).                                   *)
(***************************************************************************)
OneListenerPerPort ==
    \A e, f \in Ep : Active(e) /\ Active(f)
                     /\ PortOf[ep[e].key] = PortOf[ep[f].key] => e = f

(***************************************************************************)
(* Between passes the open listeners are the desired endpoints at their    *)
(* desired backends, those whose publish just failed excepted: whatever    *)
(* failed or moved in earlier passes is made good by this one.             *)
(***************************************************************************)
Converged ==
    pc = "idle" =>
        /\ \A e \in Ep : Active(e) => /\ want[ep[e].key] # None
                                      /\ ep[e].backend = want[ep[e].key]
        /\ \A k \in Key : want[k] # None =>
              k \in failed \/ \E e \in Ep : Active(e) /\ ep[e].key = k

(***************************************************************************)
(* An endpoint is closed under its connections only after it drained for   *)
(* the drain grace, or when the shutdown grace is over.                    *)
(***************************************************************************)
GraceRespected ==
    [][\A e \in Ep : ~Free(e) /\ ep'[e].state = "free" /\ ep[e].conns > 0 =>
          /\ Draining(e)
          /\ ep[e].age = DrainGrace \/ (pc = "force" /\ left = 0)]_vars

(***************************************************************************)
(* Why the three hold: the keys the cache asks for claim a port each; away *)
(* from the drain loop every open listener is wanted; the publish loop     *)
(* leaves each wanted key served or failed; and the force-close of a       *)
(* shutdown finds either nothing draining or no grace left.                *)
(***************************************************************************)
OneClaimPerPort ==
    \A k, l \in Key : want[k] # None /\ want[l] # None
                      /\ PortOf[k] = PortOf[l] => k = l

OnlyWanted == pc # "drain" => \A e \in Ep : Active(e) => want[ep[e].key] # None

Publishing ==
    /\ pc # "publish" => todo = {}
    /\ \A k \in todo : want[k] # None
    /\ pc \in {"publish", "sweep", "idle"} =>
          /\ \A e \in Ep : Active(e) =>
                ep[e].key \in todo \/ ep[e].backend = want[ep[e].key]
          /\ \A k \in Key : want[k] # None =>
                \/ k \in failed \cup todo
                \/ \E e \in Ep : Active(e) /\ ep[e].key = k

ForceLast == pc = "force" => left = 0 \/ \A e \in Ep : ~Draining(e)

\* All of it together is inductive.
IInv ==
    /\ TypeOK /\ OneListenerPerPort
    /\ OneClaimPerPort /\ OnlyWanted /\ Publishing /\ ForceLast

(***************************************************************************)
(* A draining endpoint is closed in the end, with connections that never   *)
(* finish, and with Nomad unreachable so that no pass but the deadline's   *)
(* or a failed one runs (nextDeadline, sweepDraining).                     *)
(***************************************************************************)
DrainsEnd == \A e \in Ep : Draining(e) ~> Free(e)

(***************************************************************************)
(* A shutdown comes to an end, and then nothing is left open.              *)
(***************************************************************************)
ShutdownEnds == pc = "withdraw" ~> (pc = "done" /\ \A e \in Ep : Free(e))
=============================================================================
