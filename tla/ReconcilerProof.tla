--------------------------- MODULE ReconcilerProof ---------------------------
(***************************************************************************)
(* Proofs about Reconciler, for every set of endpoints, keys and ports and *)
(* every grace.                                                            *)
(***************************************************************************)
EXTENDS Reconciler, TLAPS

USE PortOfAssumption, NoneAssumption, GraceAssumption, WantsAssumption

-----------------------------------------------------------------------------
(* Type correctness.                                                       *)

LEMMA EndpointFacts ==
    ASSUME TypeOK, NEW e \in Ep
    PROVE  /\ ep[e] \in Endpoint
           /\ ~Free(e) => ep[e] \in Published
           /\ ep[e].conns \in 0..MaxConns
           /\ Free(e) => ep[e] = Gone
BY DEF TypeOK, Endpoint, Published, Gone, Free

LEMMA InitType == Init => TypeOK
<1> SUFFICES ASSUME Init PROVE TypeOK
  OBVIOUS
<1>1. ep \in [Ep -> Endpoint]
  BY DEF Init, Endpoint
<1> QED
  BY <1>1 DEF Init, TypeOK, Pcs, Desired

LEMMA TypeStep == TypeOK /\ [Next]_vars => TypeOK'
<1> SUFFICES ASSUME TypeOK, [Next]_vars PROVE TypeOK'
  OBVIOUS
<1>1. /\ ep \in [Ep -> Endpoint] /\ pc \in Pcs /\ want \in Desired
      /\ todo \subseteq Key /\ failed \subseteq Key
      /\ left \in 0..ShutdownGrace
  BY DEF TypeOK
<1>2. ASSUME NEW e \in Ep, Accept(e) \/ FinishConn(e) PROVE TypeOK'
  <2>1. ep[e] \in Published
    BY <1>2, EndpointFacts DEF Accept, FinishConn, Active, Free, Gone
  <2>2. ep' \in [Ep -> Endpoint]
    BY <1>1, <1>2, <2>1 DEF Accept, FinishConn, Endpoint, Published
  <2> QED
    BY <1>1, <1>2, <2>2 DEF Accept, FinishConn, TypeOK
<1>3. CASE Tick
  <2>1. ASSUME NEW e \in Ep, Draining(e), ep[e].age < DrainGrace
        PROVE  [ep[e] EXCEPT !.age = @ + 1] \in Published
    <3>1. ep[e] \in Published
      BY <2>1, EndpointFacts DEF Draining, Free
    <3> QED
      BY <2>1, <3>1 DEF Published
  <2>2. ep' \in [Ep -> Endpoint]
    BY <1>1, <1>3, <2>1 DEF Tick, Endpoint
  <2> QED
    BY <1>1, <1>3, <2>2 DEF Tick, TypeOK
<1>4. ASSUME NEW w \in Desired, StartPass(w) PROVE TypeOK'
  BY <1>1, <1>4 DEF StartPass, TypeOK, Pcs
<1>5. ASSUME NEW e \in Ep, DrainEndpoint(e), Active(e), pc' = pc PROVE TypeOK'
  <2>1. ep[e] \in Published
    BY <1>5, EndpointFacts DEF Active, Free
  <2>3. ep' \in [Ep -> Endpoint]
    BY <1>1, <1>5, <2>1 DEF DrainEndpoint, Endpoint, Published
  <2> QED
    BY <1>1, <1>5, <2>3 DEF DrainEndpoint, TypeOK
<1>6. ASSUME NEW S \in SUBSET Ep, CloseAll(S), pc' \in Pcs,
             UNCHANGED <<want, todo, failed, left>>
      PROVE  TypeOK'
  <2>1. ep' \in [Ep -> Endpoint]
    BY <1>1, <1>6 DEF CloseAll, Endpoint
  <2> QED
    BY <1>1, <1>6, <2>1 DEF TypeOK
<1>7. ASSUME NEW k \in todo, MoveBackend(k) PROVE TypeOK'
  <2>1. PICK e \in Ep : /\ Active(e) /\ ep[e].key = k
                        /\ ep' = [ep EXCEPT ![e].backend = want[k]]
    BY <1>7 DEF MoveBackend
  <2>2. ep[e] \in Published /\ want[k] \in Backend \cup {None}
    BY <1>1, <2>1, EndpointFacts DEF Active, Free, Desired
  <2>3. ep' \in [Ep -> Endpoint]
    BY <1>1, <2>1, <2>2 DEF Endpoint, Published
  <2> QED
    BY <1>1, <1>7, <2>3 DEF MoveBackend, Reached, TypeOK
<1>8. ASSUME NEW k \in todo, Publish(k) PROVE TypeOK'
  <2>1. [state |-> "active", key |-> k, backend |-> want[k], conns |-> 0,
         age |-> 0] \in Published
    BY <1>1 DEF Published, Desired
  <2>2. ep' \in [Ep -> Endpoint]
    BY <1>1, <1>8, <2>1 DEF Publish, Endpoint
  <2> QED
    BY <1>1, <1>8, <2>2 DEF Publish, Reached, TypeOK
<1>9. ASSUME NEW k \in todo, PublishFails(k) PROVE TypeOK'
  BY <1>1, <1>9 DEF PublishFails, Reached, TypeOK
<1>10. CASE \/ FailedPass \/ StartPublish \/ StartSweep \/ BeginShutdown
            \/ StartGrace \/ GraceCheck
  BY <1>1, <1>10 DEF FailedPass, StartPublish, StartSweep, BeginShutdown,
                     StartGrace, GraceCheck, TypeOK, Pcs
<1>11. CASE Sweep
  BY <1>6, <1>11 DEF Sweep, Sweepable, Pcs
<1>12. CASE GraceSweep
  BY <1>6, <1>12 DEF GraceSweep, Sweepable, Pcs
<1>13. CASE ForceClose
  <2>1. AllDraining \in SUBSET Ep
    BY DEF AllDraining
  <2> QED
    BY <1>6, <1>13, <2>1 DEF ForceClose, Pcs
<1>14. CASE UNCHANGED vars
  BY <1>1, <1>14 DEF vars, TypeOK
<1> QED
  BY <1>1, <1>2, <1>3, <1>4, <1>5, <1>7, <1>8, <1>9, <1>10, <1>11, <1>12,
     <1>13, <1>14
  DEF Next, DeadlinePass, Pass, PublishOne, DrainOne, Shutdown, Withdraw

\* Every reachable state of Reconciler is well formed.
THEOREM TypeCorrect == Spec => []TypeOK
BY InitType, TypeStep, PTL DEF Spec

-----------------------------------------------------------------------------
(***************************************************************************)
(* The inductive invariant.  What it says of the endpoints depends on the  *)
(* open listeners only: their keys and their backends.                     *)
(***************************************************************************)

\* The listeners open after a step are those before it, unchanged, or fewer.
Fewer == \A e \in Ep : Active(e)' => /\ Active(e)
                                     /\ ep'[e].key = ep[e].key
                                     /\ ep'[e].backend = ep[e].backend

\* And none is lost.
Same == Fewer /\ \A e \in Ep : Active(e) => Active(e)'

LEMMA ClosedAreDraining ==
    ASSUME NEW S \in SUBSET Ep, CloseAll(S), TypeOK,
           \A e \in S : Draining(e)
    PROVE  Same /\ \A e \in Ep : Draining(e)' => Draining(e)
<1> \A e \in Ep : ep'[e] = IF e \in S THEN Gone ELSE ep[e]
  BY DEF CloseAll
<1> QED
  BY DEF Same, Fewer, Active, Draining, Gone

LEMMA FewerKeepsPorts ==
    ASSUME OneListenerPerPort, Fewer
    PROVE  OneListenerPerPort'
<1> SUFFICES ASSUME NEW e \in Ep, NEW f \in Ep, Active(e)', Active(f)',
                    PortOf[ep'[e].key] = PortOf[ep'[f].key]
             PROVE  e = f
  BY DEF OneListenerPerPort
<1> QED
  BY DEF Fewer, OneListenerPerPort

LEMMA InitIInv == Init => IInv
<1> SUFFICES ASSUME Init PROVE IInv
  OBVIOUS
<1>1. TypeOK
  BY InitType
<1>2. \A e \in Ep : ~Active(e)
  BY DEF Init, Active, Gone
<1>3. OneListenerPerPort /\ OnlyWanted
  BY <1>2 DEF OneListenerPerPort, OnlyWanted
<1>4. OneClaimPerPort /\ Publishing /\ ForceLast
  BY <1>2 DEF Init, OneClaimPerPort, Publishing, ForceLast
<1> QED
  BY <1>1, <1>3, <1>4 DEF IInv

(***************************************************************************)
(* Steps that leave the keys of the open listeners alone and stay in the   *)
(* same phase: connections, time, the closing of drained endpoints.        *)
(***************************************************************************)
LEMMA QuietStep ==
    ASSUME IInv, TypeOK', Same,
           UNCHANGED <<want, todo, failed>>,
           \/ pc' = pc
           \/ pc # "drain" /\ pc' \notin {"publish", "sweep", "idle", "drain"}
              /\ todo = {}
           \/ pc \in {"sweep", "idle"} /\ pc' \in {"sweep", "idle"},
           ForceLast'
    PROVE  IInv'
<1>1. OneListenerPerPort'
  BY FewerKeepsPorts DEF IInv, Same
<1>2. OneClaimPerPort'
  BY DEF IInv, OneClaimPerPort
<1>3. OnlyWanted'
  BY DEF IInv, OnlyWanted, Same, Fewer
<1>4. Publishing'
  <2>1. pc' # "publish" => todo' = {}
    BY DEF IInv, Publishing
  <2>2. ASSUME pc' \in {"publish", "sweep", "idle"}
        PROVE  /\ pc \in {"publish", "sweep", "idle"}
               /\ todo' = todo /\ failed' = failed /\ want' = want
    BY <2>2
  <2>3. ASSUME pc' \in {"publish", "sweep", "idle"}, NEW e \in Ep, Active(e)'
        PROVE  ep'[e].key \in todo' \/ ep'[e].backend = want'[ep'[e].key]
    BY <2>2, <2>3 DEF IInv, Publishing, Same, Fewer
  <2>4. ASSUME pc' \in {"publish", "sweep", "idle"}, NEW k \in Key,
               want'[k] # None
        PROVE  \/ k \in failed' \cup todo'
               \/ \E e \in Ep : Active(e)' /\ ep'[e].key = k
    BY <2>2, <2>4 DEF IInv, Publishing, Same, Fewer
  <2>5. \A k \in todo' : want'[k] # None
    BY DEF IInv, Publishing
  <2> QED
    BY <2>1, <2>3, <2>4, <2>5 DEF Publishing, Active
<1> QED
  BY <1>1, <1>2, <1>3, <1>4 DEF IInv

LEMMA IInvParts ==
    ASSUME IInv
    PROVE  /\ TypeOK /\ OneListenerPerPort /\ OneClaimPerPort
           /\ OnlyWanted /\ Publishing /\ ForceLast
BY DEF IInv

LEMMA ConnStep ==
    ASSUME IInv, TypeOK', NEW e \in Ep, Accept(e) \/ FinishConn(e)
    PROVE  IInv'
<1>1. \A f \in Ep : /\ ep'[f].state = ep[f].state /\ ep'[f].key = ep[f].key
                    /\ ep'[f].backend = ep[f].backend
  <2>1. ep \in [Ep -> Endpoint]
    BY IInvParts DEF TypeOK
  <2>2. ep[e] \in Published
    BY IInvParts, EndpointFacts DEF Accept, FinishConn, Active, Free, Gone
  <2> QED
    BY <2>1, <2>2 DEF Accept, FinishConn, Published
<1>2. Same
  BY <1>1 DEF Same, Fewer, Active
<1>3. UNCHANGED <<pc, want, todo, failed, left>>
  BY DEF Accept, FinishConn
<1>4. ForceLast'
  BY <1>1, <1>3, IInvParts DEF ForceLast, Draining
<1> QED
  BY <1>2, <1>3, <1>4, QuietStep

LEMMA TickStep ==
    ASSUME IInv, TypeOK', Tick
    PROVE  IInv'
<1>1. \A f \in Ep : /\ ep'[f].state = ep[f].state /\ ep'[f].key = ep[f].key
                    /\ ep'[f].backend = ep[f].backend
  <2> SUFFICES ASSUME NEW f \in Ep
               PROVE  /\ ep'[f].state = ep[f].state /\ ep'[f].key = ep[f].key
                      /\ ep'[f].backend = ep[f].backend
    OBVIOUS
  <2>1. CASE Draining(f)
    <3>1. ep[f] \in Published
      BY <2>1, IInvParts, EndpointFacts DEF Draining, Free
    <3> QED
      BY <3>1 DEF Tick, Published
  <2>2. CASE ~Draining(f)
    BY <2>2 DEF Tick
  <2> QED
    BY <2>1, <2>2
<1>2. Same
  BY <1>1 DEF Same, Fewer, Active
<1>3. UNCHANGED <<pc, want, todo, failed>> /\ (left = 0 => left' = 0)
  BY DEF Tick
<1>4. ForceLast'
  BY <1>1, <1>3, IInvParts DEF ForceLast, Draining
<1> QED
  BY <1>2, <1>3, <1>4, QuietStep

LEMMA CloseStep ==
    ASSUME IInv, TypeOK', Sweep \/ GraceSweep \/ ForceClose
    PROVE  IInv'
<1>1. PICK S \in SUBSET Ep : CloseAll(S) /\ \A e \in S : Draining(e)
  <2>1. /\ Sweepable \in SUBSET Ep /\ \A e \in Sweepable : Draining(e)
        /\ AllDraining \in SUBSET Ep /\ \A e \in AllDraining : Draining(e)
    BY DEF Sweepable, AllDraining
  <2> QED
    BY <2>1 DEF Sweep, GraceSweep, ForceClose
<1>2. Same
  BY <1>1, IInvParts, ClosedAreDraining
<1>3. CASE Sweep
  BY <1>2, <1>3, QuietStep DEF Sweep, ForceLast
<1>4. CASE GraceSweep
  BY <1>2, <1>4, QuietStep, IInvParts DEF GraceSweep, ForceLast, Publishing
<1>5. CASE ForceClose
  BY <1>2, <1>5, QuietStep, IInvParts DEF ForceClose, ForceLast, Publishing
<1> QED
  BY <1>3, <1>4, <1>5

LEMMA PhaseStep ==
    ASSUME IInv, TypeOK',
           FailedPass \/ BeginShutdown \/ StartGrace \/ GraceCheck
    PROVE  IInv'
<1>1. UNCHANGED <<ep, want, todo, failed>>
  BY DEF FailedPass, BeginShutdown, StartGrace, GraceCheck
<1>2. Same
  BY <1>1 DEF Same, Fewer, Active
<1>3. ForceLast'
  BY <1>1 DEF FailedPass, BeginShutdown, StartGrace, GraceCheck, ForceLast,
              Draining
<1>4. pc # "publish" => todo = {}
  BY IInvParts DEF Publishing
<1> QED
  BY <1>1, <1>2, <1>3, <1>4, QuietStep
  DEF FailedPass, BeginShutdown, StartGrace, GraceCheck

LEMMA StartPassStep ==
    ASSUME IInv, TypeOK', NEW w, StartPass(w),
           \A k, l \in Key : w[k] # None /\ w[l] # None
                             /\ PortOf[k] = PortOf[l] => k = l
    PROVE  IInv'
<1>1. OneListenerPerPort'
  BY IInvParts DEF OneListenerPerPort, StartPass, Active
<1>2. OneClaimPerPort'
  BY DEF OneClaimPerPort, StartPass
<1>3. OnlyWanted' /\ ForceLast'
  BY DEF OnlyWanted, ForceLast, StartPass
<1>4. Publishing'
  BY IInvParts DEF Publishing, StartPass
<1> QED
  BY <1>1, <1>2, <1>3, <1>4 DEF IInv

LEMMA DrainStep ==
    ASSUME IInv, TypeOK', NEW e \in Ep, DrainOne(e) \/ Withdraw(e)
    PROVE  IInv'
<1>1. /\ pc' = pc /\ pc \in {"drain", "withdraw"}
      /\ UNCHANGED <<want, todo, failed, left>>
      /\ ep' = [ep EXCEPT ![e].state = "draining"]
  BY DEF DrainOne, Withdraw, DrainEndpoint
<1>2. Fewer
  <2>1. ep \in [Ep -> Endpoint]
    BY IInvParts DEF TypeOK
  <2>2. ep[e] \in Published
    BY IInvParts, EndpointFacts DEF DrainOne, Withdraw, Active, Free
  <2> QED
    BY <1>1, <2>1, <2>2 DEF Fewer, Active, Published
<1>3. OneListenerPerPort'
  BY <1>2, FewerKeepsPorts, IInvParts
<1>4. OneClaimPerPort'
  BY <1>1, IInvParts DEF OneClaimPerPort
<1>5. OnlyWanted'
  BY <1>1, <1>2, IInvParts DEF OnlyWanted, Fewer
<1>6. Publishing' /\ ForceLast'
  BY <1>1, IInvParts DEF Publishing, ForceLast
<1> QED
  BY <1>3, <1>4, <1>5, <1>6 DEF IInv

LEMMA PublishLoopStep ==
    ASSUME IInv, TypeOK', StartPublish \/ StartSweep
    PROVE  IInv'
<1>1. UNCHANGED <<ep, want, failed, left>> /\ pc' \in {"publish", "sweep"}
  BY DEF StartPublish, StartSweep
<1>2. OneListenerPerPort' /\ OneClaimPerPort' /\ ForceLast'
  BY <1>1, IInvParts DEF OneListenerPerPort, OneClaimPerPort, ForceLast, Active
<1>3. \A e \in Ep : Active(e) => want[ep[e].key] # None
  BY IInvParts DEF OnlyWanted, StartPublish, StartSweep
<1>4. OnlyWanted'
  BY <1>1, <1>3 DEF OnlyWanted, Active
<1>5. Publishing'
  <2>1. CASE StartPublish
    <3>1. \A e \in Ep : Active(e) => ep[e].key \in Key
      BY IInvParts, EndpointFacts DEF Active, Free, Published
    <3> QED
      BY <1>1, <1>3, <2>1, <3>1 DEF StartPublish, Publishing, Active
  <2>2. CASE StartSweep
    BY <1>1, <2>2, IInvParts DEF StartSweep, Publishing, Active
  <2> QED
    BY <2>1, <2>2
<1> QED
  BY <1>2, <1>4, <1>5 DEF IInv

LEMMA MoveBackendStep ==
    ASSUME IInv, TypeOK', NEW k \in todo, MoveBackend(k)
    PROVE  IInv'
<1>1. PICK e \in Ep : /\ Active(e) /\ ep[e].key = k
                      /\ ep' = [ep EXCEPT ![e].backend = want[k]]
  BY DEF MoveBackend
<1>2. /\ pc = "publish" /\ todo' = todo \ {k}
      /\ UNCHANGED <<pc, want, failed, left>>
  BY DEF MoveBackend, Reached
<1>3. /\ \A f \in Ep : /\ ep'[f].state = ep[f].state
                       /\ ep'[f].key = ep[f].key
                       /\ f # e => ep'[f].backend = ep[f].backend
      /\ ep'[e].backend = want[k]
  <2>1. ep \in [Ep -> Endpoint]
    BY IInvParts DEF TypeOK
  <2>2. ep[e] \in Published
    BY <1>1, IInvParts, EndpointFacts DEF Active, Free
  <2> QED
    BY <1>1, <2>1, <2>2 DEF Published
<1>4. OneListenerPerPort'
  BY <1>3, IInvParts DEF OneListenerPerPort, Active
<1>5. OneClaimPerPort' /\ ForceLast'
  BY <1>2, IInvParts DEF OneClaimPerPort, ForceLast
<1>6. OnlyWanted'
  BY <1>2, <1>3, IInvParts DEF OnlyWanted, Active
<1>7. Publishing'
  <2>1. ASSUME NEW f \in Ep, Active(f)'
        PROVE  ep'[f].key \in todo' \/ ep'[f].backend = want'[ep'[f].key]
    <3>1. CASE f = e
      BY <1>1, <1>2, <1>3, <3>1
    <3>2. CASE f # e
      \* k has one listener, so another one's key is still in todo if it was.
      <4>1. ep[f].key # k
        BY <1>1, <1>3, <2>1, <3>2, IInvParts DEF OneListenerPerPort, Active
      <4> QED
        BY <1>2, <1>3, <2>1, <3>2, <4>1, IInvParts DEF Publishing, Active
    <3> QED
      BY <3>1, <3>2
  <2>2. ASSUME NEW l \in Key, want'[l] # None
        PROVE  \/ l \in failed' \cup todo'
               \/ \E f \in Ep : Active(f)' /\ ep'[f].key = l
    <3>1. CASE l = k
      BY <1>1, <1>3, <3>1 DEF Active
    <3>2. CASE l # k
      BY <1>2, <1>3, <2>2, <3>2, IInvParts DEF Publishing, Active
    <3> QED
      BY <3>1, <3>2
  <2>3. pc' = "publish" /\ \A l \in todo' : want'[l] # None
    BY <1>2, IInvParts DEF Publishing
  <2> QED
    BY <2>1, <2>2, <2>3 DEF Publishing, Active
<1> QED
  BY <1>4, <1>5, <1>6, <1>7 DEF IInv

LEMMA PublishStep ==
    ASSUME IInv, TypeOK', NEW k \in todo, Publish(k)
    PROVE  IInv'
<1>1. PICK e \in Ep :
         /\ Free(e)
         /\ ep' = [ep EXCEPT ![e] =
                     [state |-> "active", key |-> k, backend |-> want[k],
                      conns |-> 0, age |-> 0]]
  BY DEF Publish
<1>2. /\ pc = "publish" /\ todo' = todo \ {k} /\ Unserved(k)
      /\ UNCHANGED <<pc, want, failed, left>>
  BY DEF Publish, Reached
<1>3. /\ \A f \in Ep : f # e => ep'[f] = ep[f]
      /\ ep'[e].state = "active" /\ ep'[e].key = k /\ ep'[e].backend = want[k]
  BY <1>1, IInvParts DEF TypeOK
<1>4. k \in Key /\ want[k] # None
  BY IInvParts DEF TypeOK, Publishing
<1>5. OneClaimPerPort' /\ ForceLast'
  BY <1>2, IInvParts DEF OneClaimPerPort, ForceLast
<1>6. OneListenerPerPort'
  <2>1. ASSUME NEW f \in Ep, f # e, Active(f)'
        PROVE  PortOf[ep[f].key] # PortOf[k]
    <3>1. Active(f) /\ ep[f].key \in Key /\ want[ep[f].key] # None
      BY <1>2, <1>3, <2>1, IInvParts, EndpointFacts
      DEF Active, Free, Published, OnlyWanted
    <3>2. ep[f].key # k
      BY <1>2, <3>1 DEF Unserved
    <3> QED
      BY <1>4, <3>1, <3>2, IInvParts DEF OneClaimPerPort
  <2> QED
    BY <1>3, <2>1, IInvParts DEF OneListenerPerPort, Active
<1>7. OnlyWanted'
  BY <1>2, <1>3, <1>4, IInvParts DEF OnlyWanted, Active
<1>8. Publishing'
  <2>1. ASSUME NEW f \in Ep, Active(f)'
        PROVE  ep'[f].key \in todo' \/ ep'[f].backend = want'[ep'[f].key]
    <3>1. CASE f = e
      BY <1>2, <1>3, <3>1
    <3>2. CASE f # e
      BY <1>2, <1>3, <2>1, <3>2, IInvParts DEF Publishing, Active, Unserved
    <3> QED
      BY <3>1, <3>2
  <2>2. ASSUME NEW l \in Key, want'[l] # None
        PROVE  \/ l \in failed' \cup todo'
               \/ \E f \in Ep : Active(f)' /\ ep'[f].key = l
    <3>1. CASE l = k
      BY <1>3, <3>1 DEF Active
    <3>2. CASE l # k
      <4>1. \/ l \in failed' \cup todo'
            \/ \E f \in Ep : Active(f) /\ ep[f].key = l
        BY <1>2, <2>2, <3>2, IInvParts DEF Publishing
      <4> QED
        BY <1>1, <1>3, <4>1 DEF Active, Free
    <3> QED
      BY <3>1, <3>2
  <2>3. pc' = "publish" /\ \A l \in todo' : want'[l] # None
    BY <1>2, IInvParts DEF Publishing
  <2> QED
    BY <2>1, <2>2, <2>3 DEF Publishing, Active
<1> QED
  BY <1>5, <1>6, <1>7, <1>8 DEF IInv

LEMMA PublishFailsStep ==
    ASSUME IInv, TypeOK', NEW k \in todo, PublishFails(k)
    PROVE  IInv'
<1>1. /\ pc = "publish" /\ todo' = todo \ {k} /\ failed' = failed \cup {k}
      /\ Unserved(k) /\ UNCHANGED <<ep, pc, want, left>>
  BY DEF PublishFails, Reached
<1>2. /\ OneListenerPerPort' /\ OneClaimPerPort' /\ ForceLast' /\ OnlyWanted'
  BY <1>1, IInvParts
  DEF OneListenerPerPort, OneClaimPerPort, ForceLast, OnlyWanted, Active
<1>3. Publishing'
  BY <1>1, IInvParts DEF Publishing, Active, Unserved
<1> QED
  BY <1>2, <1>3 DEF IInv

-----------------------------------------------------------------------------
LEMMA StepIInv == IInv /\ [Next]_vars => IInv'
<1> SUFFICES ASSUME IInv, [Next]_vars PROVE IInv'
  OBVIOUS
<1>1. TypeOK'
  BY IInvParts, TypeStep
<1>2. CASE UNCHANGED vars
  <2>1. Same
    BY <1>2 DEF vars, Same, Fewer, Active
  <2>2. ForceLast'
    BY <1>2, IInvParts DEF vars, ForceLast, Draining
  <2> QED
    BY <1>1, <1>2, <2>1, <2>2, QuietStep DEF vars
<1>3. ASSUME NEW w \in Wants, StartPass(w) PROVE IInv'
  BY <1>1, <1>3, StartPassStep
<1>4. CASE DeadlinePass
  BY <1>3, <1>4 DEF DeadlinePass
<1>5. CASE Pass
  BY <1>1, <1>5, DrainStep, PublishLoopStep, MoveBackendStep, PublishStep,
     PublishFailsStep, CloseStep
  DEF Pass, PublishOne
<1>6. CASE Shutdown
  BY <1>1, <1>6, DrainStep, PhaseStep, CloseStep DEF Shutdown
<1> QED
  BY <1>1, <1>2, <1>3, <1>4, <1>5, <1>6, ConnStep, TickStep, PhaseStep DEF Next

\* The inductive invariant holds in every reachable state.
THEOREM Inductive == Spec => []IInv
BY InitIInv, StepIInv, PTL DEF Spec

\* At no moment, in the middle of a pass either, do two open listeners share
\* a (Service, port) pair.
THEOREM OnePortOneListener == Spec => []OneListenerPerPort
<1>1. IInv => OneListenerPerPort
  BY DEF IInv
<1> QED
  BY <1>1, Inductive, PTL

\* Between passes the open listeners are the desired endpoints, at their
\* desired backends, but for those whose publish failed.
THEOREM PassConverges == Spec => []Converged
<1>1. IInv => Converged
  BY DEF IInv, Publishing, OnlyWanted, Converged
<1> QED
  BY <1>1, Inductive, PTL

-----------------------------------------------------------------------------
(* The grace: only the three force-closing steps free an endpoint.         *)

LEMMA OnlyCloses ==
    ASSUME IInv, [Next]_vars, NEW e \in Ep, ~Free(e), ep'[e].state = "free"
    PROVE  Sweep \/ GraceSweep \/ ForceClose
<1>0. /\ ep \in [Ep -> Endpoint] /\ ep[e] \in Published
  BY IInvParts, EndpointFacts DEF TypeOK
<1>1. ASSUME NEW f \in Ep, Accept(f) \/ FinishConn(f) PROVE FALSE
  <2>1. ep[f] \in Published
    BY <1>1, IInvParts, EndpointFacts
    DEF Accept, FinishConn, Active, Free, Gone
  <2> QED
    BY <1>0, <1>1, <2>1 DEF Accept, FinishConn, Published, Free
<1>2. CASE Tick
  BY <1>0, <1>2 DEF Tick, Published, Free
<1>3. ASSUME NEW f \in Ep, DrainOne(f) \/ Withdraw(f) PROVE FALSE
  BY <1>0, <1>3
  DEF DrainOne, Withdraw, DrainEndpoint, Free, Published, Endpoint, Gone
<1>4. ASSUME NEW k \in todo, MoveBackend(k) PROVE FALSE
  BY <1>0, <1>4 DEF MoveBackend, Free, Published, Endpoint, Gone
<1>5. ASSUME NEW k \in todo, Publish(k) PROVE FALSE
  BY <1>0, <1>5 DEF Publish, Free
<1>6. ASSUME ep' = ep PROVE FALSE
  BY <1>6 DEF Free
<1> QED
  BY <1>1, <1>2, <1>3, <1>4, <1>5, <1>6
  DEF Next, StartPass, DeadlinePass, FailedPass, Pass, StartPublish,
      PublishOne, PublishFails, StartSweep, BeginShutdown, Shutdown,
      StartGrace, GraceCheck, vars

\* No connection is cut before its endpoint drained for the whole grace,
\* unless the shutdown grace is over.
THEOREM NoEarlyCut == Spec => GraceRespected
<1>1. IInv /\ [Next]_vars =>
        [\A e \in Ep : ~Free(e) /\ ep'[e].state = "free" /\ ep[e].conns > 0 =>
            /\ Draining(e)
            /\ ep[e].age = DrainGrace \/ (pc = "force" /\ left = 0)]_vars
  <2> SUFFICES ASSUME IInv, [Next]_vars, NEW e \in Ep, ~Free(e),
                      ep'[e].state = "free", ep[e].conns > 0
               PROVE  /\ Draining(e)
                      /\ \/ ep[e].age = DrainGrace
                         \/ pc = "force" /\ left = 0
    OBVIOUS
  <2>1. ep[e] \in Published
    BY IInvParts, EndpointFacts
  <2>2. CASE Sweep \/ GraceSweep
    <3>1. e \in Sweepable
      BY <2>2 DEF Sweep, GraceSweep, CloseAll, Free
    <3>2. Draining(e) /\ Expired(e)
      BY <2>1, <3>1 DEF Sweepable, Published
    <3> QED
      BY <2>1, <3>2 DEF Expired, Published
  <2>3. CASE ForceClose
    <3>1. e \in AllDraining
      BY <2>3 DEF ForceClose, CloseAll, Free
    <3> QED
      BY <2>3, <3>1, IInvParts DEF ForceClose, AllDraining, ForceLast
  <2> QED
    BY <2>2, <2>3, OnlyCloses
<1> QED
  BY <1>1, Inductive, PTL DEF Spec, GraceRespected
=============================================================================
