---------------------------- MODULE MCReconciler ----------------------------
(***************************************************************************)
(* Reconciler on a service port that two keys compete for, the same        *)
(* listener re-shaped, and on another port beside it.                      *)
(***************************************************************************)
EXTENDS Reconciler, TLC

CONSTANTS e1, e2, e3, k1, k2, k3, p1, p2, b1, b2

Ports == k1 :> p1 @@ k2 :> p1 @@ k3 :> p2

Wanted(a, b, c) == k1 :> a @@ k2 :> b @@ k3 :> c

\* One listener is re-shaped, and back, while the other one moves.
ReshapeWants == {Wanted(b1, None, b1), Wanted(None, b1, b2)}
=============================================================================
