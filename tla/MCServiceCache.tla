--------------------------- MODULE MCServiceCache ---------------------------
(***************************************************************************)
(* ServiceCache on two registrations, of one service or of one each, and   *)
(* the frames that tell its cases apart.                                   *)
(***************************************************************************)
EXTENDS ServiceCache, TLC

CONSTANTS r1, r2, s1, s2

OneService == r1 :> s1 @@ r2 :> s1
TwoServices == r1 :> s1 @@ r2 :> s2

Good(a, b) ==
    [op |-> r1 :> a @@ r2 :> b, malformed |-> FALSE, skipped |-> {}]
Bad(a, b, lost) ==
    [op |-> r1 :> a @@ r2 :> b, malformed |-> TRUE, skipped |-> lost]

\* Every operation on r1, a replacement of r1 by r2, and a malformed batch.
AllFrames ==
    { Good("enabled", "unchanged"), Good("disabled", "unchanged"),
      Good("deregistered", "enabled"), Bad("disabled", "enabled", {r2}) }

\* One registration comes and goes.
Churn == { Good("enabled", "unchanged"), Good("deregistered", "unchanged") }

NoBacklog == {0}
ShortBacklog == {0, 1}
EitherBacklog == {0, MaxIndex}
=============================================================================
