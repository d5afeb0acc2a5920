--------------------------- MODULE MCFailureBudget --------------------------
(***************************************************************************)
(* FailureBudget under the command lines that order a minute, the interval *)
(* and the retry interval differently.                                     *)
(***************************************************************************)
EXTENDS FailureBudget

Flags(once, interval, retryInterval, fatalAfter) ==
    [once |-> once, interval |-> interval, retryInterval |-> retryInterval,
     unhealthyAfter |-> 2, fatalAfter |-> fatalAfter]

\* The usual one, an interval beyond a minute, one below the retry interval
\* without an exit, and -once.
FourLines ==
    {Flags(FALSE, 3, 1, 3), Flags(FALSE, 5, 1, 3), Flags(FALSE, 1, 2, 0),
     Flags(TRUE, 3, 3, 3)}
=============================================================================
