---------------------------- MODULE FailureBudget ---------------------------
(***************************************************************************)
(* When the main loop reads Nomad, when it tries again and when it gives   *)
(* up (run of main.go and health.go).  A repairing pass reads Nomad and    *)
(* succeeds or fails with it; a cached pass, after events, a drain         *)
(* deadline or for the certificates, does not.  Both go on to publish the  *)
(* certificates unless they failed.  What a pass does to the cache, the    *)
(* endpoints and the certificates is in ServiceCache, Reconciler and       *)
(* CertPublisher.                                                          *)
(*                                                                         *)
(* Time is counted in ticks, none shorter than the 250 ms that a timer of  *)
(* the loop waits at least.                                                *)
(***************************************************************************)
EXTENDS Integers, Sequences

CONSTANTS
    CommandLines,    \* the flags the connector may be started with
    Minute,          \* a minute, in ticks
    MaxFailures      \* bound: failures in a row that are counted

ASSUME BoundsAssumption ==
    Minute \in Nat \ {0} /\ MaxFailures \in Nat \ {0}
ASSUME CommandLinesAssumption ==
    CommandLines \subseteq
        [once           : BOOLEAN,
         interval       : Nat \ {0},
         retryInterval  : Nat \ {0},
         unhealthyAfter : 0..MaxFailures,
         fatalAfter     : 0..MaxFailures]

VARIABLES
    flags,        \* the command line
    nomad,        \* "up", "down" or "rejecting" the allocation's identity
    signalled,    \* a signal cancelled the context
    pc,           \* "pass", "certs", "loop", "debounce", "shutdown" or
                  \* "exited"
    kind,         \* the pass is "cached", "live", or "doomed": it reads
                  \* Nomad under a cancelled context
    onInterval,   \* the interval timer woke it
    consecutive,  \* failed repairing passes in a row
    ready,        \* one succeeded
    retryIn,      \* ticks until retryAt; None without one
    retryDelay,   \* the delay after the next failure
    repairIn,     \* ticks until the interval timer fires; None before it is
    code,         \* the exit code, once decided
    since,        \* history: ticks since the last repairing pass failed
    recent        \* history: how the last repairing passes ended

outside == <<flags, nomad, signalled>>
loopVars == <<pc, kind, onInterval>>
healthVars == <<consecutive, ready>>
timers == <<retryIn, retryDelay, repairIn>>
history == <<since, recent>>
vars == <<outside, loopVars, healthVars, timers, code, history>>

Once == flags.once
Interval == flags.interval
RetryInterval == flags.retryInterval
UnhealthyAfter == flags.unhealthyAfter
FatalAfter == flags.fatalAfter

None == -1

Least(m, n) == IF m =< n THEN m ELSE n

\* At most a minute or the interval, but never below the retry interval.
RetryCap ==
    IF Least(Interval, Minute) < RetryInterval THEN RetryInterval
    ELSE Least(Interval, Minute)

-----------------------------------------------------------------------------
(* Nomad, signals and time.                                                *)

Nomad(s) ==
    /\ pc # "exited"
    /\ nomad' = s
    /\ UNCHANGED <<flags, signalled, loopVars, healthVars, timers, code,
                   history>>

Signal ==
    /\ pc # "exited"
    /\ signalled' = TRUE
    /\ UNCHANGED <<flags, nomad, loopVars, healthVars, timers, code,
                   history>>

CountDown(t) == IF t > 0 THEN t - 1 ELSE t

\* since need not be counted beyond the retry interval.
Tick ==
    /\ pc # "exited"
    /\ retryIn' = CountDown(retryIn)
    /\ repairIn' = CountDown(repairIn)
    /\ since' = Least(since + 1, RetryInterval)
    /\ UNCHANGED <<outside, loopVars, healthVars, retryDelay, code,
                   recent>>

-----------------------------------------------------------------------------
(* The select of the main loop.                                            *)

Start(reads, timer) ==
    /\ pc' = "pass"
    /\ kind' = IF ~reads THEN "cached"
               ELSE IF signalled THEN "doomed" ELSE "live"
    /\ onInterval' = timer
    /\ UNCHANGED <<outside, healthVars, timers, code, history>>

StartPass(reads, timer) == pc = "loop" /\ Start(reads, timer)

\* A batch of events; more may follow until half a second is over or a
\* signal comes.
Receive ==
    /\ pc = "loop"
    /\ pc' = "debounce"
    /\ UNCHANGED <<outside, kind, onInterval, healthVars, timers, code,
                   history>>

\* There was a repair frame among them, or a malformed one, or there was not.
EndDebounce == \E reads \in BOOLEAN : pc = "debounce" /\ Start(reads, FALSE)

\* For a drain deadline or the certificates.
CachedPass == StartPass(FALSE, FALSE)

RetryPass == retryIn = 0 /\ StartPass(TRUE, FALSE)

IntervalPass == repairIn = 0 /\ StartPass(TRUE, TRUE)

Stop ==
    /\ pc = "loop"
    /\ signalled
    /\ pc' = "shutdown"
    /\ code' = 0
    /\ UNCHANGED <<outside, kind, onInterval, healthVars, timers,
                   history>>

-----------------------------------------------------------------------------
(* The end of a pass.                                                      *)

\* The interval timer is made after the first pass; a pass of its own
\* resets it.
First == repairIn = None

Ends(verdict) ==
    /\ IF First /\ Once
       THEN pc' = "shutdown" /\ code' = verdict
       ELSE pc' = "loop" /\ UNCHANGED code
    /\ repairIn' = IF onInterval \/ First THEN Interval ELSE repairIn
    /\ UNCHANGED <<outside, kind, onInterval>>

Remember(result) ==
    recent' = LET all == Append(recent, result)
              IN  IF Len(all) > MaxFailures THEN Tail(all) ELSE all

\* The endpoints are converged: on to the certificates.
Converged ==
    /\ pc = "pass"
    /\ pc' = "certs"
    /\ UNCHANGED <<outside, kind, onInterval, timers, code, since>>

\* As if a pass over the cache cleared the budget.
CachedClears ==
    /\ kind = "cached"
    /\ Converged
    /\ consecutive' = 0
    /\ UNCHANGED <<ready, recent>>

CachedDone ==
    /\ kind = "cached"
    /\ Converged
    /\ UNCHANGED <<healthVars, recent>>

Reached ==
    /\ kind = "live" /\ nomad = "up"
    /\ Converged
    /\ consecutive' = 0 /\ ready' = TRUE
    /\ Remember("ok")

\* As if the delay were not reset.
CertsDoneSlow ==
    /\ pc = "certs"
    /\ Ends(0)
    /\ retryIn' = IF kind = "live" THEN None ELSE retryIn
    /\ UNCHANGED <<healthVars, retryDelay, history>>

\* Each certificate is published or not; whatever became of them, the loop
\* goes on, and a pass that reached Nomad ends the retries.
CertsDone ==
    /\ pc = "certs"
    /\ Ends(0)
    /\ IF kind = "live"
       THEN retryIn' = None /\ retryDelay' = RetryInterval
       ELSE UNCHANGED <<retryIn, retryDelay>>
    /\ UNCHANGED <<healthVars, history>>

\* A request of the gather fails, or is cut short by the signal.
Fails(result) ==
    /\ kind \in {"live", "doomed"}
    /\ CASE result = "failed"   -> kind = "live" /\ nomad = "down"
         [] result = "rejected" -> kind = "live" /\ nomad = "rejecting"
         [] result = "cut"      -> signalled
    /\ consecutive' = Least(consecutive + 1, MaxFailures)
    /\ since' = 0
    /\ Remember(result)
    /\ UNCHANGED ready

Spent == FatalAfter > 0 /\ consecutive' >= FatalAfter

\* As if -once did not look at how its pass ended.
UnreachedZero(result) ==
    /\ pc = "pass" /\ Fails(result)
    /\ ~Spent /\ result # "rejected"
    /\ Ends(0)
    /\ retryIn' = retryDelay
    /\ retryDelay' = Least(2 * retryDelay, RetryCap)

Unreached(result) ==
    /\ pc = "pass" /\ Fails(result)
    /\ ~Spent /\ result # "rejected"
    /\ Ends(1)
    /\ retryIn' = retryDelay
    /\ retryDelay' = Least(2 * retryDelay, RetryCap)

\* The budget is spent or the identity is dead: drain and exit non-zero.
GiveUp(result) ==
    /\ pc = "pass"
    /\ Fails(result)
    /\ Spent \/ result = "rejected"
    /\ pc' = "shutdown"
    /\ code' = 1
    /\ UNCHANGED <<outside, kind, onInterval, timers>>

Exit ==
    /\ pc = "shutdown"
    /\ pc' = "exited"
    /\ UNCHANGED <<outside, kind, onInterval, healthVars, timers,
                   code, history>>

-----------------------------------------------------------------------------
\* healthReport.Status
Status ==
    IF UnhealthyAfter > 0 /\ consecutive >= UnhealthyAfter THEN "unhealthy"
    ELSE IF consecutive > 0 THEN "degraded"
    ELSE IF ~ready THEN "starting"
    ELSE "healthy"

Init ==
    /\ flags \in CommandLines
    /\ nomad = "up" /\ signalled = FALSE
    /\ pc = "pass" /\ kind = "live" /\ onInterval = FALSE
    /\ consecutive = 0 /\ ready = FALSE
    /\ retryIn = None /\ retryDelay = RetryInterval /\ repairIn = None
    /\ code = None
    /\ since = RetryInterval /\ recent = <<>>

Results == {"failed", "rejected", "cut"}

EndPass ==
    \/ CachedDone
    \/ Reached
    \/ CertsDone
    \/ \E result \in Results : Unreached(result) \/ GiveUp(result)

Next ==
    \/ \E s \in {"up", "down", "rejecting"} : Nomad(s)
    \/ Signal
    \/ Tick
    \/ Receive
    \/ EndDebounce
    \/ CachedPass
    \/ RetryPass
    \/ IntervalPass
    \/ Stop
    \/ EndPass
    \/ Exit

Spec == Init /\ [][Next]_vars

(***************************************************************************)
(* Time passes and what was started ends: a request to Nomad has a         *)
(* deadline, and the tailnet gives a certificate up in the end.  The       *)
(* select chooses at random among the cases that are ready; the interval   *)
(* timer stays ready once it fired, and so does a signal: they are chosen  *)
(* in the end.  The retry timer is made anew in each turn of the loop, so  *)
(* that events may always come before it: nothing is assumed of it.        *)
(***************************************************************************)
FairSpec ==
    /\ Spec
    /\ WF_vars(Tick) /\ WF_vars(EndDebounce) /\ WF_vars(EndPass)
    /\ WF_vars(Exit)
    /\ SF_vars(IntervalPass) /\ SF_vars(Stop)

-----------------------------------------------------------------------------
(* Properties.                                                             *)

\* The counters stay in their bounds, the delays under the cap.
TypeOK ==
    /\ flags \in CommandLines
    /\ nomad \in {"up", "down", "rejecting"}
    /\ signalled \in BOOLEAN
    /\ pc \in {"pass", "certs", "loop", "debounce", "shutdown", "exited"}
    /\ kind \in {"cached", "live", "doomed"}
    /\ onInterval \in BOOLEAN
    /\ consecutive \in 0..MaxFailures /\ ready \in BOOLEAN
    /\ retryIn \in {None} \cup 0..RetryCap
    /\ retryDelay \in RetryInterval..RetryCap
    /\ repairIn \in {None} \cup 0..Interval
    /\ code \in {None, 0, 1}
    /\ since \in 0..RetryInterval
    /\ recent \in Seq({"ok"} \cup Results) /\ Len(recent) =< MaxFailures

\* The last n repairing passes failed.
AllFailed(n) ==
    /\ Len(recent) >= n
    /\ \A i \in (Len(recent) - n + 1)..Len(recent) : recent[i] # "ok"

Last == recent[Len(recent)]

Ending == pc \in {"shutdown", "exited"}

\* The exit code, of -once and of the loop.
Verdict ==
    /\ code = 1 /\ ~Once => \/ FatalAfter > 0 /\ AllFailed(FatalAfter)
                            \/ Last = "rejected"
    /\ code # None /\ Once => (code = 0 <=> Last = "ok")

(***************************************************************************)
(* What /health and the exit code say is what the last repairing passes    *)
(* showed, whatever events, drain deadlines and certificates did between   *)
(* them: unhealthy if and only if the last UnhealthyAfter of them failed,  *)
(* exit 1 only when the last FatalAfter failed or the identity is dead,    *)
(* and no pass after that (health.go:127, "so it must not touch the        *)
(* failure budget"); -once exits 0 if and only if its pass succeeded.      *)
(***************************************************************************)
Truthful ==
    /\ Status = "unhealthy" <=>
          UnhealthyAfter > 0 /\ AllFailed(UnhealthyAfter)
    /\ Status = "healthy" => Last = "ok"
    /\ Status = "starting" <=> recent = <<>>
    /\ ~Ending => ~(FatalAfter > 0 /\ AllFailed(FatalAfter))
    /\ Verdict

\* A retry is due if and only if the last repairing pass failed; a pass that
\* reached Nomad withdraws it once it is over.
RetryDue ==
    pc \in {"loop", "debounce", "pass"} \/ (pc = "certs" /\ kind = "cached")
        => (retryIn # None <=> consecutive > 0)

\* It is never due sooner than the retry interval after the failure.
Spaced == ~Ending /\ retryIn # None => retryIn + since >= RetryInterval

\* The delay has doubled once for each failure in a row.
Doubled ==
    /\ pc \in {"loop", "debounce", "pass"} \/ (pc = "certs" /\ kind = "cached")
    /\ consecutive < MaxFailures
    => retryDelay = Least(RetryInterval * 2^consecutive, RetryCap)

(***************************************************************************)
(* A failed pass is retried, never sooner than the retry interval, which   *)
(* doubles with each failure in a row up to the cap and starts over after  *)
(* a success (README.md:672).                                              *)
(***************************************************************************)
Backoff == RetryDue /\ Spaced /\ Doubled

\* The counter is the length of the last run of failures.
Counted ==
    /\ \A n \in 1..MaxFailures : consecutive >= n <=> AllFailed(n)
    /\ recent = <<>> <=> consecutive = 0 /\ ~ready
    /\ ~Ending /\ FatalAfter > 0 => consecutive < FatalAfter

\* The first pass reads Nomad, and with -once it is the only one; to the
\* certificates goes a pass that reached Nomad or did not ask.
Phases ==
    /\ code # None <=> Ending
    /\ pc \in {"loop", "debounce"} => ~First /\ ~Once
    /\ pc \in {"pass", "certs"} => IF First THEN kind = "live" ELSE ~Once
    /\ pc = "certs" /\ kind # "cached" =>
          kind = "live" /\ ready /\ consecutive = 0

\* All of it together is inductive.
IInv == TypeOK /\ Counted /\ Phases /\ Verdict /\ RetryDue /\ Spaced /\ Doubled

(***************************************************************************)
(* With a budget, and Nomad out of reach for good, it exits, however many  *)
(* events, repaired or not, keep its loop busy: it does not stay up with   *)
(* a frozen view of the world (main.go:474).  And it exits on a signal,    *)
(* wherever that finds it: in a pass, between events that are debounced    *)
(* (main.go:417) or over a certificate.                                    *)
(***************************************************************************)
GivesUp ==
    /\ FatalAfter > 0 /\ <>[](nomad \in {"down", "rejecting"})
          => <>(pc = "exited")
    /\ signalled ~> pc = "exited"
=============================================================================
