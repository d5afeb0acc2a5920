------------------------- MODULE FailureBudgetProof -------------------------
(***************************************************************************)
(* What /health, the exit code and the retries say of the repairing passes *)
(* holds for all command lines and any Minute.                             *)
(***************************************************************************)
EXTENDS FailureBudget, FiniteSetTheorems, TLAPS

LEMMA FlagFacts ==
    ASSUME flags \in CommandLines
    PROVE  /\ Once \in BOOLEAN
           /\ Interval \in Nat \ {0} /\ RetryInterval \in Nat \ {0}
           /\ UnhealthyAfter \in 0..MaxFailures
           /\ FatalAfter \in 0..MaxFailures
           /\ RetryCap \in Nat /\ RetryInterval =< RetryCap
  <1>1. /\ flags.once \in BOOLEAN
        /\ flags.interval \in Nat \ {0} /\ flags.retryInterval \in Nat \ {0}
        /\ flags.unhealthyAfter \in 0..MaxFailures
        /\ flags.fatalAfter \in 0..MaxFailures
    BY CommandLinesAssumption
  <1> QED
    BY <1>1, BoundsAssumption
       DEF Once, Interval, RetryInterval, UnhealthyAfter, FatalAfter,
           RetryCap, Least

LEMMA FlagsKept ==
    ASSUME flags' = flags
    PROVE  /\ Once' = Once /\ Interval' = Interval
           /\ RetryInterval' = RetryInterval
           /\ UnhealthyAfter' = UnhealthyAfter /\ FatalAfter' = FatalAfter
           /\ RetryCap' = RetryCap
  BY DEF Once, Interval, RetryInterval, UnhealthyAfter, FatalAfter, RetryCap,
         Least

\* The actions that start or end something without a result of Nomad's.
Turns ==
    \/ Receive \/ EndDebounce \/ CachedPass \/ RetryPass \/ IntervalPass
    \/ Stop \/ Exit

LEMMA NextCases ==
    ASSUME [Next]_vars
    PROVE  \/ UNCHANGED vars \/ \E s \in {"up", "down", "rejecting"} : Nomad(s)
           \/ Signal \/ Tick \/ Turns \/ CachedDone \/ Reached \/ CertsDone
           \/ \E result \in Results : Unreached(result)
           \/ \E result \in Results : GiveUp(result)
  BY DEF Next, EndPass, Turns

LEMMA FlagsStay == [Next]_vars => flags' = flags
  BY NextCases DEF vars, outside, Nomad, Signal, Tick, Turns, Receive,
       EndDebounce, CachedPass, RetryPass, IntervalPass, StartPass, Start,
       Stop, Exit, CachedDone, Reached, Converged, CertsDone, Ends, Unreached,
       GiveUp

-----------------------------------------------------------------------------
(* The last results.                                                       *)

AllResults == {"ok"} \cup Results

LEMMA RememberFacts ==
    ASSUME TypeOK, NEW r \in AllResults, Remember(r)
    PROVE  /\ recent' \in Seq(AllResults)
           /\ Len(recent') = Least(Len(recent) + 1, MaxFailures)
           /\ recent'[Len(recent')] = r
           /\ \A k \in 1..(Len(recent') - 1) :
                 recent'[Len(recent') - k] = recent[Len(recent) + 1 - k]
  <1> DEFINE all == Append(recent, r)
  <1>1. recent \in Seq(AllResults) /\ Len(recent) =< MaxFailures
    BY DEF TypeOK, AllResults
  <1>2. /\ all \in Seq(AllResults) /\ Len(all) = Len(recent) + 1
        /\ all[Len(all)] = r
        /\ \A i \in 1..Len(recent) : all[i] = recent[i]
    BY <1>1
  <1>3. recent' = IF Len(all) > MaxFailures THEN Tail(all) ELSE all
    BY DEF Remember
  <1>4. CASE Len(all) > MaxFailures
    <2> HIDE DEF all
    <2>1. /\ Tail(all) \in Seq(AllResults) /\ Len(Tail(all)) = Len(recent)
          /\ \A i \in 1..Len(recent) : Tail(all)[i] = all[i + 1]
      BY <1>1, <1>2
    <2>2. Len(recent) = MaxFailures /\ MaxFailures \in Nat \ {0}
      BY <1>1, <1>2, <1>4, BoundsAssumption
    <2> QED
      BY <1>1, <1>2, <1>3, <1>4, <2>1, <2>2 DEF Least
  <1>5. CASE ~(Len(all) > MaxFailures)
    <2> HIDE DEF all
    <2> QED
      BY <1>1, <1>2, <1>3, <1>5, BoundsAssumption DEF Least
  <1> QED
    BY <1>4, <1>5

LEMMA AfterSuccess ==
    ASSUME TypeOK, Remember("ok")
    PROVE  /\ recent' # <<>> /\ Last' = "ok"
           /\ \A n \in 1..MaxFailures : ~AllFailed(n)'
  <1>1. Len(recent') >= 1 /\ recent'[Len(recent')] = "ok"
    BY RememberFacts, BoundsAssumption DEF AllResults, Least, TypeOK
  <1>2. Len(recent') \in Nat
    BY RememberFacts DEF AllResults
  <1>3. recent' # <<>>
    BY <1>1
  <1> QED
    BY <1>1, <1>2, <1>3, BoundsAssumption DEF AllFailed, Last

LEMMA AfterFailure ==
    ASSUME TypeOK, NEW r \in Results, Remember(r)
    PROVE  /\ recent' # <<>> /\ Last' = r /\ r # "ok"
           /\ \A n \in 1..MaxFailures : AllFailed(n)' <=> AllFailed(n - 1)
  <1>0. r \in AllResults /\ recent \in Seq(AllResults)
    BY DEF AllResults, TypeOK
  <1>1. /\ Len(recent') \in Nat /\ Len(recent) \in Nat
        /\ Len(recent') = Least(Len(recent) + 1, MaxFailures)
        /\ recent'[Len(recent')] = r
        /\ \A k \in 1..(Len(recent') - 1) :
              recent'[Len(recent') - k] = recent[Len(recent) + 1 - k]
    BY <1>0, RememberFacts
  <1>2. Len(recent') >= 1 /\ Len(recent) =< MaxFailures
    BY <1>1, BoundsAssumption DEF Least, TypeOK
  <1>3. r # "ok"
    BY DEF Results
  <1>4. ASSUME NEW n \in 1..MaxFailures PROVE AllFailed(n)' <=> AllFailed(n - 1)
    <2>1. Len(recent') >= n <=> Len(recent) >= n - 1
      BY <1>1, <1>2, BoundsAssumption DEF Least
    <2>2. ASSUME Len(recent') >= n, AllFailed(n)' PROVE AllFailed(n - 1)
      <3>1. ASSUME NEW i \in (Len(recent) - (n - 1) + 1)..Len(recent)
            PROVE  recent[i] # "ok"
        <4> DEFINE k == Len(recent) + 1 - i
        <4>1. k \in 1..(Len(recent') - 1)
          BY <1>1, <1>2, <2>2, <3>1, BoundsAssumption DEF Least
        <4>2. Len(recent') - k \in (Len(recent') - n + 1)..Len(recent')
          BY <1>1, <1>2, <2>2, <3>1, BoundsAssumption
        <4>3. recent'[Len(recent') - k] # "ok"
          BY <2>2, <4>2 DEF AllFailed
        <4>4. Len(recent) + 1 - k = i
          BY <1>1, <3>1, BoundsAssumption
        <4> QED
          BY <1>1, <4>1, <4>3, <4>4
      <3> QED
        BY <2>1, <2>2, <3>1 DEF AllFailed
    <2>3. ASSUME Len(recent') >= n, AllFailed(n - 1) PROVE AllFailed(n)'
      <3>1. ASSUME NEW i \in (Len(recent') - n + 1)..Len(recent')
            PROVE  recent'[i] # "ok"
        <4> DEFINE k == Len(recent') - i
        <4>1. CASE k = 0
          BY <1>1, <1>3, <3>1, <4>1, BoundsAssumption
        <4>2. CASE k # 0
          <5>1. k \in 1..(Len(recent') - 1) /\ Len(recent') - k = i
            BY <1>1, <2>3, <3>1, <4>2, BoundsAssumption
          <5>2. Len(recent) + 1 - k
                   \in (Len(recent) - (n - 1) + 1)..Len(recent)
            BY <1>1, <2>3, <3>1, <4>2, BoundsAssumption
          <5> QED
            BY <1>1, <2>3, <5>1, <5>2 DEF AllFailed
        <4> QED
          BY <4>1, <4>2
      <3> QED
        BY <2>3, <3>1 DEF AllFailed
    <2> QED
      BY <2>1, <2>2, <2>3 DEF AllFailed
  <1>5. recent' # <<>>
    BY <1>2
  <1> QED
    BY <1>1, <1>3, <1>4, <1>5 DEF Last

-----------------------------------------------------------------------------
(* Type correctness.                                                       *)

LEMMA InitType == Init => TypeOK
  <1> SUFFICES ASSUME Init PROVE TypeOK
    OBVIOUS
  <1>1. RetryInterval \in RetryInterval..RetryCap /\ RetryInterval \in Nat
    BY FlagFacts DEF Init
  <1>2. /\ recent \in Seq({"ok"} \cup Results)
        /\ Len(recent) =< MaxFailures
    BY BoundsAssumption DEF Init
  <1>3. since \in 0..RetryInterval /\ consecutive \in 0..MaxFailures
    BY <1>1, BoundsAssumption DEF Init
  <1>4. retryIn = None /\ repairIn = None /\ code = None
    BY DEF Init
  <1>5. retryDelay \in RetryInterval..RetryCap
    BY <1>1 DEF Init
  <1> QED
    BY <1>2, <1>3, <1>4, <1>5 DEF Init, TypeOK

\* What a turn of the loop leaves alone, and what it may decide.
LEMMA TurnFacts ==
    ASSUME TypeOK, Turns
    PROVE  /\ UNCHANGED <<outside, healthVars, timers, history>>
           /\ pc' \in {"pass", "debounce", "shutdown", "exited"}
           /\ kind' \in {"cached", "live", "doomed"} /\ onInterval' \in BOOLEAN
           /\ code' \in {None, 0, 1}
           /\ Ending => Ending'
  <1> USE DEF Ending
  <1>1. CASE Receive
    BY <1>1 DEF Receive, TypeOK
  <1>2. CASE EndDebounce
    BY <1>2 DEF EndDebounce, Start, TypeOK
  <1>3. CASE CachedPass
    BY <1>3 DEF CachedPass, StartPass, Start, TypeOK
  <1>4. CASE RetryPass
    BY <1>4 DEF RetryPass, StartPass, Start, TypeOK
  <1>5. CASE IntervalPass
    BY <1>5 DEF IntervalPass, StartPass, Start, TypeOK
  <1>6. CASE Stop
    BY <1>6 DEF Stop, TypeOK
  <1>7. CASE Exit
    BY <1>7 DEF Exit, TypeOK
  <1> QED
    BY <1>1, <1>2, <1>3, <1>4, <1>5, <1>6, <1>7 DEF Turns

LEMMA EndsType ==
    ASSUME TypeOK, NEW verdict \in {0, 1}, Ends(verdict)
    PROVE  /\ UNCHANGED <<outside, kind, onInterval>>
           /\ pc' \in {"shutdown", "loop"} /\ code' \in {None, 0, 1}
           /\ repairIn' \in {None} \cup 0..Interval
  BY FlagFacts DEF Ends, TypeOK

LEMMA FailsType ==
    ASSUME TypeOK, NEW result \in Results, Fails(result)
    PROVE  /\ consecutive' \in 1..MaxFailures /\ since' = 0 /\ ready' = ready
           /\ recent' \in Seq({"ok"} \cup Results)
           /\ Len(recent') =< MaxFailures
           /\ Remember(result)
  <1>1. Remember(result) /\ result \in AllResults
    BY DEF Fails, AllResults
  <1>2. /\ recent' \in Seq({"ok"} \cup Results)
        /\ Len(recent') = Least(Len(recent) + 1, MaxFailures)
    BY <1>1, RememberFacts DEF AllResults
  <1>3. Len(recent') =< MaxFailures
    BY <1>2, BoundsAssumption DEF Least, TypeOK
  <1> QED
    BY <1>1, <1>2, <1>3, BoundsAssumption DEF Fails, TypeOK, Least

LEMMA TypeStep == TypeOK /\ [Next]_vars => TypeOK'
  <1> SUFFICES ASSUME TypeOK, [Next]_vars PROVE TypeOK'
    OBVIOUS
  <1> USE DEF outside, loopVars, healthVars, timers, history
  <1>f. /\ flags' = flags /\ flags \in CommandLines
        /\ Interval' = Interval /\ RetryInterval' = RetryInterval
        /\ RetryCap' = RetryCap /\ Interval \in Nat
        /\ RetryInterval \in Nat \ {0} /\ RetryCap \in Nat
        /\ RetryInterval =< RetryCap
    BY FlagsStay, FlagsKept, FlagFacts DEF TypeOK
  <1>1. CASE UNCHANGED vars
    BY <1>1, <1>f DEF vars, TypeOK
  <1>2. CASE Signal \/ \E s \in {"up", "down", "rejecting"} : Nomad(s)
    BY <1>2, <1>f DEF Signal, Nomad, TypeOK
  <1>3. CASE Tick
    BY <1>3, <1>f DEF Tick, CountDown, Least, None, TypeOK
  <1>4. CASE Turns
    BY <1>4, <1>f, TurnFacts DEF TypeOK
  <1>5. CASE CachedDone
    BY <1>5, <1>f DEF CachedDone, Converged, TypeOK
  <1>6. CASE Reached
    <2>1. /\ recent' \in Seq({"ok"} \cup Results)
          /\ Len(recent') = Least(Len(recent) + 1, MaxFailures)
      BY <1>6, RememberFacts DEF Reached, AllResults
    <2>2. Len(recent') =< MaxFailures
      BY <2>1, BoundsAssumption DEF Least, TypeOK
    <2> QED
      BY <1>6, <1>f, <2>1, <2>2, BoundsAssumption
         DEF Reached, Converged, TypeOK
  <1>7. CASE CertsDone
    <2>1. Ends(0)
      BY <1>7 DEF CertsDone
    <2> QED
      BY <1>7, <1>f, <2>1, EndsType DEF CertsDone, TypeOK
  <1>8. ASSUME NEW result \in Results, Unreached(result) PROVE TypeOK'
    <2>1. Ends(1) /\ Fails(result)
      BY <1>8 DEF Unreached
    <2>2. /\ retryIn' \in {None} \cup 0..RetryCap
          /\ retryDelay' \in RetryInterval..RetryCap
      BY <1>8, <1>f DEF Unreached, Least, TypeOK
    <2> QED
      BY <1>f, <2>1, <2>2, EndsType, FailsType DEF TypeOK
  <1>9. ASSUME NEW result \in Results, GiveUp(result) PROVE TypeOK'
    BY <1>9, <1>f, FailsType DEF GiveUp, TypeOK
  <1> QED
    BY <1>1, <1>2, <1>3, <1>4, <1>5, <1>6, <1>7, <1>8, <1>9, NextCases

\* Every reachable state of FailureBudget is well formed: the counters stay in
\* their bounds, the delays between the retry interval and the cap.
THEOREM TypeCorrect == Spec => []TypeOK
  <1>1. Init => TypeOK
    BY InitType
  <1>2. TypeOK /\ [Next]_vars => TypeOK'
    BY TypeStep
  <1> QED
    BY <1>1, <1>2, PTL DEF Spec

-----------------------------------------------------------------------------
(* The inductive invariant: the counter is the last run of failures.       *)

\* The steps in which no repairing pass has a result.
Quiet ==
    \/ UNCHANGED vars \/ \E s \in {"up", "down", "rejecting"} : Nomad(s)
    \/ Signal \/ Tick \/ Turns \/ CachedDone \/ CertsDone

LEMMA QuietFacts ==
    ASSUME TypeOK, Quiet
    PROVE  /\ UNCHANGED <<flags, consecutive, ready, recent>>
           /\ Ending => Ending'
  <1> USE DEF outside, loopVars, healthVars, timers, history
  <1>1. CASE UNCHANGED vars
    BY <1>1 DEF vars, Ending
  <1>2. CASE Signal \/ \E s \in {"up", "down", "rejecting"} : Nomad(s)
    BY <1>2 DEF Signal, Nomad, Ending
  <1>3. CASE Tick
    BY <1>3 DEF Tick, Ending
  <1>4. CASE Turns
    BY <1>4, TurnFacts
  <1>5. CASE CachedDone
    BY <1>5 DEF CachedDone, Converged, Ending
  <1>6. CASE CertsDone
    BY <1>6 DEF CertsDone, Ends, Ending
  <1> QED
    BY <1>1, <1>2, <1>3, <1>4, <1>5, <1>6 DEF Quiet

LEMMA StepCases ==
    ASSUME [Next]_vars
    PROVE  \/ Quiet \/ Reached
           \/ \E result \in Results : Unreached(result)
           \/ \E result \in Results : GiveUp(result)
  BY NextCases DEF Quiet

LEMMA CountedFailure ==
    ASSUME TypeOK, Counted, NEW result \in Results, Fails(result)
    PROVE  /\ \A n \in 1..MaxFailures : consecutive' >= n <=> AllFailed(n)'
           /\ recent' # <<>> /\ Last' = result /\ result # "ok"
  <1>1. /\ Remember(result)
        /\ consecutive' = Least(consecutive + 1, MaxFailures)
    BY DEF Fails
  <1>2. /\ recent' # <<>> /\ Last' = result /\ result # "ok"
        /\ \A n \in 1..MaxFailures : AllFailed(n)' <=> AllFailed(n - 1)
    BY <1>1, AfterFailure
  <1>3. AllFailed(0)
    BY DEF AllFailed, TypeOK
  <1>4. ASSUME NEW n \in 1..MaxFailures
        PROVE  consecutive' >= n <=> AllFailed(n - 1)
    <2>1. consecutive' >= n <=> consecutive >= n - 1
      BY <1>1, BoundsAssumption DEF Least, TypeOK
    <2>2. CASE n = 1
      BY <1>3, <2>1, <2>2 DEF TypeOK
    <2>3. CASE n # 1
      <3>1. n - 1 \in 1..MaxFailures
        BY <2>3, BoundsAssumption
      <3> QED
        BY <2>1, <3>1 DEF Counted
    <2> QED
      BY <2>2, <2>3
  <1> QED
    BY <1>2, <1>4

LEMMA CountedStep == TypeOK /\ Counted /\ [Next]_vars => Counted'
  <1> SUFFICES ASSUME TypeOK, Counted, [Next]_vars PROVE Counted'
    OBVIOUS
  <1>f. FatalAfter' = FatalAfter /\ FatalAfter \in 0..MaxFailures
    BY FlagsStay, FlagsKept, FlagFacts DEF TypeOK
  <1>1. CASE Quiet
    <2>1. \A n \in 1..MaxFailures : AllFailed(n)' <=> AllFailed(n)
      BY <1>1, QuietFacts DEF AllFailed
    <2> QED
      BY <1>1, <1>f, <2>1, QuietFacts DEF Counted
  <1>2. CASE Reached
    <2>1. consecutive' = 0 /\ ready' = TRUE /\ Remember("ok")
      BY <1>2 DEF Reached
    <2> QED
      BY <1>f, <2>1, AfterSuccess, BoundsAssumption DEF Counted
  <1>3. ASSUME NEW result \in Results, Unreached(result) PROVE Counted'
    <2>1. Fails(result) /\ ~Spent
      BY <1>3 DEF Unreached
    <2>2. consecutive' \in 1..MaxFailures
      BY <2>1, FailsType
    <2>3. FatalAfter > 0 => consecutive' < FatalAfter
      BY <1>f, <2>1, <2>2, BoundsAssumption DEF Spent
    <2> QED
      BY <1>f, <2>1, <2>2, <2>3, CountedFailure DEF Counted
  <1>4. ASSUME NEW result \in Results, GiveUp(result) PROVE Counted'
    <2>1. Fails(result) /\ Ending'
      BY <1>4 DEF GiveUp, Ending
    <2>2. consecutive' \in 1..MaxFailures
      BY <2>1, FailsType
    <2> QED
      BY <2>1, <2>2, CountedFailure DEF Counted
  <1> QED
    BY <1>1, <1>2, <1>3, <1>4, StepCases

-----------------------------------------------------------------------------
(* Where the loop is.                                                      *)

LEMMA PhasesStep == TypeOK /\ Phases /\ [Next]_vars => Phases'
  <1> SUFFICES ASSUME TypeOK, Phases, [Next]_vars PROVE Phases'
    OBVIOUS
  <1> USE DEF outside, loopVars, healthVars, timers, history
  <1>f. /\ Once' = Once /\ Interval' = Interval /\ Once \in BOOLEAN
        /\ Interval \in Nat \ {0} /\ Interval # None
    BY FlagsStay, FlagsKept, FlagFacts DEF TypeOK, None
  <1>1. CASE UNCHANGED vars
    BY <1>1, <1>f DEF vars, Phases, First, Ending
  <1>2. CASE Signal \/ \E s \in {"up", "down", "rejecting"} : Nomad(s)
    BY <1>2, <1>f DEF Signal, Nomad, Phases, First, Ending
  <1>3. CASE Tick
    <2>1. First' <=> First
      BY <1>3, FlagFacts DEF Tick, CountDown, First, None, TypeOK
    <2> QED
      BY <1>3, <1>f, <2>1 DEF Tick, Phases, Ending
  <1>4. CASE Turns
    <2>1. First' <=> First
      BY <1>4, TurnFacts DEF First
    <2>2. CASE Receive
      BY <1>f, <2>1, <2>2 DEF Receive, Phases, Ending
    <2>3. CASE EndDebounce \/ CachedPass \/ RetryPass \/ IntervalPass
      <3>1. /\ pc \in {"loop", "debounce"} /\ pc' = "pass" /\ code' = code
        BY <2>3 DEF EndDebounce, CachedPass, RetryPass, IntervalPass,
                    StartPass, Start
      <3> QED
        BY <1>f, <2>1, <3>1 DEF Phases, Ending
    <2>4. CASE Stop
      BY <1>f, <2>1, <2>4 DEF Stop, Phases, Ending, None
    <2>5. CASE Exit
      BY <1>f, <2>1, <2>5 DEF Exit, Phases, Ending
    <2> QED
      BY <1>4, <2>2, <2>3, <2>4, <2>5 DEF Turns
  <1>5. CASE CachedDone
    BY <1>5, <1>f DEF CachedDone, Converged, Phases, First, Ending
  <1>6. CASE Reached
    BY <1>6, <1>f DEF Reached, Converged, Phases, First, Ending
  <1>7. ASSUME NEW verdict \in {0, 1}, Ends(verdict), pc \in {"pass", "certs"}
        PROVE  Phases'
    <2>1. ~First'
      BY <1>7, <1>f DEF Ends, First
    <2>2. CASE First /\ Once
      BY <1>7, <2>2 DEF Ends, Phases, Ending, None
    <2>3. CASE ~(First /\ Once)
      BY <1>7, <1>f, <2>1, <2>3 DEF Ends, Phases, Ending
    <2> QED
      BY <2>2, <2>3
  <1>8. CASE CertsDone
    BY <1>7, <1>8 DEF CertsDone
  <1>9. ASSUME NEW result \in Results, Unreached(result) PROVE Phases'
    BY <1>7, <1>9 DEF Unreached
  <1>10. ASSUME NEW result \in Results, GiveUp(result) PROVE Phases'
    BY <1>10 DEF GiveUp, Phases, Ending, None
  <1> QED
    BY <1>1, <1>2, <1>3, <1>4, <1>5, <1>6, <1>8, <1>9, <1>10, NextCases

-----------------------------------------------------------------------------
(* The exit code.                                                          *)

LEMMA LastOk ==
    ASSUME TypeOK, Counted, ready, consecutive = 0
    PROVE  Last = "ok"
  <1>1. recent # <<>> /\ ~AllFailed(1)
    BY BoundsAssumption DEF Counted
  <1>2. recent \in Seq(AllResults)
    BY DEF TypeOK, AllResults
  <1>3. Len(recent) \in Nat /\ Len(recent) >= 1
    BY <1>1, <1>2
  <1> QED
    BY <1>1, <1>3 DEF AllFailed, Last

LEMMA VerdictStep ==
    ASSUME TypeOK, Counted, Phases, Verdict, Counted', [Next]_vars
    PROVE  Verdict'
  <1> USE DEF outside, loopVars, healthVars, timers, history
  <1>f. /\ Once' = Once /\ FatalAfter' = FatalAfter
        /\ FatalAfter \in 0..MaxFailures
    BY FlagsStay, FlagsKept, FlagFacts DEF TypeOK
  <1>1. ASSUME Quiet, code' = code PROVE Verdict'
    <2>1. recent' = recent
      BY <1>1, QuietFacts
    <2> QED
      BY <1>1, <1>f, <2>1 DEF Verdict, AllFailed, Last
  <1>2. CASE Stop
    BY <1>2, <1>f DEF Stop, Phases, Verdict
  <1>3. CASE CertsDone
    <2>1. CASE First /\ Once
      <3>1. code' = 0 /\ recent' = recent
        BY <1>3, <2>1 DEF CertsDone, Ends
      <3>2. ready /\ consecutive = 0
        BY <1>3, <2>1 DEF CertsDone, Phases
      <3> QED
        BY <1>f, <3>1, <3>2, LastOk DEF Verdict, Last
    <2>2. CASE ~(First /\ Once)
      BY <1>1, <1>3, <2>2 DEF CertsDone, Ends, Quiet
    <2> QED
      BY <2>1, <2>2
  <1>4. CASE Quiet
    <2>1. \/ code' = code \/ Stop \/ CertsDone
      BY <1>4 DEF Quiet, vars, Signal, Nomad, Tick, Turns, Receive,
                  EndDebounce, CachedPass, RetryPass, IntervalPass, StartPass,
                  Start, Exit, CachedDone, Converged
    <2> QED
      BY <1>1, <1>2, <1>3, <1>4, <2>1
  <1>5. CASE Reached
    <2>1. code' = code /\ code = None
      BY <1>5 DEF Reached, Converged, Phases, Ending
    <2> QED
      BY <2>1 DEF Verdict, None
  <1>6. ASSUME NEW result \in Results, Unreached(result) PROVE Verdict'
    <2>1. /\ Last' = result /\ result # "ok"
      BY <1>6, CountedFailure DEF Unreached
    <2>2. \/ Once /\ code' = 1
          \/ code' = None
      BY <1>6 DEF Unreached, Ends, Phases, Ending
    <2> QED
      BY <1>f, <2>1, <2>2 DEF Verdict, None
  <1>7. ASSUME NEW result \in Results, GiveUp(result) PROVE Verdict'
    <2>1. code' = 1 /\ Fails(result) /\ (Spent \/ result = "rejected")
      BY <1>7 DEF GiveUp
    <2>2. Last' = result /\ result # "ok"
      BY <2>1, CountedFailure
    <2>3. Spent => FatalAfter > 0 /\ AllFailed(FatalAfter)'
      BY <1>f, <2>1, CountedFailure, BoundsAssumption DEF Spent
    <2> QED
      BY <1>f, <2>1, <2>2, <2>3 DEF Verdict
  <1> QED
    BY <1>4, <1>5, <1>6, <1>7, StepCases

-----------------------------------------------------------------------------
(* The retries.                                                            *)

LEMMA RetryDueStep == TypeOK /\ Phases /\ RetryDue /\ [Next]_vars => RetryDue'
  <1> SUFFICES ASSUME TypeOK, Phases, RetryDue, [Next]_vars PROVE RetryDue'
    OBVIOUS
  <1> USE DEF outside, loopVars, healthVars, timers, history
  <1>1. CASE UNCHANGED vars
    BY <1>1 DEF vars, RetryDue
  <1>2. CASE Signal \/ \E s \in {"up", "down", "rejecting"} : Nomad(s)
    BY <1>2 DEF Signal, Nomad, RetryDue
  <1>3. CASE Tick
    <2>1. retryIn' # None <=> retryIn # None
      BY <1>3, FlagFacts DEF Tick, CountDown, None, TypeOK
    <2> QED
      BY <1>3, <2>1 DEF Tick, RetryDue
  <1>4. CASE Turns
    <2>1. /\ UNCHANGED <<retryIn, consecutive>>
          /\ pc' \in {"pass", "debounce", "shutdown", "exited"}
      BY <1>4, TurnFacts
    <2>2. pc \in {"loop", "debounce"} \/ pc' = "exited"
      BY <1>4 DEF Turns, Receive, EndDebounce, CachedPass, RetryPass,
                  IntervalPass, StartPass, Start, Stop, Exit
    <2> QED
      BY <2>1, <2>2 DEF RetryDue
  <1>5. CASE CachedDone
    BY <1>5 DEF CachedDone, Converged, RetryDue
  <1>6. CASE Reached
    BY <1>6 DEF Reached, Converged, RetryDue
  <1>7. CASE CertsDone
    <2>1. pc = "certs" /\ pc' \in {"loop", "shutdown"}
      BY <1>7 DEF CertsDone, Ends
    <2>2. CASE kind = "cached"
      BY <1>7, <2>1, <2>2 DEF CertsDone, RetryDue
    <2>3. CASE kind # "cached"
      BY <1>7, <2>1, <2>3 DEF CertsDone, Phases, RetryDue
    <2> QED
      BY <2>2, <2>3
  <1>8. ASSUME NEW result \in Results, Unreached(result) PROVE RetryDue'
    <2>1. consecutive' \in 1..MaxFailures
      BY <1>8, FailsType DEF Unreached
    <2>2. retryIn' # None
      BY <1>8, FlagFacts DEF Unreached, None, TypeOK
    <2> QED
      BY <2>1, <2>2, BoundsAssumption DEF RetryDue
  <1>9. ASSUME NEW result \in Results, GiveUp(result) PROVE RetryDue'
    BY <1>9 DEF GiveUp, RetryDue
  <1> QED
    BY <1>1, <1>2, <1>3, <1>4, <1>5, <1>6, <1>7, <1>8, <1>9, NextCases

LEMMA SpacedStep == TypeOK /\ Spaced /\ [Next]_vars => Spaced'
  <1> SUFFICES ASSUME TypeOK, Spaced, [Next]_vars PROVE Spaced'
    OBVIOUS
  <1> USE DEF outside, loopVars, healthVars, timers, history
  <1>f. /\ RetryInterval' = RetryInterval /\ RetryInterval \in Nat \ {0}
        /\ RetryCap \in Nat
    BY FlagsStay, FlagsKept, FlagFacts DEF TypeOK
  <1>1. CASE UNCHANGED vars
    BY <1>1, <1>f DEF vars, Spaced, Ending
  <1>2. CASE Signal \/ \E s \in {"up", "down", "rejecting"} : Nomad(s)
    BY <1>2, <1>f DEF Signal, Nomad, Spaced, Ending
  <1>3. CASE Tick
    BY <1>3, <1>f DEF Tick, CountDown, Least, None, Spaced, Ending, TypeOK
  <1>4. CASE Turns
    BY <1>4, <1>f, TurnFacts DEF Spaced
  <1>5. CASE CachedDone \/ Reached
    BY <1>5, <1>f DEF CachedDone, Reached, Converged, Spaced, Ending
  <1>6. CASE CertsDone
    BY <1>6, <1>f DEF CertsDone, Spaced, Ending
  <1>7. ASSUME NEW result \in Results, Unreached(result) PROVE Spaced'
    <2>1. since' = 0 /\ retryIn' = retryDelay /\ retryDelay >= RetryInterval
      BY <1>7, <1>f, FailsType DEF Unreached, TypeOK
    <2> QED
      BY <1>7, <1>f, <2>1 DEF Spaced, TypeOK
  <1>8. ASSUME NEW result \in Results, GiveUp(result) PROVE Spaced'
    BY <1>8 DEF GiveUp, Spaced, Ending
  <1> QED
    BY <1>1, <1>2, <1>3, <1>4, <1>5, <1>6, <1>7, <1>8, NextCases

-----------------------------------------------------------------------------
(* The delay.                                                              *)

\* A set of n has 2^n subsets, and twice as many with one element more.
LEMMA PowersOfTwo ==
    /\ 2^0 = 1
    /\ \A n \in Nat : 2^n \in Nat /\ 2^(n + 1) = 2 * 2^n
  <1>1. 2^0 = 1
    <2>1. Cardinality({}) = 0 /\ SUBSET {} = {{}}
      BY FS_EmptySet
    <2> QED
      BY <2>1, FS_EmptySet, FS_SUBSET, FS_Singleton
  <1>2. ASSUME NEW n \in Nat PROVE 2^n \in Nat /\ 2^(n + 1) = 2 * 2^n
    <2> DEFINE S == 1..n
               A == SUBSET S
               B == {X \cup {n + 1} : X \in A}
    <2>1. IsFiniteSet(S) /\ Cardinality(S) = n
      BY FS_Interval
    <2>2. IsFiniteSet(1..(n + 1)) /\ Cardinality(1..(n + 1)) = n + 1
      BY FS_Interval
    <2>3. SUBSET (1..(n + 1)) = A \cup B
      <3>1. ASSUME NEW X \in SUBSET (1..(n + 1)) PROVE X \in A \cup B
        <4>1. CASE n + 1 \in X
          <5>1. X \ {n + 1} \in A
            OBVIOUS
          <5>2. X = (X \ {n + 1}) \cup {n + 1}
            BY <4>1
          <5> QED
            BY <5>1, <5>2
        <4>2. CASE n + 1 \notin X
          BY <4>2
        <4> QED
          BY <4>1, <4>2
      <3>2. \A X \in A : /\ X \in SUBSET (1..(n + 1))
                         /\ X \cup {n + 1} \in SUBSET (1..(n + 1))
        OBVIOUS
      <3>3. A \cup B \subseteq SUBSET (1..(n + 1))
        <4> DEFINE P == SUBSET (1..(n + 1))
        <4>1. \A X \in A : X \in P /\ X \cup {n + 1} \in P
          BY <3>2
        <4> HIDE DEF A, P
        <4>2. A \cup B \subseteq P
          BY <4>1
        <4> QED
          BY <4>2 DEF P
      <3> HIDE DEF A, B
      <3> QED
        BY <3>1, <3>3
    <2>4. \A X \in A : n + 1 \notin X
      OBVIOUS
    <2>5. A \cap B = {}
      BY <2>4
    <2>6. IsFiniteSet(A) /\ Cardinality(A) = 2^n
      BY <2>1, FS_SUBSET
    <2>7. IsFiniteSet(B) /\ Cardinality(B) = Cardinality(A)
      <3> DEFINE f == [X \in A |-> X \cup {n + 1}]
      <3>1. ASSUME NEW X \in A, NEW Y \in A, f[X] = f[Y] PROVE X = Y
        <4>1. X \cup {n + 1} = Y \cup {n + 1}
          BY <3>1
        <4>2. n + 1 \notin X /\ n + 1 \notin Y
          BY <2>4
        <4> HIDE DEF A
        <4> QED
          BY <4>1, <4>2
      <3>2. f \in [A -> B] /\ \A Y \in B : \E X \in A : f[X] = Y
        <4> HIDE DEF A
        <4> QED
          OBVIOUS
      <3>3. f \in Bijection(A, B)
        <4> HIDE DEF f, A, B
        <4> QED
          BY <3>1, <3>2 DEF Bijection, Injection, Surjection, IsInjective
      <3> HIDE DEF f, A, B
      <3> QED
        BY <2>6, <3>3, FS_Bijection DEF ExistsBijection
    <2>8. Cardinality(A) \in Nat
      BY <2>6, FS_CardinalityType
    <2>9. Cardinality(A \cup B) = Cardinality(A) + Cardinality(B)
      <3> HIDE DEF A, B
      <3>1. Cardinality(A \cap B) = 0
        BY <2>5, FS_EmptySet
      <3> QED
        BY <2>6, <2>7, <2>8, <3>1, FS_Union
    <2>10. Cardinality(SUBSET (1..(n + 1))) = 2^(n + 1)
      BY <2>2, FS_SUBSET
    <2> DEFINE p == 2^n
               q == 2^(n + 1)
    <2>11. /\ p = Cardinality(A)
           /\ q = Cardinality(A) + Cardinality(A)
      BY <2>3, <2>6, <2>7, <2>9, <2>10
    <2> HIDE DEF A, B, p, q
    <2>12. p \in Nat /\ q = 2 * p
      BY <2>8, <2>11
    <2> QED
      BY <2>12 DEF p, q
  <1> QED
    BY <1>1, <1>2

\* Doubling the delay under the cap is doubling it and then capping it.
LEMMA DoubleCapped ==
    ASSUME NEW interval \in Nat, NEW n \in Nat, NEW cap \in Nat
    PROVE  Least(2 * Least(interval * 2^n, cap), cap) =
             Least(interval * 2^(n + 1), cap)
  <1> DEFINE p == 2^n
             x == interval * p
  <1>1. p \in Nat /\ 2^(n + 1) = 2 * p
    BY PowersOfTwo
  <1> HIDE DEF p
  <1>2. x \in Nat /\ interval * (2 * p) = 2 * x
    BY <1>1
  <1> HIDE DEF x
  <1>3. Least(2 * Least(x, cap), cap) = Least(2 * x, cap)
    BY <1>2 DEF Least
  <1> QED
    BY <1>1, <1>2, <1>3 DEF p, x

LEMMA DoubledStep ==
    TypeOK /\ Phases /\ Doubled /\ [Next]_vars => Doubled'
  <1> SUFFICES ASSUME TypeOK, Phases, Doubled, [Next]_vars PROVE Doubled'
    OBVIOUS
  <1> USE DEF outside, loopVars, healthVars, timers, history
  <1>f. /\ RetryInterval' = RetryInterval /\ RetryInterval \in Nat \ {0}
        /\ RetryCap' = RetryCap /\ RetryCap \in Nat
        /\ RetryInterval =< RetryCap
    BY FlagsStay, FlagsKept, FlagFacts DEF TypeOK
  <1> DEFINE Delay(n) == Least(RetryInterval * 2^n, RetryCap)
  <1>0. RetryInterval = Delay(0)
    BY <1>f, PowersOfTwo DEF Least
  <1>s. ASSUME UNCHANGED <<retryDelay, consecutive>>,
               pc' \in {"loop", "debounce", "pass"}
                 \/ (pc' = "certs" /\ kind' = "cached")
               => pc \in {"loop", "debounce", "pass"}
                 \/ (pc = "certs" /\ kind = "cached")
        PROVE  Doubled'
    BY <1>s, <1>f DEF Doubled, Least
  <1>1. CASE UNCHANGED vars
    BY <1>1, <1>s DEF vars
  <1>2. CASE Signal \/ \E s \in {"up", "down", "rejecting"} : Nomad(s)
    BY <1>2, <1>s DEF Signal, Nomad
  <1>3. CASE Tick
    BY <1>3, <1>s DEF Tick
  <1>4. CASE Turns
    <2>1. /\ UNCHANGED <<retryDelay, consecutive>>
          /\ pc' \in {"pass", "debounce", "shutdown", "exited"}
      BY <1>4, TurnFacts
    <2>2. pc \in {"loop", "debounce"} \/ pc' = "exited"
      BY <1>4 DEF Turns, Receive, EndDebounce, CachedPass, RetryPass,
                  IntervalPass, StartPass, Start, Stop, Exit
    <2> QED
      BY <1>s, <2>1, <2>2
  <1>5. CASE CachedDone
    BY <1>5, <1>s DEF CachedDone, Converged
  <1>6. CASE Reached
    BY <1>6 DEF Reached, Converged, Doubled
  <1>7. CASE CertsDone
    <2>1. pc = "certs"
      BY <1>7 DEF CertsDone
    <2>2. CASE kind = "cached"
      BY <1>7, <1>s, <2>1, <2>2 DEF CertsDone
    <2>3. CASE kind # "cached"
      <3>1. retryDelay' = RetryInterval /\ consecutive' = 0
        BY <1>7, <2>1, <2>3 DEF CertsDone, Phases
      <3> QED
        BY <1>0, <1>f, <3>1 DEF Doubled, Least
    <2> QED
      BY <2>2, <2>3
  <1>8. ASSUME NEW result \in Results, Unreached(result) PROVE Doubled'
    <2>1. /\ consecutive' = Least(consecutive + 1, MaxFailures)
          /\ retryDelay' = Least(2 * retryDelay, RetryCap) /\ pc = "pass"
      BY <1>8 DEF Unreached, Fails
    <2>2. consecutive \in 0..MaxFailures
      BY DEF TypeOK
    <2>3. ASSUME consecutive' < MaxFailures
          PROVE  retryDelay' = Delay(consecutive')
      <3>1. consecutive \in Nat /\ consecutive' = consecutive + 1
            /\ consecutive < MaxFailures
        BY <2>1, <2>2, <2>3, BoundsAssumption DEF Least
      <3>2. retryDelay = Delay(consecutive)
        BY <2>1, <3>1 DEF Doubled
      <3>3. Least(2 * Delay(consecutive), RetryCap) = Delay(consecutive + 1)
        BY <1>f, <3>1, DoubleCapped
      <3> QED
        BY <2>1, <3>1, <3>2, <3>3
    <2> QED
      BY <1>f, <2>3 DEF Doubled, Least
  <1>9. ASSUME NEW result \in Results, GiveUp(result) PROVE Doubled'
    BY <1>9 DEF GiveUp, Doubled
  <1> QED
    BY <1>1, <1>2, <1>3, <1>4, <1>5, <1>6, <1>7, <1>8, <1>9, NextCases

-----------------------------------------------------------------------------
(* The theorems.                                                           *)

LEMMA InitIInv == Init => IInv
  <1> SUFFICES ASSUME Init PROVE IInv
    OBVIOUS
  <1>1. TypeOK
    BY InitType
  <1>2. /\ recent = <<>> /\ consecutive = 0 /\ ready = FALSE /\ code = None
        /\ pc = "pass" /\ kind = "live" /\ retryIn = None /\ repairIn = None
    BY DEF Init
  <1>3. Counted
    BY <1>1, <1>2, FlagFacts, BoundsAssumption DEF Counted, AllFailed, TypeOK
  <1>4. Phases /\ RetryDue /\ Spaced
    BY <1>2 DEF Phases, RetryDue, Spaced, First, Ending
  <1>5. Verdict
    BY <1>2 DEF Verdict, None
  <1>6. Doubled
    <2>1. /\ RetryInterval \in Nat /\ RetryCap \in Nat
          /\ RetryInterval =< RetryCap
      BY <1>1, FlagFacts DEF TypeOK
    <2>2. retryDelay = RetryInterval
      BY DEF Init
    <2> QED
      BY <1>2, <2>1, <2>2, PowersOfTwo DEF Doubled, Least
  <1> QED
    BY <1>1, <1>3, <1>4, <1>5, <1>6 DEF IInv

LEMMA StepIInv == IInv /\ [Next]_vars => IInv'
  <1> SUFFICES ASSUME IInv, [Next]_vars PROVE IInv'
    OBVIOUS
  <1>1. /\ TypeOK /\ Counted /\ Phases /\ Verdict /\ RetryDue /\ Spaced
        /\ Doubled
    BY DEF IInv
  <1>2. TypeOK'
    BY <1>1, TypeStep
  <1>3. Counted'
    BY <1>1, CountedStep
  <1>4. Phases'
    BY <1>1, PhasesStep
  <1>5. Verdict'
    BY <1>1, <1>3, VerdictStep
  <1>6. RetryDue' /\ Spaced'
    BY <1>1, RetryDueStep, SpacedStep
  <1>7. Doubled'
    BY <1>1, DoubledStep
  <1> QED
    BY <1>2, <1>3, <1>4, <1>5, <1>6, <1>7 DEF IInv

\* The invariant of the budget is inductive: the counter is the last run of
\* failures, and where the loop is says what has been decided.
THEOREM Inductive == Spec => []IInv
  <1>1. Init => IInv
    BY InitIInv
  <1>2. IInv /\ [Next]_vars => IInv'
    BY StepIInv
  <1> QED
    BY <1>1, <1>2, PTL DEF Spec

\* The status and the exit code say what the last repairing passes showed
\* (health.go:127), for every command line and any sequence of passes.
THEOREM StatusTruthful == Spec => []Truthful
  <1>1. IInv => Truthful
    <2> SUFFICES ASSUME IInv PROVE Truthful
      OBVIOUS
    <2>1. TypeOK /\ Counted /\ Verdict
      BY DEF IInv
    <2>2. /\ UnhealthyAfter \in 0..MaxFailures
          /\ FatalAfter \in 0..MaxFailures
          /\ consecutive \in 0..MaxFailures /\ ready \in BOOLEAN
      BY <2>1, FlagFacts DEF TypeOK
    <2>3. \A n \in 1..MaxFailures : consecutive >= n <=> AllFailed(n)
      BY <2>1 DEF Counted
    <2> DEFINE spent == UnhealthyAfter > 0 /\ consecutive >= UnhealthyAfter
    <2>s. /\ spent => consecutive > 0
          /\ spent <=> UnhealthyAfter > 0 /\ AllFailed(UnhealthyAfter)
      BY <2>2, <2>3, BoundsAssumption
    <2>t. /\ Status = "unhealthy" <=> spent
          /\ Status = "healthy" => consecutive = 0 /\ ready
          /\ Status = "starting" <=> ~spent /\ consecutive = 0 /\ ~ready
      <3>1. CASE spent
        BY <3>1 DEF Status
      <3>2. CASE ~spent /\ consecutive > 0
        BY <2>2, <3>2 DEF Status
      <3>3. CASE ~spent /\ consecutive = 0 /\ ~ready
        BY <3>3 DEF Status
      <3>4. CASE ~spent /\ consecutive = 0 /\ ready
        BY <3>4 DEF Status
      <3> QED
        BY <2>2, <3>1, <3>2, <3>3, <3>4
    <2> HIDE DEF spent
    <2>4. Status = "unhealthy" <=>
             UnhealthyAfter > 0 /\ AllFailed(UnhealthyAfter)
      BY <2>s, <2>t
    <2>5. Status = "healthy" => Last = "ok"
      BY <2>1, <2>t, LastOk
    <2>6. Status = "starting" <=> recent = <<>>
      BY <2>1, <2>2, <2>s, <2>t DEF Counted
    <2>7. ~Ending => ~(FatalAfter > 0 /\ AllFailed(FatalAfter))
      BY <2>1, <2>2, <2>3, BoundsAssumption DEF Counted
    <2> QED
      BY <2>1, <2>4, <2>5, <2>6, <2>7 DEF Truthful
  <1> QED
    BY <1>1, Inductive, PTL

\* A retry is due exactly after a failure, never sooner than the retry
\* interval after it, and the delay doubles up to the cap and starts over
\* (README.md:672), for any intervals and any number of failures counted.
THEOREM RetriesBackOff == Spec => []Backoff
  <1>1. IInv => Backoff
    BY DEF IInv, Backoff
  <1> QED
    BY <1>1, Inductive, PTL
=============================================================================
