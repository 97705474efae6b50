--------------------------- MODULE CircuitBreaker ---------------------------
(***************************************************************************)
(* A circuit breaker of pyAPI (main.py, class CircuitBreaker) and the      *)
(* endpoints that call through it, reset it and configure it.              *)
(*                                                                         *)
(* Granularity.  The endpoint that calls a service asks can_execute, makes *)
(* the call (time.sleep, which blocks the event loop) and reports the      *)
(* outcome without an await: one step, during which time may pass.         *)
(*                                                                         *)
(* Time is kept as the age of the last failure.  An age beyond the longest *)
(* recovery timeout makes no difference and is not told apart.             *)
(*                                                                         *)
(* A definition whose comment begins with "Faulty" is not the code: it is  *)
(* a plausible mistake in the definition that follows it, kept to show     *)
(* which property would notice the mistake.                                *)
(***************************************************************************)
EXTENDS Integers

CONSTANTS FailureThresholds,   \* the values configured for failure_threshold,
          RecoveryTimeouts,    \* for recovery_timeout
          SuccessThresholds,   \* and for success_threshold
          MaxTimeout,          \* the longest recovery timeout
          MaxCount,            \* bound: the calls in a row that are counted
          MaxOutages           \* bound: how often the service goes down

Configs == [failure_threshold : FailureThresholds,
            recovery_timeout  : RecoveryTimeouts,
            success_threshold : SuccessThresholds]

\* The endpoint takes any integers, negative ones included.
ASSUME ConfigAssumption ==
    /\ FailureThresholds \subseteq Int
    /\ RecoveryTimeouts \subseteq {t \in Int : t <= MaxTimeout}
    /\ SuccessThresholds \subseteq {n \in Int : n <= MaxCount}

ASSUME BreakerBoundsAssumption ==
    MaxTimeout \in Nat /\ MaxCount \in Nat /\ MaxOutages \in Nat

States == {"CLOSED", "OPEN", "HALF_OPEN"}

VARIABLES
    config,         \* self.config
    state,          \* self.state
    failure_count,  \* self.failure_count
    success_count,  \* self.success_count
    age,            \* time.time() - self.last_failure_time, saturated
    healthy,        \* whether a call of the service succeeds (environment)
    outages,        \* how often the service has gone down (environment)
    losses,         \* history: failed calls since the last successful one or
                    \* the last reset
    wins,           \* history: successful calls since the last failed one
    relaxed         \* history: a configuration was set whose failure_threshold
                    \* the failures so far had already reached

breaker == <<config, state, failure_count, success_count>>
history == <<losses, wins, relaxed>>
vars == <<breaker, age, healthy, outages, history>>

\* An age that is not told apart from a greater one.
Saturated(a) == IF a > MaxTimeout THEN MaxTimeout + 1 ELSE a

Init ==
    /\ config \in Configs
    /\ state = "CLOSED"
    /\ failure_count = 0
    /\ success_count = 0
    /\ age = MaxTimeout + 1       \* last_failure_time = 0, the epoch
    /\ healthy = TRUE
    /\ outages = 0
    /\ losses = 0
    /\ wins = 0
    /\ relaxed = FALSE

-----------------------------------------------------------------------------
(* The methods of CircuitBreaker.  Each takes the state it finds and gives *)
(* the state it leaves.                                                    *)

Breaker(s, failures, successes) ==
    [state |-> s, failures |-> failures, successes |-> successes]

B == Breaker(state, failure_count, success_count)

\* can_execute: an open breaker admits a call after the recovery timeout.
CanExecute(b) == b.state = "OPEN" => age > config.recovery_timeout

\* Faulty: an open breaker stays open.
AdmitStaysOpen(b) == b

\* What can_execute leaves behind when it admits a call.
Admit(b) == IF b.state = "OPEN" THEN Breaker("HALF_OPEN", b.failures, 0) ELSE b

\* Faulty: the first success closes a half-open breaker.
OnSuccessAtOnce(b) == Breaker("CLOSED", 0, 0)

\* Faulty: successes are counted, but the breaker never closes.
OnSuccessCounts(b) ==
    IF b.state = "HALF_OPEN" THEN Breaker(b.state, b.failures, b.successes + 1)
                             ELSE Breaker(b.state, 0, b.successes)

OnSuccess(b) ==
    CASE b.state = "HALF_OPEN" /\ b.successes + 1 >= config.success_threshold
            -> Breaker("CLOSED", 0, 0)
      [] b.state = "HALF_OPEN" /\ b.successes + 1 < config.success_threshold
            -> Breaker(b.state, b.failures, b.successes + 1)
      [] b.state # "HALF_OPEN"
            -> Breaker(b.state, 0, b.successes)

\* Faulty: one failure too many is allowed.
OnFailureLate(b) ==
    CASE b.state = "CLOSED" /\ b.failures + 1 > config.failure_threshold
            -> Breaker("OPEN", b.failures + 1, b.successes)
      [] b.state = "HALF_OPEN"
            -> Breaker("OPEN", b.failures + 1, 0)
      [] OTHER
            -> Breaker(b.state, b.failures + 1, b.successes)

OnFailure(b) ==
    CASE b.state = "CLOSED" /\ b.failures + 1 >= config.failure_threshold
            -> Breaker("OPEN", b.failures + 1, b.successes)
      [] b.state = "HALF_OPEN"
            -> Breaker("OPEN", b.failures + 1, 0)
      [] OTHER
            -> Breaker(b.state, b.failures + 1, b.successes)

Becomes(b) ==
    /\ state' = b.state
    /\ failure_count' = b.failures
    /\ success_count' = b.successes

-----------------------------------------------------------------------------
(* The endpoints.                                                          *)

Delays == 0..MaxTimeout + 1

\* POST /circuit-breaker/test: an admitted call that succeeds, after a delay
\* d.  A call that is not admitted is refused with 503 and changes nothing.
CallSucceeds(d) ==
    /\ healthy
    /\ CanExecute(B)
    /\ Becomes(OnSuccess(Admit(B)))
    /\ age' = Saturated(age + d)
    /\ losses' = 0
    /\ wins' = IF wins < MaxCount THEN wins + 1 ELSE wins
    /\ UNCHANGED <<config, healthy, outages, relaxed>>

\* An admitted call that fails, after which the last failure has age 0.
CallFails ==
    /\ ~healthy
    /\ CanExecute(B)
    /\ failure_count < MaxCount
    /\ Becomes(OnFailure(Admit(B)))
    /\ age' = 0
    /\ losses' = losses + 1
    /\ wins' = 0
    /\ UNCHANGED <<config, healthy, outages, relaxed>>

\* POST /circuit-breaker/reset: last_failure_time is left alone.
Reset ==
    /\ Becomes(Breaker("CLOSED", 0, 0))
    /\ losses' = 0
    /\ UNCHANGED <<config, age, healthy, outages, wins, relaxed>>

\* POST /circuit-breaker/config: the state and the counts are left alone.
Configure(c) ==
    /\ config' = c
    /\ relaxed' = (relaxed \/ (state # "OPEN" /\ losses >= c.failure_threshold))
    /\ UNCHANGED <<state, failure_count, success_count, age, healthy, outages,
                   losses, wins>>

\* Time passes.
Tick ==
    /\ age <= MaxTimeout
    /\ age' = age + 1
    /\ UNCHANGED <<breaker, healthy, outages, history>>

\* The service goes down and comes back.
GoesDown ==
    /\ healthy
    /\ outages < MaxOutages
    /\ healthy' = FALSE
    /\ outages' = outages + 1
    /\ UNCHANGED <<breaker, age, history>>

ComesBack ==
    /\ ~healthy
    /\ healthy' = TRUE
    /\ UNCHANGED <<breaker, age, outages, history>>

Next ==
    \/ \E d \in Delays : CallSucceeds(d)
    \/ CallFails
    \/ Reset
    \/ \E c \in Configs : Configure(c)
    \/ Tick
    \/ GoesDown
    \/ ComesBack

Spec == Init /\ [][Next]_vars

\* The clock advances and clients keep calling.
Fairness == WF_vars(Tick) /\ WF_vars(\E d \in Delays : CallSucceeds(d))

FairSpec == Spec /\ Fairness

-----------------------------------------------------------------------------
(* Properties.                                                             *)

\* Types: in particular success_count does not go past the bound of the
\* configured thresholds, since on_success resets it as soon as one is reached.
TypeOK ==
    /\ config \in Configs
    /\ state \in States
    /\ failure_count \in 0..MaxCount
    /\ success_count \in 0..MaxCount
    /\ age \in 0..MaxTimeout + 1
    /\ healthy \in BOOLEAN
    /\ outages \in 0..MaxOutages
    /\ losses \in 0..MaxCount
    /\ wins \in 0..MaxCount
    /\ relaxed \in BOOLEAN

\* A service that has failed failure_threshold times in a row is not called
\* before the recovery timeout is over, whatever resets, failed probes and
\* changes of the configuration came before; only a configuration that sets
\* the threshold to a number of failures already reached escapes this.
Protected ==
    [][(~relaxed /\ (CallFails \/ \E d \in Delays : CallSucceeds(d))) =>
          \/ losses = 0
          \/ losses < config.failure_threshold
          \/ age > config.recovery_timeout]_vars

\* Other than by a reset, a breaker that has tripped closes only after
\* success_threshold calls in a row have succeeded.
ProbesEnough ==
    [][(state # "CLOSED" /\ state' = "CLOSED") =>
          Reset \/ wins' >= config.success_threshold]_vars

\* If the service stays up, the breaker closes and stays closed.
Recovers == <>[]healthy => <>[](state = "CLOSED")
=============================================================================
