------------------------ MODULE CircuitBreakerProofs ------------------------
(***************************************************************************)
(* Theorems about CircuitBreaker, for every set of configurations and      *)
(* every bound.                                                            *)
(***************************************************************************)
EXTENDS CircuitBreaker, TLAPS

\* The fields of a state of the breaker.
LEMMA BreakerFields ==
    ASSUME NEW s, NEW f, NEW n
    PROVE  /\ Breaker(s, f, n).state = s
           /\ Breaker(s, f, n).failures = f
           /\ Breaker(s, f, n).successes = n
  BY DEF Breaker

\* The thresholds of a configuration are integers, the counts of the breaker
\* natural numbers.
LEMMA Counts ==
    ASSUME TypeOK
    PROVE  /\ config.success_threshold \in Int /\ config.success_threshold <= MaxCount
           /\ config.failure_threshold \in Int
           /\ failure_count \in 0..MaxCount /\ failure_count \in Nat
           /\ success_count \in 0..MaxCount /\ success_count \in Nat
           /\ losses \in 0..MaxCount /\ losses \in Nat
           /\ wins \in 0..MaxCount /\ wins \in Nat
           /\ age \in 0..MaxTimeout + 1 /\ outages \in 0..MaxOutages
  <1>1. /\ config.success_threshold \in SuccessThresholds
        /\ config.failure_threshold \in FailureThresholds
    BY DEF TypeOK, Configs
  <1>2. /\ config.success_threshold \in Int /\ config.success_threshold <= MaxCount
        /\ config.failure_threshold \in Int
    BY <1>1, ConfigAssumption
  <1>3. /\ failure_count \in 0..MaxCount /\ success_count \in 0..MaxCount
        /\ losses \in 0..MaxCount /\ wins \in 0..MaxCount
        /\ age \in 0..MaxTimeout + 1 /\ outages \in 0..MaxOutages
    BY DEF TypeOK
  <1>4. QED
    BY <1>2, <1>3, BreakerBoundsAssumption

\* What a call that succeeds leaves of the breaker.
LEMMA SuccessEffect ==
    ASSUME TypeOK, Becomes(OnSuccess(Admit(B)))
    PROVE  \/ /\ state = "CLOSED" /\ state' = "CLOSED"
              /\ failure_count' = 0 /\ success_count' = success_count
           \/ /\ state # "CLOSED" /\ state' = "CLOSED"
              /\ failure_count' = 0 /\ success_count' = 0
              /\ (IF state = "OPEN" THEN 0 ELSE success_count) + 1 >= config.success_threshold
           \/ /\ state # "CLOSED" /\ state' = "HALF_OPEN"
              /\ failure_count' = failure_count
              /\ success_count' = (IF state = "OPEN" THEN 0 ELSE success_count) + 1
              /\ success_count' < config.success_threshold
  <1>1. CASE state = "CLOSED"
    <2>1. Admit(B) = Breaker("CLOSED", failure_count, success_count)
      BY <1>1, BreakerFields DEF Admit, B
    <2>2. OnSuccess(Admit(B)) = Breaker("CLOSED", 0, success_count)
      BY <2>1, BreakerFields DEF OnSuccess
    <2>3. QED
      BY <1>1, <2>2, BreakerFields DEF Becomes
  <1>2. CASE state # "CLOSED"
    <2> DEFINE n == IF state = "OPEN" THEN 0 ELSE success_count
    <2>1. Admit(B) = Breaker("HALF_OPEN", failure_count, n)
      BY <1>2, BreakerFields DEF Admit, B, TypeOK, States
    <2>2. n \in Nat /\ config.success_threshold \in Int
      BY Counts
    <2> HIDE DEF n
    <2>3. CASE n + 1 >= config.success_threshold
      <3>1. OnSuccess(Admit(B)) = Breaker("CLOSED", 0, 0)
        BY <2>1, <2>2, <2>3, BreakerFields DEF OnSuccess
      <3>2. QED
        BY <1>2, <2>3, <3>1, BreakerFields DEF Becomes, n
    <2>4. CASE n + 1 < config.success_threshold
      <3>1. OnSuccess(Admit(B)) = Breaker("HALF_OPEN", failure_count, n + 1)
        BY <2>1, <2>2, <2>4, BreakerFields DEF OnSuccess
      <3>2. QED
        BY <1>2, <2>4, <3>1, BreakerFields DEF Becomes, n
    <2>5. QED
      BY <2>2, <2>3, <2>4
  <1>3. QED
    BY <1>1, <1>2

\* What a call that fails leaves of the breaker.
LEMMA FailureEffect ==
    ASSUME TypeOK, Becomes(OnFailure(Admit(B)))
    PROVE  /\ failure_count' = failure_count + 1
           /\ success_count' \in {0, success_count}
           /\ \/ state' = "OPEN"
              \/ state = "CLOSED" /\ state' = "CLOSED"
                 /\ failure_count + 1 < config.failure_threshold
  <1>1. CASE state = "CLOSED"
    <2>1. Admit(B) = Breaker("CLOSED", failure_count, success_count)
      BY <1>1, BreakerFields DEF Admit, B
    <2>2. failure_count + 1 \in Nat /\ config.failure_threshold \in Int
      BY Counts
    <2>3. CASE failure_count + 1 >= config.failure_threshold
      <3>1. OnFailure(Admit(B)) = Breaker("OPEN", failure_count + 1, success_count)
        BY <2>1, <2>3, BreakerFields DEF OnFailure
      <3>2. QED
        BY <3>1, BreakerFields DEF Becomes
    <2>4. CASE failure_count + 1 < config.failure_threshold
      <3>1. OnFailure(Admit(B)) = Breaker("CLOSED", failure_count + 1, success_count)
        BY <2>1, <2>2, <2>4, BreakerFields DEF OnFailure
      <3>2. QED
        BY <1>1, <2>4, <3>1, BreakerFields DEF Becomes
    <2>5. QED
      BY <2>2, <2>3, <2>4
  <1>2. CASE state # "CLOSED"
    <2>1. \E n : Admit(B) = Breaker("HALF_OPEN", failure_count, n)
      BY <1>2, BreakerFields DEF Admit, B, TypeOK, States
    <2>2. OnFailure(Admit(B)) = Breaker("OPEN", failure_count + 1, 0)
      BY <2>1, BreakerFields DEF OnFailure
    <2>3. QED
      BY <2>2, BreakerFields DEF Becomes
  <1>3. QED
    BY <1>1, <1>2

-----------------------------------------------------------------------------
(* The invariant: what the breaker counts and what has happened.           *)

\* The breaker has counted at least the failures in a row.  Closed, it has
\* not seen failure_threshold of them, unless the configuration was relaxed.
\* Half-open, the last call has succeeded, and so have as many calls in a
\* row as it has counted.
BreakerInv ==
    /\ losses <= failure_count
    /\ (state = "CLOSED" /\ ~relaxed) => (losses = 0 \/ losses < config.failure_threshold)
    /\ state = "HALF_OPEN" => losses = 0 /\ success_count <= wins

\* The types and the invariant hold initially.
LEMMA BreakerInit == Init => TypeOK /\ BreakerInv
  <1> SUFFICES ASSUME Init
               PROVE  TypeOK /\ BreakerInv
    OBVIOUS
  <1>1. /\ 0 \in 0..MaxCount /\ 0 \in 0..MaxOutages
        /\ MaxTimeout + 1 \in 0..MaxTimeout + 1
    BY BreakerBoundsAssumption
  <1>2. TypeOK
    BY <1>1 DEF Init, TypeOK, States
  <1>3. BreakerInv
    <2>1. losses = 0 /\ failure_count = 0 /\ state = "CLOSED"
      BY DEF Init
    <2>2. QED
      BY <2>1 DEF BreakerInv
  <1>4. QED
    BY <1>2, <1>3

\* Every step preserves the types and the invariant.
LEMMA BreakerStep == TypeOK /\ BreakerInv /\ [Next]_vars => TypeOK' /\ BreakerInv'
  <1> SUFFICES ASSUME TypeOK, BreakerInv, [Next]_vars
               PROVE  TypeOK' /\ BreakerInv'
    OBVIOUS
  <1> USE ConfigAssumption, BreakerBoundsAssumption
  <1>0. /\ config.success_threshold \in Int /\ config.success_threshold <= MaxCount
        /\ config.failure_threshold \in Int
        /\ failure_count \in 0..MaxCount /\ success_count \in 0..MaxCount
        /\ losses \in 0..MaxCount /\ wins \in 0..MaxCount /\ age \in 0..MaxTimeout + 1
        /\ outages \in 0..MaxOutages
    BY Counts
  <1>1. ASSUME NEW d \in Delays, CallSucceeds(d)
        PROVE  TypeOK' /\ BreakerInv'
    <2>1. /\ losses' = 0 /\ wins' = IF wins < MaxCount THEN wins + 1 ELSE wins
          /\ age' = Saturated(age + d)
          /\ UNCHANGED <<config, healthy, outages, relaxed>>
          /\ Becomes(OnSuccess(Admit(B)))
      BY <1>1 DEF CallSucceeds
    <2>2. age' \in 0..MaxTimeout + 1
      BY <1>0, <2>1 DEF Saturated, Delays
    <2>3. state' \in States /\ failure_count' \in 0..MaxCount /\ success_count' \in 0..MaxCount
      BY <1>0, <2>1, SuccessEffect DEF States
    <2>4. wins' \in 0..MaxCount /\ (wins' = wins + 1 \/ wins' = MaxCount)
      BY <1>0, <2>1
    <2>5. TypeOK'
      BY <1>0, <2>1, <2>2, <2>3, <2>4 DEF TypeOK
    <2>6. state' = "HALF_OPEN" => success_count' <= wins'
      BY <1>0, <2>1, <2>3, <2>4, SuccessEffect DEF BreakerInv, TypeOK, States
    <2>7. QED
      BY <2>1, <2>3, <2>5, <2>6 DEF BreakerInv
  <1>2. CASE CallFails
    <2>1. /\ losses' = losses + 1 /\ wins' = 0 /\ age' = 0 /\ failure_count < MaxCount
          /\ UNCHANGED <<config, healthy, outages, relaxed>>
          /\ Becomes(OnFailure(Admit(B)))
      BY <1>2 DEF CallFails
    <2>2. /\ failure_count' = failure_count + 1
          /\ success_count' \in {0, success_count}
          /\ \/ state' = "OPEN"
             \/ state' = "CLOSED" /\ failure_count + 1 < config.failure_threshold
      BY <2>1, FailureEffect
    <2>3. losses <= failure_count
      BY DEF BreakerInv
    <2>4. TypeOK'
      BY <1>0, <2>1, <2>2, <2>3 DEF TypeOK, States
    <2>5. QED
      BY <1>0, <2>1, <2>2, <2>3, <2>4 DEF BreakerInv
  <1>3. CASE Reset
    <2>1. /\ state' = "CLOSED" /\ failure_count' = 0 /\ success_count' = 0 /\ losses' = 0
          /\ UNCHANGED <<config, age, healthy, outages, wins, relaxed>>
      BY <1>3, BreakerFields DEF Reset, Becomes
    <2>2. TypeOK'
      BY <1>0, <2>1 DEF TypeOK, States
    <2>3. QED
      BY <2>1, <2>2 DEF BreakerInv
  <1>4. ASSUME NEW c \in Configs, Configure(c)
        PROVE  TypeOK' /\ BreakerInv'
    <2>1. /\ config' = c
          /\ relaxed' = (relaxed \/ (state # "OPEN" /\ losses >= c.failure_threshold))
          /\ UNCHANGED <<state, failure_count, success_count, age, healthy, outages,
                         losses, wins>>
      BY <1>4 DEF Configure
    <2>2. TypeOK'
      BY <2>1 DEF TypeOK
    <2>3. c.failure_threshold \in Int
      BY DEF Configs
    <2>4. ~relaxed' => ~relaxed /\ (state = "OPEN" \/ losses < c.failure_threshold)
      <3>1. losses >= c.failure_threshold \/ losses < c.failure_threshold
        BY <1>0, <2>3
      <3>2. QED
        BY <2>1, <3>1, Zenon
    <2>5. QED
      BY <2>1, <2>2, <2>4 DEF BreakerInv
  <1>5. CASE Tick
    BY <1>0, <1>5 DEF Tick, breaker, history, TypeOK, BreakerInv
  <1>6. CASE GoesDown
    <2>1. outages' \in 0..MaxOutages
      BY <1>0, <1>6 DEF GoesDown
    <2>2. QED
      BY <1>6, <2>1 DEF GoesDown, breaker, history, TypeOK, BreakerInv
  <1>7. CASE ComesBack
    BY <1>7 DEF ComesBack, breaker, history, TypeOK, BreakerInv
  <1>8. CASE UNCHANGED vars
    BY <1>8 DEF vars, breaker, history, TypeOK, BreakerInv
  <1>9. QED
    BY <1>1, <1>2, <1>3, <1>4, <1>5, <1>6, <1>7, <1>8 DEF Next

\* The types and the invariant hold at all times.
LEMMA BreakerInvHolds == Spec => [](TypeOK /\ BreakerInv)
  BY BreakerInit, BreakerStep, PTL DEF Spec

\* The fields and counts of the breaker have their types at all times.
THEOREM BreakerTypeCorrect == Spec => []TypeOK
  BY BreakerInvHolds, PTL

\* The breaker lets no call through to a service that has failed
\* failure_threshold times in a row before the recovery timeout is over.
THEOREM ProtectedHolds == Spec => Protected
  <1>1. ASSUME TypeOK, BreakerInv, ~relaxed, CanExecute(B)
        PROVE  \/ losses = 0
               \/ losses < config.failure_threshold
               \/ age > config.recovery_timeout
    BY <1>1, BreakerFields DEF TypeOK, States, BreakerInv, CanExecute, B
  <1>2. TypeOK /\ BreakerInv /\ [Next]_vars =>
          [(~relaxed /\ (CallFails \/ \E d \in Delays : CallSucceeds(d))) =>
              \/ losses = 0
              \/ losses < config.failure_threshold
              \/ age > config.recovery_timeout]_vars
    BY <1>1 DEF CallFails, CallSucceeds
  <1>3. QED
    BY BreakerInvHolds, <1>2, PTL DEF Spec, Protected

\* Unless it is reset, a breaker that has tripped closes only after
\* success_threshold calls in a row have succeeded.
THEOREM ProbesEnoughHolds == Spec => ProbesEnough
  <1>1. ASSUME TypeOK, BreakerInv, [Next]_vars, state # "CLOSED", state' = "CLOSED"
        PROVE  Reset \/ wins' >= config.success_threshold
    <2> USE ConfigAssumption, BreakerBoundsAssumption
    <2>1. ASSUME NEW d \in Delays, CallSucceeds(d)
          PROVE  wins' >= config.success_threshold
      <3>1. /\ config.success_threshold \in Int /\ config.success_threshold <= MaxCount
            /\ success_count \in 0..MaxCount /\ wins \in 0..MaxCount
        BY <1>1 DEF TypeOK, Configs
      <3>2. (IF state = "OPEN" THEN 0 ELSE success_count) + 1 >= config.success_threshold
        BY <1>1, <2>1, SuccessEffect DEF CallSucceeds
      <3>3. (IF state = "OPEN" THEN 0 ELSE success_count) <= wins
        BY <1>1, <3>1 DEF BreakerInv, TypeOK, States
      <3>4. wins' = IF wins < MaxCount THEN wins + 1 ELSE wins
        BY <2>1 DEF CallSucceeds
      <3>5. QED
        BY <3>1, <3>2, <3>3, <3>4
    <2>2. CASE CallFails
      BY <1>1, <2>2, FailureEffect DEF CallFails
    <2>3. ASSUME NEW c \in Configs, Configure(c)
          PROVE  FALSE
      BY <1>1, <2>3 DEF Configure
    <2>4. CASE Tick \/ GoesDown \/ ComesBack \/ UNCHANGED vars
      BY <1>1, <2>4 DEF Tick, GoesDown, ComesBack, vars, breaker
    <2>5. QED
      BY <1>1, <2>1, <2>2, <2>3, <2>4 DEF Next
  <1>2. TypeOK /\ BreakerInv /\ [Next]_vars =>
          [(state # "CLOSED" /\ state' = "CLOSED") =>
              Reset \/ wins' >= config.success_threshold]_vars
    BY <1>1
  <1>3. QED
    BY BreakerInvHolds, <1>2, PTL DEF Spec, ProbesEnough
=============================================================================
