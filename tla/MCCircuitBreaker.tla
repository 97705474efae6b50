-------------------------- MODULE MCCircuitBreaker --------------------------
(* Model checking of CircuitBreaker.                                       *)
EXTENDS CircuitBreaker

MCFailureThresholds == {-1, 1, 3}
MCRecoveryTimeouts == {-1, 0, 2}
MCSuccessThresholds == {-1, 1, 3}
=============================================================================
