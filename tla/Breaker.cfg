SPECIFICATION FairSpec
CONSTANTS
    FailureThresholds <- MCFailureThresholds
    RecoveryTimeouts <- MCRecoveryTimeouts
    SuccessThresholds <- MCSuccessThresholds
    MaxTimeout = 2
    MaxCount = 5
    MaxOutages = 2
INVARIANTS TypeOK
PROPERTIES Protected ProbesEnough Recovers
