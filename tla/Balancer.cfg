SPECIFICATION Spec
CONSTANTS
    N = 3
    MaxWeight = 3
    Weights <- MCWeights
    RRPeriod = 6
INVARIANTS TypeOK LoopEnds FairShare
