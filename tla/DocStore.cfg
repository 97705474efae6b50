SPECIFICATION FairSpec
CONSTANTS
    MaxRequests = 3
    MaxCrashes = 2
INVARIANTS TypeOK AckedIsDurable ContentKept NoGhostFile
PROPERTIES QueuedAnswered
CHECK_DEADLOCK FALSE
