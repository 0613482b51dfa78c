SPECIFICATION FairSpec
CONSTANTS
    InitialBackoff = 2
    MaxBackoff = 3
    Multiplier = 2
    MaxRetries = 2
    MaxStarts = 2
INVARIANTS
    TypeOK
    BackoffBounded
PROPERTIES
    StopEndsLoops
CHECK_DEADLOCK FALSE
