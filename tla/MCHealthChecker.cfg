SPECIFICATION FairSpec
CONSTANTS
    ConsecutiveFailures = 2
    MaxStarts = 2
    MaxFailures = 3
INVARIANTS
    NoAbandonedWait
    StopClosesOnce
PROPERTIES
    StoppedForGoodEndsLoops
CHECK_DEADLOCK FALSE
