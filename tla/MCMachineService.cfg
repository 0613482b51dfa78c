SPECIFICATION FairSpec
CONSTANTS
    Timeouts = {"start", "stop"}
INVARIANTS
    TypeOK
    CleanReturn
    PanicsOnlyAfterTimeout
PROPERTIES
    StopEnds
CHECK_DEADLOCK FALSE
