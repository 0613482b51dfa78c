SPECIFICATION GuardFairSpec
CONSTANTS
    Roles = {TRUE, FALSE}
    Agents <- MCAgents
    Relayed <- MCRelayed
    Watchers = {w1}
    Offers <- MCOffers
    Pairs = {3}
    Ends = {"cancel", "close"}
    MaxOffers = 1
    MaxLosses = 0
    MaxFaults = 0
    MaxRetries = 0
INVARIANT
    GuardAwake
PROPERTY
    CloseEnds
CHECK_DEADLOCK FALSE
