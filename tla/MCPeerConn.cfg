SPECIFICATION Spec
CONSTANTS
    Session1 = Session1
    Session2 = Session2
    Roles = {TRUE}
    Agents <- MCAgents
    Relayed <- MCRelayed
    Watchers = {w1}
    Offers <- TwoSessions
    Pairs = {2, 3}
    Ends = {}
    MaxOffers = 2
    MaxLosses = 0
    MaxFaults = 0
INVARIANTS
    TypeOK
    EndpointMatches
    OneAgent
    ConnectedCarries
SYMMETRY SessionSymmetry
CHECK_DEADLOCK FALSE
