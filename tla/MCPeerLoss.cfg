SPECIFICATION Spec
CONSTANTS
    Session1 = Session1
    Session2 = Session2
    Roles = {TRUE, FALSE}
    Agents <- MCAgents
    Relayed <- MCRelayed
    Watchers = {w1, w2}
    Offers <- OneOfEach
    Pairs = {2, 3}
    Ends = {"cancel", "close"}
    MaxOffers = 1
    MaxLosses = 1
    MaxFaults = 1
INVARIANTS
    RelayWorks
    EndpointMatches
    CloseLeavesNothing
SYMMETRY WatcherSymmetry
CHECK_DEADLOCK FALSE
