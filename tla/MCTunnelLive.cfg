SPECIFICATION FairSpec
CONSTANTS
    ns1 = ns1
    dc1 = dc1
    dc2 = dc2
    net1 = net1
    c1 = c1
    c2 = c2
    Namespaces = {ns1}
    DCs = {}
    Networks = {}
    BaseInterval = 2
    MaxInterval = 3
    ConsecutiveFailures = 2
    Checkers = {c1, c2}
    MaxFaults = 1
    MaxFailures = 3
    CreateReplaces = {TRUE, FALSE}
INVARIANTS
    StopLeavesNothing
    BackoffBounded
    Monitored
PROPERTIES
    StopReturns
    Recovers
