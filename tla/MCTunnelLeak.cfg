SPECIFICATION Spec
CONSTANTS
    ns1 = ns1
    dc1 = dc1
    dc2 = dc2
    net1 = net1
    c1 = c1
    c2 = c2
    Namespaces = {}
    DCs = {}
    Networks = {}
    BaseInterval = 1
    MaxInterval = 1
    ConsecutiveFailures = 1
    Checkers = {c1}
    MaxFaults = 1
    MaxFailures = 2
    CreateReplaces = {FALSE}
INVARIANTS
    StopClosesHandles
