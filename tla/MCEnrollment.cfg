SPECIFICATION Spec
CONSTANTS
    k1 = k1
    k2 = k2
    k3 = k3
    Keys = {k1, k2, k3}
    Deployments = {"setupKey", "cert"}
    MaxFaults = 2
SYMMETRY Symmetry
INVARIANTS
    TypeOK
    OneIdentity
    SetupKeyRemoved
