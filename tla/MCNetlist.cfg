CONSTANTS
    t1 = t1
    m = m
    fwd = fwd
    bwd = bwd
    n1 = n1
    n2 = n2
    i1 = i1
    None = None
    MaxId = 3
    Comps = {t1, m, fwd, bwd}
    Nets = {n1, n2, i1}
    PinsOf <- MCPinsOf
    Blueprints <- MCBlueprints
    N = 2
    Contexts = {machine, supervisor}
    Levels = {0, 1}
    NoAccess = NoAccess
SPECIFICATION MCSpec
INVARIANTS NoShort DerivedIsCurrent OneHandler NothingIsLost
PROPERTIES FailureLeavesNoTrace ImplementsGateway
SYMMETRY MCSymmetry
