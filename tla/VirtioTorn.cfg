CONSTANTS
    Chains <- MCChains
    Buffers = {1}
    Lengths = {1}
    RxRing = 2
    TxRing = 1
    PktMax = 2
    MaxPosts = 2
    MaxPackets = 0
    MaxResets = 0
    Bad = Bad
    Tiny = Tiny
    None = None
    Wires = {}
    Masks = {}
    Fields = {}
    Setups = {}
SPECIFICATION MCSpec
INVARIANT TxIntact
CHECK_DEADLOCK FALSE
