CONSTANTS
    Chains <- MCChains
    Buffers = {Tiny, 1}
    Lengths = {2}
    RxRing = 2
    TxRing = 1
    PktMax = 2
    MaxPosts = 2
    MaxPackets = 2
    MaxResets = 1
    Bad = Bad
    Tiny = Tiny
    None = None
    Wires <- MCWires
    Masks <- MCMasks
    Fields <- MCFields
    Setups <- MCSetups
SPECIFICATION MCSpec
INVARIANTS InOrder SignalsArrive SentIsReported IntactUnlessOverrun
INVARIANTS InterruptsAreSeen HandlersReturn
CHECK_DEADLOCK FALSE
