CONSTANTS
    Depth = 2
    Data = {0, 1}
    Zero = 0
    Gray <- GrayCode
    Flip <- FlipTop
    None = None
    Addresses = {0, 1}
    TxRing = 1
    RxRing = 2
    SocketMax = 1
    MaxRuns = 2
    MaxPackets = 1
    MaxTimers = 3
    MaxSets = 1
    NoTimer = NoTimer
SPECIFICATION MCSpec
INVARIANTS PointersInOrder FlagsHonestOnceTicked BackendIsSafe
PROPERTY ImplementsFifo
PROPERTY WordsFlow EveryRequestAnswered StopEndsTheLoop BackendKeepsGoing
