CONSTANTS
    DataBits = 3
    FifoDepth = 2
    RingCap = 2
    PollEvery = 2
    LaneBits = 1
    Lanes = 2
    None = None
    Serials <- MCSerials
    Bytes = {1, 6}
    Clocks <- MCClocks
    Years <- MCYears
    WordBits = 8
    ByteBits = 2
    NaN = NaN
    Values <- MCValues
    Floats <- MCFloats
    Mantissas = {2, 6}
    Widths = {1, 3, 4}
    Lengths = {2, 3}
    Latencies = {0, 1, 2}
    Devices = {"blk", "rng", "input"}
    Blocks <- MCBlocks
    Reads <- MCReads
    EventBuffers <- MCEventBuffers
    StatusChains <- MCStatusChains
    SectorSize = 2
    Size = 3
    Top = 7
    Ring = 3
    Batch = 2
    MaxPosts = 2
    MaxEvents = 4
    MaxResets = 1
    Junk = Junk
    Nothing = Nothing
    Pages = {0, 1}
    Frames = {0, 1, 2, 3}
    Map <- Scattered
    MaxStores = 2
SPECIFICATION MCSpec
INVARIANTS  TimersAreExact AdaptersAreExact
INVARIANTS DatapathIsExact StateIsExact DevicesAreExact CodeIsFresh
CHECK_DEADLOCK FALSE
