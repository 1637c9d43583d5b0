INIT I2cBenchInit
NEXT I2cEdge
CONSTANTS
    DataBits = 3
    FifoDepth = 2
    RingCap = 2
    PollEvery = 2
    LaneBits = 1
    Lanes = 2
    None = None
    Serials = {}
    Bytes = {1, 6}
    Clocks = {}
    Years = {}
INVARIANT I2cSendsWhatWasWritten
CHECK_DEADLOCK FALSE
