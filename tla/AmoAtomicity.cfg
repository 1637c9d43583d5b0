SPECIFICATION MCSpec
CONSTANTS
    Cpus = {0}
    Dmas = {1}
    Virtios = {}
    Slaves = {0}
    Words = {0, 1}
    Values = {0, 1}
    SlaveOf <- BothInOne
    Orders <- AllOrders
    WalkOrders = {}
    None = None
    ByteBits = 3
    PageBytes = 8
    Fill <- MCFill
    Accesses <- NoAccesses
    Roots = {0, 1}
    Tops = {0, 1}
    Lows = {0, 1}
    Tables = {0}
    Asid <- MCAsid
    TopEntries <- MCTop
    LowEntries <- MCLow
    MaxEdits = 0
    Boot <- MCBoot
    Fault = Fault
    Addrs <- MCAddrs
    Cacheable <- MCCacheable
    LineWords = 2
    ByteOf = {0, 1}
    Lanes = {0, 1}
    Writes = {}
    Foreign = {}
    Nil = Nil
PROPERTY AmoAtomic
CHECK_DEADLOCK FALSE
