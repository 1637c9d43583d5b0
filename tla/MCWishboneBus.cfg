SPECIFICATION MCSpec
CONSTANTS
    Cpus = {0}
    Dmas = {1}
    Virtios = {}
    Slaves = {0, 1}
    Words = {0, 1}
    Values = {0, 1}
    SlaveOf <- Decode
    Orders <- AllOrders
    WalkOrders <- CpuFirstOrders
    None = None
    ByteBits = 3
    PageBytes = 8
    Fill <- MCFill
    Accesses <- MCAccesses
    Roots = {0, 1}
    Tops = {0, 1}
    Lows = {0, 1}
    Tables = {0}
    Asid <- MCAsid
    TopEntries <- MCTop
    LowEntries <- MCLow
    MaxEdits = 2
    Boot <- MCBoot
    Fault = Fault
    Addrs <- MCAddrs
    Cacheable <- MCCacheable
    LineWords = 2
    ByteOf = {0, 1}
    Lanes = {0, 1}
    Writes <- MCWrites
    Foreign <- MCForeign
    Nil = Nil
INVARIANTS AccessesAreExact TranslationIsSound
PROPERTIES IsSharedMemory ReadsAreCurrent
CHECK_DEADLOCK FALSE
