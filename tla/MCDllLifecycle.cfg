CONSTANTS
    k1 = k1
    k2 = k2
    a1 = a1
    a2 = a2
    b1 = b1
    NoComp = NoComp
    Circuits = {k1, k2}
    Comps = {a1, a2, b1}
    Owner <- Placement
    Concurrent = TRUE
    InitMayThrow = TRUE
SPECIFICATION HistorySpec
INVARIANTS CountsMatch BracketedAlone NoOrphan NoStaleUnlessThrown
SYMMETRY Symm
