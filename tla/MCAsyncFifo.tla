---------------------------- MODULE MCAsyncFifo ----------------------------
EXTENDS AsyncFifo, Bitwise, FiniteSets

\* The codes the generated C computes with ^ and >>, for a depth of 2^n.
GrayOf(p) == p ^^ shiftR(p, 1)
FlipOf(d, g) == g ^^ (3 * (d \div 2))
GrayCode == [p \in Ptr |-> GrayOf(p)]
FlipTop == [g \in Ptr |-> FlipOf(Depth, g)]

\* GrayAssumption holds of them for every depth the constructor accepts.
ASSUME GrayCodesAllDepths == \A d \in {2, 4, 8, 16, 32, 64, 128, 256} :
    /\ Cardinality({GrayOf(p) : p \in 0..(2 * d - 1)}) = 2 * d
    /\ \A p \in 0..(2 * d - 1) :
         FlipOf(d, GrayOf(p)) = GrayOf(IF p < d THEN p + d ELSE p - d)
=============================================================================
