---------------------------- MODULE MCHartFetch ----------------------------
EXTENDS HartFetch
Scattered == (0 :> 2) @@ (1 :> 0)
=============================================================================
