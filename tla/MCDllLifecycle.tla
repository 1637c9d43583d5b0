--------------------------- MODULE MCDllLifecycle ---------------------------
(* Two circuits that share a library: one with two components, one with one. *)
EXTENDS DllHistory, TLC

CONSTANTS k1, k2, a1, a2, b1

\* Where each component goes, and the two that may be swapped.
Placement == (a1 :> k1) @@ (a2 :> k1) @@ (b1 :> k2)
Symm == Permutations({a1, a2})
=============================================================================
