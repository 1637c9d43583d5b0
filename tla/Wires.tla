------------------------------- MODULE Wires --------------------------------
(* One-bit nets.                                                             *)
Bit == {0, 1}
Bool(p) == IF p THEN 1 ELSE 0
=============================================================================
