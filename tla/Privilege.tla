----------------------------- MODULE Privilege -----------------------------
(* The privilege levels of RiscVCPU. *)
EXTENDS Naturals

U == 0
S == 1
M == 3
=============================================================================
