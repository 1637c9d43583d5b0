------------------------------- MODULE MCI2c --------------------------------
(* The I2C controller alone.                                                *)
EXTENDS DeviceBench
=============================================================================
