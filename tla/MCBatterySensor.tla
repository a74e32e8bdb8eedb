--------------------------- MODULE MCBatterySensor ---------------------------
(* BatterySensor on small instances, for TLC.                              *)
EXTENDS BatterySensor

=============================================================================
