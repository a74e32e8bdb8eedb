--------------------------- MODULE MCInfotainment ---------------------------
(* Infotainment on small instances, for TLC.                               *)
EXTENDS Infotainment

=============================================================================
