------------------------------ MODULE MCHashMap ------------------------------
(* Keys that collide at the end of the table before and after it grows. *)
EXTENDS HashMap, TLC

CONSTANTS k1, k2, k3

MCKey == {k1, k2, k3}
MCHash == k1 :> 3 @@ k2 :> 7 @@ k3 :> 7

=============================================================================
