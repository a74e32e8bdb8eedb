----------------------------- MODULE MCMsgQueue -----------------------------
(* MsgQueue on a small instance, for TLC.                                  *)
EXTENDS MsgQueue

=============================================================================
