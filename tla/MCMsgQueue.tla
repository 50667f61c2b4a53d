----------------------------- MODULE MCMsgQueue -----------------------------
(* MsgQueue for TLC: the threads are model values of the configuration.     *)
(* They are not declared symmetric, since liveness is checked.              *)
EXTENDS MsgQueue
=============================================================================
