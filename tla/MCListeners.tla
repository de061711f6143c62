----------------------------- MODULE MCListeners -----------------------------
(* Listeners with a few connections, for TLC.                              *)
EXTENDS Listeners
=============================================================================
