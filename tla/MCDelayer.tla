------------------------------ MODULE MCDelayer ------------------------------
(* Delayer with two calls, for TLC.                                        *)
EXTENDS Delayer
=============================================================================
