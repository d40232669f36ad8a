------------------------------ MODULE MCShutdown ------------------------------
(* Shutdown with a few messages, for TLC. *)
EXTENDS Shutdown
===============================================================================
