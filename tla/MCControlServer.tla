--------------------------- MODULE MCControlServer ---------------------------
(* ControlServer with a few clients, for TLC. *)
EXTENDS ControlServer
===============================================================================
