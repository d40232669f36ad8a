------------------------------- MODULE MCFraming -------------------------------
(* Framing with short frames, for TLC. *)
EXTENDS Framing
===============================================================================
