---------------------------- MODULE MCAdcPipeline ----------------------------
(* AdcPipeline with a ring of a few slots, for TLC. *)
EXTENDS AdcPipeline
===============================================================================
