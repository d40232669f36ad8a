------------------------------- MODULE MCAdcScan -------------------------------
(* AdcScan with a few channels, for TLC. *)
EXTENDS AdcScan

=============================================================================
