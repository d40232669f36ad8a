------------------------------ MODULE MCTMessage ------------------------------
(* TMessage with short payloads, for TLC. *)
EXTENDS TMessage
===============================================================================
