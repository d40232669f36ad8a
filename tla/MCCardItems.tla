------------------------------ MODULE MCCardItems ------------------------------
(* CardItems with narrow registers, for TLC. *)
EXTENDS CardItems

\* The trigger options and the ranges are 8 bits wide, the DIO registers 32.
MCWidth == [r \in Registers |-> IF r \in {"trigger", "range"} THEN {0} ELSE {0, 1}]

=============================================================================
