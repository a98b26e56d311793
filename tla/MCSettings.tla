------------------------------ MODULE MCSettings ------------------------------
(* A board with the stand-in ID s that is given the ID a, or s again. *)
EXTENDS Settings

CONSTANTS s, a

MCIds == {s, a}
MCStandIn == s

=============================================================================
