------------------------------ MODULE MC_Pills ------------------------------
(* Two keys give duplicate and distinct keys in a list of two pills; one  *)
(* value and the empty value tell "key" from "key=value" tokens.          *)
EXTENDS Pills

CONSTANTS k1, k2, v1, none

MC_Keys == {k1, k2}
MC_Vals == {v1}
MC_MaxPills == 2
=============================================================================
