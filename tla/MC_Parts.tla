------------------------------ MODULE MC_Parts ------------------------------
(* Two parts tell "to the selected ones" from "to all"; two keys give a   *)
(* duplicate key within a part's list of two labels.                      *)
EXTENDS Parts

CONSTANTS k1, k2, v1, none

MC_NParts == 2
MC_Keys == {k1, k2}
MC_Vals == {v1}
MC_MaxPills == 2
=============================================================================
