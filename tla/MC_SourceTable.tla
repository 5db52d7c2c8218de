--------------------------- MODULE MC_SourceTable ---------------------------
(* Two sources tell rows apart; three rows let a row above an edited row  *)
(* be removed while a row below it still exists.                          *)
EXTENDS SourceTable

CONSTANTS s1, s2

MC_Sources == {s1, s2}
MC_MaxRows == 3
=============================================================================
