------------------------------- MODULE MC_Codec -------------------------------
(* Values of up to two characters: "&a" and "-a" are the shortest values  *)
(* the unanchored check accepts that the spec's pattern does not.         *)
EXTENDS Codec

MC_MaxLen == 2
MC_MaxPills == 1
=============================================================================
