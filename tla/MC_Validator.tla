---------------------------- MODULE MC_Validator ----------------------------
(* Three validations: a failure, a second failure over it, then a pass.   *)
EXTENDS Validator

MC_MaxChecks == 3
=============================================================================
