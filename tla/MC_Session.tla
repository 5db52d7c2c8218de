----------------------------- MODULE MC_Session -----------------------------
(* Bounds for checking Session: two edits tell "saved" from "edited since",*)
(* two requests allow a double save or a save then a discard, one hide is *)
(* enough for a tab switch in the middle of the session.                  *)
EXTENDS Session

MC_MaxEdits == 2
MC_MaxRequests == 2
MC_MaxHides == 1
=============================================================================
