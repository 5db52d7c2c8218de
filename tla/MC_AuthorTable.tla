--------------------------- MODULE MC_AuthorTable ---------------------------
(* Two authors tell rows apart; three rows let a row above an edited row  *)
(* be removed while a row below it still exists.                          *)
EXTENDS AuthorTable

CONSTANTS a1, a2

MC_Authors == {a1, a2}
MC_MaxRows == 3
\* updateAuthor's email pattern rejects markup.
MC_MarkupPasses == FALSE
=============================================================================
