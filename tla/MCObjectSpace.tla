--------------------------- MODULE MCObjectSpace ---------------------------
(***************************************************************************)
(* Model-checking instance of ObjectSpace: pages of two units, so that an  *)
(* object may end in the middle of a page.                                 *)
(***************************************************************************)
EXTENDS ObjectSpace

\* Half a page, one page and three; resizing rounds them up.
MCSizes == {1, 2, 6}
=============================================================================
