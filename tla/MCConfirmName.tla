---------------------------- MODULE MCConfirmName ---------------------------
(***************************************************************************)
(* ConfirmName for TLC.  Four characters are enough for a word, a run of   *)
(* blanks, a glyph inside a word and both ends to strip.                   *)
(***************************************************************************)
EXTENDS ConfirmName
=============================================================================
