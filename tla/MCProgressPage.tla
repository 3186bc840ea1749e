--------------------------- MODULE MCProgressPage ---------------------------
(* ProgressPage for TLC.                                                   *)
EXTENDS ProgressPage

CONSTANTS t1, t2

OneTab  == {t1}
TwoTabs == {t1, t2}
=============================================================================
