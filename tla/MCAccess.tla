------------------------------ MODULE MCAccess ------------------------------
(* Access for TLC.                                                         *)
EXTENDS Access, TLC

CONSTANTS s, p1, p2

MCSettings == {None, s}

MCPasswords == {p1, p2}

(* Addresses, tokens and passwords are compared and nothing else.          *)
Symmetry == Permutations(Clients) \cup Permutations(Tokens) \cup Permutations(MCPasswords)
=============================================================================
