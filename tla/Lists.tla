-------------------------------- MODULE Lists -------------------------------
(***************************************************************************)
(* What the modules ask of a sequence and the community modules lack.      *)
(***************************************************************************)
EXTENDS SequencesExt

(* The elements of a sequence that are in a set, in their order.           *)
Kept(list, S) ==
    FoldLeft(LAMBDA kept, e : IF e \in S THEN Append(kept, e) ELSE kept, << >>, list)
=============================================================================
