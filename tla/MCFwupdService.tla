--------------------------- MODULE MCFwupdService ---------------------------
(***************************************************************************)
(* FwupdService for TLC.  The .cfg files give the sets of handlers.        *)
(***************************************************************************)
EXTENDS FwupdService, TLC

(* The handlers are interchangeable: no definition tells them apart.       *)
RequestSymmetry == Permutations(Requests)
=============================================================================
