------------------------- MODULE MCFwupdtoolInstall -------------------------
(***************************************************************************)
(* FwupdtoolInstall for TLC.  A pipe of two lines fills up, four lines are *)
(* more than the pipe and the tail hold, and the .cfg files say what goes  *)
(* wrong around fwupdtool.                                                 *)
(***************************************************************************)
EXTENDS FwupdtoolInstall
=============================================================================
