---------------------------- MODULE MCFlashPolicy ---------------------------
(***************************************************************************)
(* FlashPolicy for TLC.  Version 2 is an upgrade: two remotes offer a file *)
(* of component c1, one of them unsigned, and a third file of it names no  *)
(* component.  Version 1 is not an upgrade.                                *)
(***************************************************************************)
EXTENDS FlashPolicy

CONSTANTS f1, f2, f3, f4, c1

File(version, component, file, has) ==
    [version |-> version, component |-> component, file |-> file,
     upgrade |-> version = 2, has |-> has]

MCReleases ==
    {File(2, c1, f1, Evidence),
     File(2, c1, f2, Evidence \ {"trusted-metadata"}),
     File(2, None, f3, Evidence),
     File(1, c1, f4, Evidence)}

MCLists == {list \in BoundedSeq(MCReleases, 2) : IsInjective(list)}
=============================================================================
