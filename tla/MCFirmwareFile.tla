--------------------------- MODULE MCFirmwareFile ---------------------------
(* FirmwareFile for TLC.                                                   *)
EXTENDS FirmwareFile
=============================================================================
