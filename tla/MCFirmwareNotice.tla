-------------------------- MODULE MCFirmwareNotice --------------------------
(* Small instances of FirmwareNotice for TLC: a model value per process,     *)
(* port and firmware version.                                                *)
EXTENDS FirmwareNotice, TLC
=============================================================================
