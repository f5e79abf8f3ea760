--------------------------- MODULE MCSettingSync ---------------------------
(* Instances of SettingSync for TLC.                                       *)
EXTENDS SettingSync, TLC
===========================================================================
