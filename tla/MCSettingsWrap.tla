--------------------------- MODULE MCSettingsWrap ---------------------------
(* Instances of SettingsWrap for TLC. *)
EXTENDS SettingsWrap
=============================================================================
