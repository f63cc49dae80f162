---------------------------- MODULE MCConfigSaves ----------------------------
(* ConfigSaves for TLC.                                                     *)
EXTENDS ConfigSaves
=============================================================================
