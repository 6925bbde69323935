---------------------------- MODULE MCConfigEntry ----------------------------
(* An instance of ConfigEntry for TLC. *)
EXTENDS ConfigEntry, TLC

CONSTANTS car, van, plain, edited
=============================================================================
