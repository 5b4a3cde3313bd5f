--------------------------- MODULE MCDropInInstaller ---------------------------
(* DropInInstaller for TLC: the names in the configurations are model values. *)
EXTENDS DropInInstaller
================================================================================
