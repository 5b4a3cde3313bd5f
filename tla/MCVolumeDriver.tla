----------------------------- MODULE MCVolumeDriver -----------------------------
(* VolumeDriver for TLC: the names in the configurations are model values. *)
EXTENDS VolumeDriver
================================================================================
