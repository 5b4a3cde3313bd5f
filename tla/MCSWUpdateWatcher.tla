--------------------------- MODULE MCSWUpdateWatcher ---------------------------
(* SWUpdateWatcher for TLC. *)
EXTENDS SWUpdateWatcher
================================================================================
