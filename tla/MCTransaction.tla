----------------------------- MODULE MCTransaction -----------------------------
(* Transaction for TLC: the goroutines and the hooks are model values. *)
EXTENDS Transaction, TLC

Symmetry == Permutations(Callers) \cup Permutations(Hooks)
================================================================================
