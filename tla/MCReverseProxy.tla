----------------------------- MODULE MCReverseProxy -----------------------------
(* ReverseProxy for TLC: the goroutines and the route are model values. *)
EXTENDS ReverseProxy
================================================================================
