------------------------------ MODULE MCFetch ------------------------------
(* Bounds for TLC: the code's own, three URLs and three attempts each.     *)
EXTENDS Fetch, TLC
=============================================================================
