------------------------------ MODULE MCSpool -------------------------------
(* Bounds for TLC: a buffer of two of which the digits take the second       *)
(* place, two numbers besides 000, one letter and the form feed.             *)
EXTENDS Spool, TLC

MCText == {"a"}
=============================================================================
