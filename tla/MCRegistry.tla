----------------------------- MODULE MCRegistry -----------------------------
(* Bounds for TLC: three packages, two versions, a table of two entries.   *)
EXTENDS Registry, TLC

CONSTANTS p1, p2, p3

MCIds == {p1, p2, p3}
MCVersions == {1, 2}
=============================================================================
