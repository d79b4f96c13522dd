-------------------------- MODULE MCAutoexecRewrite --------------------------
(* Bounds for TLC: two packages, one line the user may write, a file that  *)
(* stops growing at MaxLines lines.                                        *)
EXTENDS AutoexecRewrite, TLC

CONSTANTS p1, p2, u1

MCIds == {p1, p2}
MCOwn == {u1}
==============================================================================
