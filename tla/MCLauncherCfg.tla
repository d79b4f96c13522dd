---------------------------- MODULE MCLauncherCfg ----------------------------
(* Bounds for TLC: two packages, the first named as the second begins, one  *)
(* menu line the user may write, a file that stops growing at MaxItems      *)
(* lines.                                                                   *)
EXTENDS LauncherCfg

CONSTANTS p1, p2, u1

MCIds == {p1, p2}
MCOwn == {u1}
MCStems == [p \in MCIds |-> IF p = p1 THEN {p1} ELSE MCIds]
==============================================================================
