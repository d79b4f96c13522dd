------------------------------- MODULE MCPlay -------------------------------
(* Bounds for TLC: room for two copies, one machine, games with and without a level.   *)
EXTENDS Play, TLC

MCCopies == {1, 2}
MCFast == {70000}
MCGames == {[exec |-> TRUE, level |-> -1, mem |-> "EMS"],
            [exec |-> TRUE, level |-> 0, mem |-> "none"],
            [exec |-> TRUE, level |-> 4, mem |-> "none"],
            [exec |-> FALSE, level |-> 4, mem |-> "none"]}
=============================================================================
