-------------------------------- MODULE Play --------------------------------
(***************************************************************************)
(* NOS-PLAY, src/play/nosplay.c: a game runs under the memory profile and  *)
(* the throttle level of its definition.  NOSPLAY calls NOSMEM, THROTTLE   *)
(* and TCTL as the user would, so that their steps are those of module     *)
(* Throttle, and keys may be pressed at any time.                          *)
(***************************************************************************)
EXTENDS Throttle

CONSTANTS Games     \* profiles: [exec : BOOLEAN, level : -1 .. 5, mem]

NoMem == "none"     \* a profile without MemProfile

ASSUME PlayAssumption ==
    \A g \in Games : g.exec \in BOOLEAN /\ g.level \in -1 .. 5

VARIABLES game,             \* the profile NOSPLAY has loaded
          we_throttled,     \* NOSPLAY has called THROTTLE to install itself
          memProfile,       \* what NOSMEM last put into CONFIG.SYS
          keyed             \* history: a hotkey since the launch

playVars == <<game, we_throttled, memProfile, keyed>>
vars == <<throttleVars, playVars>>

NoGame == [exec |-> FALSE, level |-> -1, mem |-> NoMem]

Init ==
    /\ ThrottleInit
    /\ game = NoGame /\ we_throttled = FALSE /\ memProfile = NoMem /\ keyed = FALSE

(* cmd_launch and the first step of apply_profile.                          *)
cmd_launch(g) ==
    /\ pc = "idle" /\ g.exec
    /\ pc' = "play_throttle"
    /\ game' = g /\ we_throttled' = FALSE /\ keyed' = FALSE
    /\ memProfile' = IF g.mem # NoMem THEN g.mem ELSE memProfile
    /\ UNCHANGED <<words, presets, hooks, back, locals, speed, calibrations, history>>

(* mutant: a THROTTLE that is there is left at its level *)
ApplyOnlyInstall ==
    /\ pc = "play_throttle"
    /\ \/ /\ game.level > 0 /\ find_throttle_seg = 0
          /\ throttle_install(game.level, "game")
          /\ we_throttled' = TRUE
       \/ /\ game.level <= 0 \/ find_throttle_seg # 0
          /\ pc' = "game"
          /\ UNCHANGED <<words, presets, hooks, back, locals, speed, calibrations, history,
                         we_throttled>>
    /\ UNCHANGED <<game, memProfile, keyed>>

(* The second step of apply_profile: no preset, or OFF, leaves the throttle *)
(* alone; a THROTTLE that is found is set through TCTL, another installed.  *)
(* The third, SET through system(), changes the environment of a shell that *)
(* ends with it: no variable here.                                          *)
ApplyThrottle ==
    /\ pc = "play_throttle"
    /\ \/ /\ game.level > 0 /\ find_throttle_seg = 0
          /\ throttle_install(game.level, "game")
          /\ we_throttled' = TRUE
       \/ /\ game.level > 0 /\ find_throttle_seg # 0
          /\ cmd_set(game.level, "game")
          /\ UNCHANGED we_throttled
       \/ /\ game.level <= 0
          /\ pc' = "game"
          /\ UNCHANGED <<words, presets, hooks, back, locals, speed, calibrations, history,
                         we_throttled>>
    /\ UNCHANGED <<game, memProfile, keyed>>

Quit == game' = NoGame /\ we_throttled' = FALSE /\ keyed' = FALSE

GameEnds ==
    /\ pc = "game"
    /\ \/ we_throttled /\ pc' = "play_remove" /\ UNCHANGED <<game, we_throttled, keyed>>
       \/ ~ we_throttled /\ pc' = "idle" /\ Quit
    /\ UNCHANGED <<words, presets, hooks, back, locals, speed, calibrations, history, memProfile>>

RemoveThrottle ==
    /\ pc = "play_remove"
    /\ throttle_uninstall("idle")
    /\ Quit
    /\ UNCHANGED memProfile

PressKey(k) ==
    /\ Hotkey(k)
    /\ keyed' = (game # NoGame)
    /\ UNCHANGED <<game, we_throttled, memProfile>>

Next ==
    \/ AtPrompt /\ UNCHANGED playVars
    \/ Step /\ UNCHANGED playVars
    \/ \E g \in Games : cmd_launch(g)
    \/ ApplyThrottle \/ GameEnds \/ RemoveThrottle
    \/ \E k \in Keys : PressKey(k)

Spec == Init /\ [][Next]_vars

------------------------------------------------------------------------------
(* Type invariant.                                                          *)
TypeOK ==
    /\ ThrottleTypeOK
    /\ game \in Games \cup {NoGame}
    /\ we_throttled \in BOOLEAN /\ keyed \in BOOLEAN
    /\ memProfile \in {NoMem} \cup {g.mem : g \in Games}

(* A game with a preset runs at it unless its player turned the dial: the   *)
(* THROTTLE that NOSPLAY found or installed has the level, and burns what   *)
(* CALIBRATE last gave for it; no other copy burns more unless one hides    *)
(* under another program's hook.                                            *)
GameAtItsLevel ==
    /\ TypeOK
    /\ pc = "game" /\ game.level > 0 /\ ~ keyed =>
          LET c == find_throttle_seg
          IN  /\ c # 0 /\ speed_level[c] = game.level
              /\ c \notin torn => delay_count[c] = presets[c][game.level]
              /\ others = 0 /\ c \notin torn => Burn = delay_count[c]
==============================================================================
