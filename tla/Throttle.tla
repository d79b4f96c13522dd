------------------------------ MODULE Throttle ------------------------------
(***************************************************************************)
(* NOS-THROTTLE: the resident THROTTLE.COM, src/throttle/throttle.asm, and *)
(* TCTL, src/throttle/tctl.c, which writes into its memory.  DOS runs one  *)
(* program at a time, but the keyboard interrupt cuts in between any two   *)
(* instructions of a program and changes the same two words.  The hooks    *)
(* themselves run with interrupts off and are single steps.  Module Play   *)
(* adds the program that calls both and puts the steps together.           *)
(***************************************************************************)
EXTENDS Integers, Sequences, FiniteSets, FiniteSetsExt, Functions

CONSTANTS Copies,           \* segments THROTTLE.COM can be loaded at, 1 .. n
          Speeds,           \* TCTL's loop count for a whole tick, per machine
          MaxOther,         \* bound on resident programs of others
          MaxCalibrations   \* bound on CALIBRATE

ASSUME ThrottleAssumption ==
    /\ IsFiniteSet(Copies) /\ Copies \subseteq Nat \ {0}
    /\ \A c \in Copies : 1 .. c \subseteq Copies
    /\ Speeds \subseteq Nat \ {0}
    /\ {MaxOther, MaxCalibrations} \subseteq Nat

Levels == 0 .. 5
Word == 65536
Other == 0                  \* a hook that is not a THROTTLE's

VARIABLES int08, int09,     \* the two hook chains, the newest first, BIOS left out
          speed_level, delay_count, presets,    \* the words of each copy
          pc, back,         \* the running program and where its caller goes on
          seg, level,       \* the copy and the level it works on
          max_c, i,         \* CALIBRATE: the count, the preset to write next
          speed,            \* of this machine
          others, calibrations,
          want, lost, torn  \* history: the level last asked for, and the copies
                            \* on which a key fell between two steps of a program

words == <<speed_level, delay_count>>
hooks == <<int08, int09, others>>
locals == <<seg, level, max_c, i>>
history == <<want, lost, torn>>
throttleVars == <<words, presets, hooks, pc, back, locals, speed, calibrations, history>>

Defaults == [l \in Levels |-> <<0, 0, 5400, 10800, 16200, 17900>>[l + 1]]

ThrottleInit ==
    /\ int08 = <<>> /\ int09 = <<>> /\ others = 0
    /\ speed_level = [c \in Copies |-> 0]
    /\ delay_count = [c \in Copies |-> 0]
    /\ presets = [c \in Copies |-> Defaults]
    /\ pc = "idle" /\ back = "idle"
    /\ seg = 0 /\ level = 0 /\ max_c = 0 /\ i = 0
    /\ speed \in Speeds
    /\ calibrations = 0
    /\ want = [c \in Copies |-> 0] /\ lost = {} /\ torn = {}

------------------------------------------------------------------------------
(* Only the newest hook of INT 08h is looked at.                            *)
find_throttle_seg == IF int08 # <<>> /\ Head(int08) \in Copies THEN Head(int08) ELSE 0

(* DOS loads a program behind the ones that stayed resident.                *)
FreeSeg == Cardinality(Range(int08) \cap Copies) + 1

Hooked == Range(int09) \cap Copies

Exit ==
    /\ pc' = back /\ back' = "idle"
    /\ seg' = 0 /\ level' = 0 /\ max_c' = 0 /\ i' = 0

(* mutant: only the newest copy takes the key *)
TouchedHead(k) ==
    {c \in Hooked : /\ c = Max(Hooked)
                    /\ k = "up" => speed_level[c] < 5
                    /\ k = "down" => speed_level[c] > 0}

(* The copies whose words a hotkey writes: at either end it writes none.    *)
Touched(k) ==
    {c \in Hooked : /\ k = "up" => speed_level[c] < 5
                    /\ k = "down" => speed_level[c] > 0}

Turned(k, l) == [up |-> l + 1, down |-> l - 1, off |-> 0][k]

(* int09_hook: every copy on the chain handles the key, both words at once. *)
Hotkey(k) ==
    /\ Hooked # {}
    /\ speed_level' = [c \in Copies |-> IF c \in Touched(k) THEN Turned(k, speed_level[c])
                                        ELSE speed_level[c]]
    /\ delay_count' = [c \in Copies |-> IF c \in Touched(k) THEN presets[c][speed_level'[c]]
                                        ELSE delay_count[c]]
    /\ want' = [c \in Copies |-> IF c \in Hooked THEN speed_level'[c] ELSE want[c]]
    /\ lost' = (lost \ Hooked) \cup
               (IF pc \in {"set_level", "init_level"} THEN {seg} \cap Hooked ELSE {})
    /\ torn' = (torn \ Touched(k)) \cup
               (IF pc \in {"set_delay", "init_delay"} THEN {seg} \cap Touched(k) ELSE {})
    /\ UNCHANGED <<presets, hooks, pc, back, locals, speed, calibrations>>

------------------------------------------------------------------------------
(* THROTTLE /L<n>: nothing when the newest hook of INT 08h is a THROTTLE.   *)
throttle_install(l, caller) ==
    /\ pc' = IF find_throttle_seg = 0 /\ FreeSeg \in Copies THEN "hook08" ELSE caller
    /\ back' = IF pc' = "hook08" THEN caller ELSE "idle"
    /\ seg' = IF pc' = "hook08" THEN FreeSeg ELSE 0
    /\ level' = IF pc' = "hook08" THEN l ELSE 0
    /\ UNCHANGED <<words, presets, hooks, max_c, i, speed, calibrations, history>>

Hook08 ==
    /\ pc = "hook08" /\ pc' = "hook09"
    /\ int08' = <<seg>> \o int08
    /\ UNCHANGED <<words, presets, int09, others, back, locals, speed, calibrations, history>>

(* mutant: INT 09h is left alone *)
HookNone ==
    /\ pc = "hook09" /\ pc' = "init_level"
    /\ want' = [want EXCEPT ![seg] = level]
    /\ UNCHANGED <<words, presets, hooks, back, locals, speed, calibrations, lost, torn>>

Hook09 ==
    /\ pc = "hook09" /\ pc' = "init_level"
    /\ int09' = <<seg>> \o int09
    /\ want' = [want EXCEPT ![seg] = level]
    /\ UNCHANGED <<words, presets, int08, others, back, locals, speed, calibrations, lost, torn>>

(* The hooks are live before the words are set.                             *)
InitLevel ==
    /\ pc = "init_level" /\ pc' = "init_delay"
    /\ speed_level' = [speed_level EXCEPT ![seg] = level]
    /\ torn' = torn \ {seg}
    /\ UNCHANGED <<delay_count, presets, hooks, back, locals, speed, calibrations, want, lost>>

InitDelay ==
    /\ pc = "init_delay"
    /\ delay_count' = [delay_count EXCEPT ![seg] = presets[seg][level]]
    /\ Exit
    /\ UNCHANGED <<speed_level, presets, hooks, speed, calibrations, history>>

(* THROTTLE /U compares the segment of the vector with its own, which is    *)
(* that of the program just loaded and never the resident one.              *)
throttle_uninstall(caller) ==
    /\ pc' = caller /\ back' = "idle"
    /\ int08' = IF int08 # <<>> /\ Head(int08) = FreeSeg THEN Tail(int08) ELSE int08
    /\ int09' = IF int08 # <<>> /\ Head(int08) = FreeSeg THEN Tail(int09) ELSE int09
    /\ UNCHANGED <<words, presets, others, locals, speed, calibrations, history>>

------------------------------------------------------------------------------
(* TCTL SET                                                                 *)
cmd_set(l, caller) ==
    /\ seg' = find_throttle_seg
    /\ \/ /\ seg' # 0
          /\ pc' = "set_level" /\ back' = caller
          /\ level' = l
          /\ want' = [want EXCEPT ![seg'] = l]
          /\ lost' = lost \ {seg'}
       \/ /\ seg' = 0
          /\ pc' = caller /\ back' = "idle"
          /\ UNCHANGED <<level, want, lost>>
    /\ UNCHANGED <<words, presets, hooks, max_c, i, speed, calibrations, torn>>

(* thr_set_level, two far writes.                                           *)
StoreLevel ==
    /\ pc = "set_level" /\ pc' = "set_delay"
    /\ speed_level' = [speed_level EXCEPT ![seg] = level]
    /\ torn' = torn \ {seg}
    /\ UNCHANGED <<delay_count, presets, hooks, back, locals, speed, calibrations, want, lost>>

StoreDelay ==
    /\ pc = "set_delay"
    /\ delay_count' = [delay_count EXCEPT ![seg] = presets[seg][level]]
    /\ Exit
    /\ UNCHANGED <<speed_level, presets, hooks, speed, calibrations, history>>

------------------------------------------------------------------------------
(* What the hooks burn of each tick before the program goes on.             *)
Burn == SumFunctionOnSet(delay_count, Range(int08) \cap Copies)

(* TCTL CALIBRATE counts its loop from one tick to the next, under whatever *)
(* the resident copies burn of the tick; it sees one round at least.        *)
cmd_calibrate ==
    /\ calibrations < MaxCalibrations /\ find_throttle_seg # 0
    /\ calibrations' = calibrations + 1
    /\ seg' = find_throttle_seg
    /\ max_c' = IF Burn < speed THEN speed - Burn ELSE 1
    /\ pc' = "preset" /\ back' = "idle"
    /\ UNCHANGED <<words, presets, hooks, level, i, speed, history>>

(* The count as a share of max_c, cast to a word.                           *)
Share(l) == ((max_c * <<0, 0, 33, 67, 90, 99>>[l + 1]) \div 100) % Word

StorePreset ==
    /\ pc = "preset" /\ i \in Levels
    /\ presets' = [presets EXCEPT ![seg][i] = Share(i)]
    /\ i' = i + 1
    /\ UNCHANGED <<words, hooks, pc, back, seg, level, max_c, speed, calibrations, history>>

(* mutant: no clamp *)
NoClamp ==
    /\ pc = "preset" /\ i = 6 /\ pc' = "read_level"
    /\ UNCHANGED <<presets, words, hooks, back, locals, speed, calibrations, history>>

(* Only preset 5 is held to the largest word.                               *)
Clamp ==
    /\ pc = "preset" /\ i = 6 /\ pc' = "read_level"
    /\ presets' = IF (max_c * 99) \div 100 > Word - 1
                  THEN [presets EXCEPT ![seg][5] = Word - 1] ELSE presets
    /\ UNCHANGED <<words, hooks, back, locals, speed, calibrations, history>>

(* mutant: the level is not applied again *)
ReadAndLeave ==
    /\ pc = "read_level" /\ Exit
    /\ UNCHANGED <<words, presets, hooks, speed, calibrations, history>>

(* mutant: the level is applied as that of another preset *)
ReadLevelOff ==
    /\ pc = "read_level" /\ pc' = "set_level"
    /\ level' = 0
    /\ UNCHANGED <<words, presets, hooks, back, seg, max_c, i, speed, calibrations, history>>

(* thr_set_level(seg, thr_get_level(seg))                                   *)
ReadLevel ==
    /\ pc = "read_level" /\ pc' = "set_level"
    /\ level' = speed_level[seg]
    /\ UNCHANGED <<words, presets, hooks, back, seg, max_c, i, speed, calibrations, history>>

(* A resident program of someone else takes both interrupts.                *)
OtherInstalls ==
    /\ pc = "idle" /\ others < MaxOther
    /\ others' = others + 1
    /\ int08' = <<Other>> \o int08 /\ int09' = <<Other>> \o int09
    /\ UNCHANGED <<words, presets, pc, back, locals, speed, calibrations, history>>

AtPrompt ==
    /\ pc = "idle"
    /\ \/ \E l \in Levels : throttle_install(l, "idle") \/ cmd_set(l, "idle")
       \/ throttle_uninstall("idle")
       \/ cmd_calibrate
       \/ OtherInstalls

Step ==
    \/ Hook08 \/ Hook09 \/ InitLevel \/ InitDelay
    \/ StoreLevel \/ StoreDelay
    \/ StorePreset \/ Clamp \/ ReadLevel

Keys == {"up", "down", "off"}

------------------------------------------------------------------------------
Hook == Copies \cup {Other}
Places == {"idle", "hook08", "hook09", "init_level", "init_delay", "set_level",
           "set_delay", "preset", "read_level",
           "play_throttle", "game", "play_remove"}     \* of NOSPLAY, module Play

(* Type invariant of the variables of this module.                          *)
ThrottleTypeOK ==
    /\ int08 \in Seq(Hook) /\ int09 \in Seq(Hook)
    /\ speed_level \in [Copies -> Levels]
    /\ delay_count \in [Copies -> 0 .. Word - 1]
    /\ presets \in [Copies -> [Levels -> 0 .. Word - 1]]
    /\ {pc, back} \subseteq Places
    /\ seg \in {0} \cup Copies /\ level \in Levels
    /\ max_c \in Nat /\ i \in 0 .. 6
    /\ speed \in Speeds
    /\ others \in 0 .. MaxOther /\ calibrations \in 0 .. MaxCalibrations
    /\ want \in [Copies -> Levels] /\ lost \subseteq Copies /\ torn \subseteq Copies

(* Between commands the delay of every copy is that of its level            *)
(* (throttle.asm:46, "outer loop count for current level"), whatever keys   *)
(* fell into installation, SET and CALIBRATE, except where one fell between *)
(* the two writes of a program and nothing has set the level since.         *)
WordsAgree ==
    pc = "idle" => \A c \in Copies \ torn : delay_count[c] = presets[c][speed_level[c]]

(* Between commands every copy has the level last asked for, by a key, by   *)
(* SET or at installation, except where a key fell between a program's      *)
(* choice of the level and its write: CALIBRATE then undoes the key.        *)
LastChoiceStands ==
    pc = "idle" => \A c \in Hooked \ lost : speed_level[c] = want[c]

(* On a machine whose count keeps preset 4 within a word, a higher level    *)
(* never burns less than a lower one, after any number of calibrations.     *)
PresetsOrdered ==
    pc = "idle" /\ (speed * 90) \div 100 < Word =>
        \A c \in Copies : \A l, m \in Levels : l <= m => presets[c][l] <= presets[c][m]

(* Both chains hold the same hooks in the same order, and no two THROTTLEs  *)
(* lie next to each other: a second one is installed only where another     *)
(* program's hook hides the first.                                          *)
ChainsMatch ==
    pc \notin {"hook08", "hook09"} =>
        /\ int08 = int09
        /\ \A n \in 1 .. Len(int08) - 1 : int08[n] \in Copies => int08[n + 1] = Other

(* throttle.asm:26, "Ctrl+Alt+0 -- set level 0 (OFF, no delay)": one press  *)
(* takes the delay off, however many copies are resident, hidden or not.    *)
OffMeansOff == [][pc = "idle" /\ Hotkey("off") => Burn' = 0]_throttleVars
==============================================================================
