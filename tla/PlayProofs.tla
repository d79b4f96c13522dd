----------------------------- MODULE PlayProofs -------------------------------
(***************************************************************************)
(* The words and the hook chains of THROTTLE, for any number of copies, any *)
(* machine, any programs of others and keys that fall between any two steps *)
(* of THROTTLE, TCTL and NOSPLAY.                                           *)
(***************************************************************************)
EXTENDS Play, FiniteSetTheorems, WellFoundedInduction, TLAPS

(* A program has chosen a copy, and goes on to whoever called it.           *)
Inside == {"hook08", "hook09", "init_level", "init_delay", "preset", "read_level",
           "set_level", "set_delay"}

Shaped ==
    /\ int08 \in Seq(Hook) /\ int09 \in Seq(Hook)
    /\ speed_level \in [Copies -> Levels] /\ want \in [Copies -> Levels]
    /\ DOMAIN delay_count = Copies /\ DOMAIN presets = Copies
    /\ level \in Levels /\ seg \in Copies \cup {0} /\ (pc \in Inside => seg \in Copies)
    /\ back \in {"idle", "game"} /\ game \in Games \cup {NoGame}

(* Delay and level of a copy agree, unless a program is about to write its  *)
(* delay or CALIBRATE to apply its level again; the level that a program    *)
(* has written is there when it writes the delay.                           *)
Agrees(c) == delay_count[c] = presets[c][speed_level[c]]

Agree ==
    /\ \A c \in Copies \ torn :
          \/ c = seg /\ pc \in {"init_delay", "preset", "read_level", "set_level", "set_delay"}
          \/ Agrees(c)
    /\ pc \in {"init_delay", "set_delay"} /\ seg \notin torn => speed_level[seg] = level

(* The level of a copy is the one last asked for, unless a program is about *)
(* to write it, and then that is what it writes.                            *)
Asked ==
    /\ \A c \in Hooked \ lost :
          (c = seg /\ pc \in {"init_level", "set_level"}) \/ speed_level[c] = want[c]
    /\ pc \in {"init_level", "set_level"} /\ seg \in Hooked \ lost => level = want[seg]

(* Between its two hooks a THROTTLE is ahead on INT 08h only, and none goes *)
(* onto another.                                                            *)
Apart(chain) == \A n \in 1 .. Len(chain) - 1 : chain[n] \in Copies => chain[n + 1] = Other

Chained ==
    /\ int08 = IF pc = "hook09" THEN <<seg>> \o int09 ELSE int09
    /\ Apart(int08)
    /\ pc = "hook08" /\ int08 # <<>> => Head(int08) = Other

IInv == Shaped /\ Agree /\ Asked /\ Chained

LEMMA NoCopyZero == Other \notin Copies /\ 0 \notin Copies
  BY ThrottleAssumption DEF ThrottleAssumption, Other

LEMMA PlayInit == Init => IInv
<1> SUFFICES ASSUME Init PROVE IInv
  OBVIOUS
<1>1. Shaped
  BY DEF Init, ThrottleInit, Shaped, Inside, Levels
<1>2. Agree
  BY DEF Init, ThrottleInit, Agree, Agrees, Defaults, Levels
<1>3. Asked
  BY DEF Init, ThrottleInit, Asked
<1>4. Chained
  BY DEF Init, ThrottleInit, Chained, Apart
<1> QED
  BY <1>1, <1>2, <1>3, <1>4 DEF IInv

(* A key: every copy that takes it has both words from one preset.          *)
LEMMA HotkeyStep ==
    ASSUME IInv, NEW k \in Keys, Hotkey(k), UNCHANGED game PROVE IInv'
<1> USE NoCopyZero
<1>1. /\ Hooked \subseteq Copies /\ Touched(k) \subseteq Hooked
      /\ UNCHANGED <<presets, hooks, pc, back, locals>>
  BY DEF Hotkey, Hooked, Touched
<1>2. speed_level' \in [Copies -> Levels]
  <2>1. \A c \in Touched(k) : Turned(k, speed_level[c]) \in Levels
    BY <1>1 DEF Touched, Turned, Keys, Levels, IInv, Shaped
  <2> QED
    BY <2>1 DEF Hotkey, IInv, Shaped
<1>3. want' \in [Copies -> Levels] /\ DOMAIN delay_count' = Copies
  BY <1>2 DEF Hotkey, IInv, Shaped
<1>4. Shaped'
  BY <1>1, <1>2, <1>3 DEF hooks, locals, IInv, Shaped
<1>5. Agree'
  <2>1. \A c \in Touched(k) : Agrees(c)'
    BY <1>1 DEF Hotkey, Agrees, IInv, Shaped
  <2>2. \A c \in Copies \ Touched(k) : speed_level'[c] = speed_level[c] /\ delay_count'[c] = delay_count[c]
    BY DEF Hotkey
  <2> QED
    BY <1>1, <2>1, <2>2 DEF Hotkey, locals, Agrees, IInv, Shaped, Agree, Inside
<1>6. Asked'
  <2>1. Hooked' = Hooked
    BY <1>1 DEF hooks, Hooked
  <2>2. \A c \in Hooked : want'[c] = speed_level'[c]
    BY <1>1 DEF Hotkey
  <2> QED
    BY <1>1, <2>1, <2>2 DEF Hotkey, locals, IInv, Asked
<1>7. Chained'
  BY <1>1 DEF hooks, locals, IInv, Chained
<1> QED
  BY <1>4, <1>5, <1>6, <1>7 DEF IInv

(* A program that is called chooses its copy, or returns at once.           *)
LEMMA InstallStep ==
    ASSUME IInv, NEW l \in Levels, NEW caller \in {"idle", "game"},
           throttle_install(l, caller), pc \notin Inside, UNCHANGED game
    PROVE  IInv'
<1> USE NoCopyZero DEF Inside
<1>1. /\ UNCHANGED <<words, presets, hooks, history>>
      /\ \/ /\ pc' = "hook08" /\ back' = caller /\ seg' \in Copies /\ level' = l
            /\ find_throttle_seg = 0
         \/ pc' = caller /\ back' = "idle" /\ seg' = 0 /\ level' = 0
  BY DEF throttle_install
<1>2. Shaped'
  BY <1>1 DEF words, hooks, history, IInv, Shaped, Levels
<1>3. Agree'
  BY <1>1 DEF words, history, IInv, Shaped, Agree, Agrees
<1>4. Asked'
  BY <1>1 DEF words, hooks, history, Hooked, IInv, Asked
<1>5. Chained'
  <2>1. find_throttle_seg = 0 /\ int08 # <<>> => Head(int08) = Other
    BY DEF find_throttle_seg, IInv, Shaped, Hook
  <2> QED
    BY <1>1, <2>1 DEF hooks, IInv, Chained
<1> QED
  BY <1>2, <1>3, <1>4, <1>5 DEF IInv

LEMMA FoundSeg == find_throttle_seg \in Copies \cup {0}
  BY DEF find_throttle_seg

LEMMA SetStep ==
    ASSUME IInv, NEW l \in Levels, NEW caller \in {"idle", "game"},
           cmd_set(l, caller), pc \notin Inside, UNCHANGED game
    PROVE  IInv'
<1> USE NoCopyZero, FoundSeg DEF Inside
<1>1. UNCHANGED <<words, presets, hooks, torn>> /\ seg' \in Copies \cup {0}
  BY DEF cmd_set
<1>2. CASE /\ seg' # 0 /\ pc' = "set_level" /\ back' = caller /\ level' = l
           /\ want' = [want EXCEPT ![seg'] = l] /\ lost' = lost \ {seg'}
  <2>1. Shaped'
    BY <1>1, <1>2 DEF words, hooks, IInv, Shaped
  <2>2. Agree'
    BY <1>1, <1>2 DEF words, IInv, Shaped, Agree, Agrees
  <2>3. Asked'
    BY <1>1, <1>2 DEF words, hooks, Hooked, IInv, Shaped, Asked
  <2>4. Chained'
    BY <1>1, <1>2 DEF hooks, IInv, Chained
  <2> QED
    BY <2>1, <2>2, <2>3, <2>4 DEF IInv
<1>3. CASE /\ seg' = 0 /\ pc' = caller /\ back' = "idle" /\ UNCHANGED <<level, want, lost>>
  <2>1. Shaped'
    BY <1>1, <1>3 DEF words, hooks, IInv, Shaped
  <2>2. Agree'
    BY <1>1, <1>3 DEF words, IInv, Shaped, Agree, Agrees
  <2>3. Asked'
    BY <1>1, <1>3 DEF words, hooks, Hooked, IInv, Shaped, Asked
  <2>4. Chained'
    BY <1>1, <1>3 DEF hooks, IInv, Chained
  <2> QED
    BY <2>1, <2>2, <2>3, <2>4 DEF IInv
<1> QED
  BY <1>2, <1>3 DEF cmd_set

(* The head of a chain goes: what stays hooked was hooked.                  *)
LEMMA TailChain ==
    ASSUME NEW s \in Seq(Hook), s # <<>>
    PROVE  /\ Tail(s) \in Seq(Hook) /\ Range(Tail(s)) \subseteq Range(s)
           /\ Apart(s) => Apart(Tail(s))
<1>1. /\ Tail(s) \in Seq(Hook) /\ Len(Tail(s)) = Len(s) - 1 /\ Len(s) \in Nat \ {0}
      /\ \A n \in 1 .. Len(s) - 1 : Tail(s)[n] = s[n + 1]
  OBVIOUS
<1>2. Range(Tail(s)) \subseteq Range(s)
  BY <1>1 DEF Range
<1>3. Apart(s) => Apart(Tail(s))
  BY <1>1 DEF Apart
<1> QED
  BY <1>1, <1>2, <1>3

LEMMA UninstallStep ==
    ASSUME IInv, throttle_uninstall("idle"), pc \notin Inside, game' \in Games \cup {NoGame}
    PROVE  IInv'
<1> USE NoCopyZero DEF Inside
<1>1. /\ pc' = "idle" /\ back' = "idle" /\ UNCHANGED <<words, presets, locals, history>>
      /\ \/ UNCHANGED <<int08, int09>>
         \/ int08 # <<>> /\ int08' = Tail(int08) /\ int09' = Tail(int09)
  BY DEF throttle_uninstall
<1>2. int08 = int09
  BY DEF IInv, Chained
<1>3. int08' = int09' /\ int08' \in Seq(Hook) /\ Range(int09') \subseteq Range(int09) /\ Apart(int08')
  BY <1>1, <1>2, TailChain DEF IInv, Shaped, Chained
<1>4. Shaped'
  BY <1>1, <1>3 DEF words, locals, history, IInv, Shaped
<1>5. Agree'
  BY <1>1 DEF words, locals, history, IInv, Shaped, Agree, Agrees
<1>6. Asked'
  BY <1>1, <1>3 DEF words, history, Hooked, IInv, Asked
<1>7. Chained'
  BY <1>1, <1>3 DEF Chained
<1> QED
  BY <1>4, <1>5, <1>6, <1>7 DEF IInv

(* Another hook on top of both chains.                                      *)
LEMMA ConsChain ==
    ASSUME NEW s \in Seq(Hook), NEW h \in Hook, h \in Copies /\ s # <<>> => Head(s) = Other
    PROVE  /\ <<h>> \o s \in Seq(Hook) /\ Range(<<h>> \o s) = Range(s) \cup {h}
           /\ Apart(s) => Apart(<<h>> \o s)
<1>1. /\ <<h>> \o s \in Seq(Hook) /\ Len(<<h>> \o s) = Len(s) + 1 /\ Len(s) \in Nat
      /\ (<<h>> \o s)[1] = h /\ \A n \in 1 .. Len(s) : (<<h>> \o s)[n + 1] = s[n]
  OBVIOUS
<1>2. Range(<<h>> \o s) = Range(s) \cup {h}
  <2> DEFINE t == <<h>> \o s
  <2>1. DOMAIN t = 1 .. Len(s) + 1 /\ DOMAIN s = 1 .. Len(s)
    BY <1>1
  <2>2. \A n \in DOMAIN t : t[n] \in Range(s) \cup {h}
    <3> TAKE n \in DOMAIN t
    <3>1. n = 1 \/ (n - 1 \in 1 .. Len(s) /\ n = (n - 1) + 1)
      BY <1>1, <2>1
    <3>2. CASE n = 1
      BY <1>1, <3>2
    <3>3. CASE n # 1
      <4>1. t[n] = s[n - 1]
        BY <1>1, <3>1, <3>3
      <4> QED
        BY <2>1, <3>1, <3>3, <4>1 DEF Range
    <3> QED
      BY <3>2, <3>3
  <2>3. h \in Range(t) /\ \A n \in DOMAIN s : s[n] \in Range(t)
    <3>1. 1 \in DOMAIN t /\ t[1] = h
      BY <1>1, <2>1
    <3>2. \A n \in DOMAIN s : n + 1 \in DOMAIN t /\ t[n + 1] = s[n]
      BY <1>1, <2>1
    <3> HIDE DEF t
    <3> QED
      BY <3>1, <3>2 DEF Range
  <2> QED
    BY <2>2, <2>3 DEF Range
<1>3. Apart(s) => Apart(<<h>> \o s)
  <2> SUFFICES ASSUME Apart(s), NEW n \in 1 .. Len(s), (<<h>> \o s)[n] \in Copies
               PROVE  (<<h>> \o s)[n + 1] = Other
    BY <1>1 DEF Apart
  <2>1. CASE n = 1
    BY <1>1, <2>1
  <2>2. CASE n # 1
    <3>1. n - 1 \in 1 .. Len(s) - 1 /\ (<<h>> \o s)[n] = s[n - 1]
      BY <1>1, <2>2
    <3> QED
      BY <1>1, <3>1 DEF Apart
  <2> QED
    BY <2>1, <2>2
<1> QED
  BY <1>1, <1>2, <1>3

LEMMA OtherStep == ASSUME IInv, OtherInstalls, UNCHANGED game PROVE IInv'
<1> USE NoCopyZero DEF Inside
<1>1. /\ pc = "idle" /\ UNCHANGED <<words, presets, pc, back, locals, history>>
      /\ int08' = <<Other>> \o int08 /\ int09' = <<Other>> \o int09
  BY DEF OtherInstalls
<1>2. int08 = int09 /\ Other \in Hook
  BY <1>1 DEF IInv, Chained, Hook
<1>3. /\ int08' = int09' /\ int08' \in Seq(Hook) /\ Apart(int08')
      /\ Range(int09') = Range(int09) \cup {Other}
  BY <1>1, <1>2, ConsChain DEF IInv, Shaped, Chained
<1>4. Shaped'
  BY <1>1, <1>3 DEF words, locals, history, IInv, Shaped
<1>5. Agree'
  BY <1>1 DEF words, locals, history, IInv, Shaped, Agree, Agrees
<1>6. Hooked' = Hooked
  BY <1>3 DEF Hooked
<1>7. Asked'
  BY <1>1, <1>6 DEF words, locals, history, IInv, Asked
<1>8. Chained'
  BY <1>1, <1>3 DEF Chained
<1> QED
  BY <1>4, <1>5, <1>7, <1>8 DEF IInv

(* The hooks, one after the other.                                          *)
LEMMA HookStep == ASSUME IInv, Hook08 \/ Hook09, UNCHANGED game PROVE IInv'
<1> USE NoCopyZero DEF Inside
<1>1. seg \in Copies /\ seg \in Hook
  BY DEF Hook08, Hook09, IInv, Shaped, Hook
<1>2. CASE Hook08
  <2>1. /\ pc = "hook08" /\ pc' = "hook09" /\ int08' = <<seg>> \o int08
        /\ UNCHANGED <<words, presets, int09, back, locals, history>>
    BY <1>2 DEF Hook08
  <2>2. int08 = int09 /\ int08' \in Seq(Hook) /\ Apart(int08')
    BY <1>1, <2>1, ConsChain DEF IInv, Shaped, Chained
  <2>3. Shaped'
    BY <2>1, <2>2 DEF words, locals, history, IInv, Shaped
  <2>4. Agree'
    BY <2>1 DEF words, locals, history, IInv, Shaped, Agree, Agrees
  <2>5. Asked'
    BY <2>1 DEF words, locals, history, Hooked, IInv, Asked
  <2>6. Chained'
    BY <2>1, <2>2 DEF locals, Chained
  <2> QED
    BY <2>3, <2>4, <2>5, <2>6 DEF IInv
<1>3. CASE Hook09
  <2>1. /\ pc = "hook09" /\ pc' = "init_level" /\ int09' = <<seg>> \o int09
        /\ want' = [want EXCEPT ![seg] = level]
        /\ UNCHANGED <<words, presets, int08, back, locals, lost, torn>>
    BY <1>3 DEF Hook09
  <2>2. int08 = int09' /\ int09' \in Seq(Hook) /\ Apart(int08')
    BY <2>1 DEF IInv, Shaped, Chained
  <2>3. Range(int09') \subseteq Range(int09) \cup {seg}
    <3>1. \A n \in 1 .. Len(int09) + 1 : n = 1 \/ n - 1 \in 1 .. Len(int09)
      BY DEF IInv, Shaped
    <3>2. \A n \in DOMAIN int09' : int09'[n] \in Range(int09) \cup {seg}
      BY <1>1, <2>1, <3>1 DEF Range, IInv, Shaped
    <3> QED
      BY <3>2 DEF Range
  <2>4. Shaped'
    BY <1>1, <2>1, <2>2 DEF words, locals, IInv, Shaped
  <2>5. Agree'
    BY <2>1 DEF words, locals, IInv, Shaped, Agree, Agrees
  <2>6. Asked'
    BY <1>1, <2>1, <2>3 DEF words, locals, Hooked, IInv, Shaped, Asked
  <2>7. Chained'
    BY <2>1, <2>2 DEF locals, Chained
  <2> QED
    BY <2>4, <2>5, <2>6, <2>7 DEF IInv
<1> QED
  BY <1>2, <1>3

(* The two writes of a program, the level and then the delay.               *)
LEMMA WriteStep ==
    ASSUME IInv, InitLevel \/ StoreLevel \/ InitDelay \/ StoreDelay, UNCHANGED game
    PROVE  IInv'
<1> USE NoCopyZero DEF Inside
<1>1. CASE InitLevel \/ StoreLevel
  <2>1. /\ pc \in {"init_level", "set_level"} /\ pc' \in {"init_delay", "set_delay"}
        /\ speed_level' = [speed_level EXCEPT ![seg] = level] /\ torn' = torn \ {seg}
        /\ UNCHANGED <<delay_count, presets, hooks, back, locals, want, lost>>
    BY <1>1 DEF InitLevel, StoreLevel
  <2>2. Shaped'
    BY <2>1 DEF hooks, locals, IInv, Shaped
  <2>3. Agree'
    BY <2>1 DEF locals, IInv, Shaped, Agree, Agrees
  <2>4. Asked'
    BY <2>1 DEF hooks, locals, Hooked, IInv, Shaped, Asked
  <2>5. Chained'
    BY <2>1 DEF hooks, locals, IInv, Chained
  <2> QED
    BY <2>2, <2>3, <2>4, <2>5 DEF IInv
<1>2. CASE InitDelay \/ StoreDelay
  <2>1. /\ pc \in {"init_delay", "set_delay"} /\ pc' = back /\ back' = "idle"
        /\ seg' = 0 /\ level' = 0
        /\ delay_count' = [delay_count EXCEPT ![seg] = presets[seg][level]]
        /\ UNCHANGED <<speed_level, presets, hooks, history>>
    BY <1>2 DEF InitDelay, StoreDelay, Exit
  <2>2. Shaped'
    BY <2>1 DEF hooks, history, IInv, Shaped, Levels
  <2>3. Agree'
    BY <2>1 DEF history, IInv, Shaped, Agree, Agrees
  <2>4. Asked'
    BY <2>1 DEF hooks, history, Hooked, IInv, Shaped, Asked
  <2>5. Chained'
    BY <2>1 DEF hooks, IInv, Shaped, Chained
  <2> QED
    BY <2>2, <2>3, <2>4, <2>5 DEF IInv
<1> QED
  BY <1>1, <1>2

(* CALIBRATE, up to the point where it applies the level it read.           *)
LEMMA CalibrateStep ==
    ASSUME IInv, ((pc = "idle" /\ cmd_calibrate) \/ StorePreset \/ Clamp \/ ReadLevel), UNCHANGED game
    PROVE  IInv'
<1> USE NoCopyZero, FoundSeg DEF Inside
<1>1. UNCHANGED <<words, hooks, history>> /\ seg' \in Copies /\ level' \in Levels /\ back' \in {"idle", "game"}
  BY DEF cmd_calibrate, StorePreset, Clamp, ReadLevel, locals, IInv, Shaped
<1>2. /\ DOMAIN presets' = Copies
      /\ \A c \in Copies : c = seg' \/ presets'[c] = presets[c]
  BY DEF cmd_calibrate, StorePreset, Clamp, ReadLevel, locals, IInv, Shaped
<1>3. \/ cmd_calibrate /\ pc = "idle" /\ pc' = "preset"
      \/ seg' = seg /\ pc \in {"preset", "read_level"} /\ pc' \in {"preset", "read_level"}
      \/ seg' = seg /\ pc = "read_level" /\ pc' = "set_level" /\ level' = speed_level[seg]
  BY DEF cmd_calibrate, StorePreset, Clamp, ReadLevel, locals
<1>4. Shaped'
  BY <1>1, <1>2, <1>3 DEF words, hooks, history, IInv, Shaped
<1>5. Agree'
  BY <1>1, <1>2, <1>3 DEF words, history, IInv, Shaped, Agree, Agrees
<1>6. Asked'
  BY <1>1, <1>3 DEF words, hooks, history, Hooked, IInv, Shaped, Asked
<1>7. Chained'
  BY <1>1, <1>3 DEF hooks, IInv, Chained
<1> QED
  BY <1>4, <1>5, <1>6, <1>7 DEF IInv

LEMMA PromptStep == ASSUME IInv, AtPrompt, UNCHANGED game PROVE IInv'
<1>1. pc = "idle" /\ pc \notin Inside
  BY DEF AtPrompt, Inside
<1>2. CASE \E l \in Levels : throttle_install(l, "idle") \/ cmd_set(l, "idle")
  BY <1>1, <1>2, InstallStep, SetStep
<1>3. CASE throttle_uninstall("idle")
  BY <1>1, <1>3, UninstallStep DEF IInv, Shaped
<1>4. CASE cmd_calibrate \/ OtherInstalls
  BY <1>1, <1>4, CalibrateStep, OtherStep
<1> QED
  BY <1>2, <1>3, <1>4 DEF AtPrompt

(* NOSPLAY, where it touches no word itself.                                *)
LEMMA PlayKeeps ==
    ASSUME IInv, pc \notin Inside, pc' \notin Inside, game' \in Games \cup {NoGame},
           UNCHANGED <<words, presets, hooks, back, locals, history>>
    PROVE  IInv'
<1> USE DEF Inside
<1>1. Shaped'
  BY DEF words, hooks, locals, history, IInv, Shaped
<1>2. Agree'
  BY DEF words, locals, history, IInv, Shaped, Agree, Agrees
<1>3. Asked'
  BY DEF words, hooks, history, Hooked, IInv, Asked
<1>4. Chained'
  BY DEF hooks, IInv, Chained
<1> QED
  BY <1>1, <1>2, <1>3, <1>4 DEF IInv

LEMMA NosplayStep ==
    ASSUME IInv, (\E g \in Games : cmd_launch(g)) \/ ApplyThrottle \/ GameEnds \/ RemoveThrottle
    PROVE  IInv'
<1>1. CASE \E g \in Games : cmd_launch(g)
  <2>1. /\ pc = "idle" /\ pc' = "play_throttle" /\ game' \in Games
        /\ UNCHANGED <<words, presets, hooks, back, locals, history>>
    BY <1>1 DEF cmd_launch
  <2> QED
    BY <2>1, PlayKeeps DEF Inside
<1>2. CASE ApplyThrottle
  <2>1. pc = "play_throttle" /\ pc \notin Inside /\ UNCHANGED game
    BY <1>2 DEF ApplyThrottle, Inside
  <2>2. game.level > 0 => game.level \in Levels
    BY PlayAssumption DEF PlayAssumption, NoGame, Levels, IInv, Shaped
  <2>3. CASE game.level > 0 /\ throttle_install(game.level, "game")
    BY <2>1, <2>2, <2>3, InstallStep
  <2>4. CASE game.level > 0 /\ cmd_set(game.level, "game")
    BY <2>1, <2>2, <2>4, SetStep
  <2>5. CASE pc' = "game" /\ UNCHANGED <<words, presets, hooks, back, locals, history>>
    BY <2>1, <2>5, PlayKeeps DEF Inside, IInv, Shaped
  <2> QED
    BY <1>2, <2>3, <2>4, <2>5 DEF ApplyThrottle
<1>3. CASE GameEnds
  <2>1. /\ pc = "game" /\ pc' \in {"play_remove", "idle"} /\ game' \in {game, NoGame}
        /\ UNCHANGED <<words, presets, hooks, back, locals, history>>
    BY <1>3 DEF GameEnds, Quit
  <2> QED
    BY <2>1, PlayKeeps DEF Inside, IInv, Shaped
<1>4. CASE RemoveThrottle
  <2>1. throttle_uninstall("idle") /\ pc \notin Inside /\ game' \in Games \cup {NoGame}
    BY <1>4 DEF RemoveThrottle, Quit, Inside
  <2> QED
    BY <2>1, UninstallStep
<1> QED
  BY <1>1, <1>2, <1>3, <1>4

LEMMA PlayStep == IInv /\ [Next]_vars => IInv'
<1> SUFFICES ASSUME IInv, [Next]_vars PROVE IInv'
  OBVIOUS
<1>1. CASE AtPrompt /\ UNCHANGED playVars
  BY <1>1, PromptStep DEF playVars
<1>2. CASE Step /\ UNCHANGED playVars
  BY <1>2, HookStep, WriteStep, CalibrateStep DEF Step, playVars
<1>3. CASE (\E g \in Games : cmd_launch(g)) \/ ApplyThrottle \/ GameEnds \/ RemoveThrottle
  BY <1>3, NosplayStep
<1>4. CASE \E k \in Keys : PressKey(k)
  BY <1>4, HotkeyStep DEF PressKey
<1>5. CASE UNCHANGED vars
  <2> USE <1>5 DEF vars, throttleVars, playVars, words, hooks, locals, history
  <2>1. Shaped'
    BY DEF IInv, Shaped
  <2>2. Agree'
    BY DEF IInv, Agree, Agrees
  <2>3. Asked'
    BY DEF Hooked, IInv, Asked
  <2>4. Chained'
    BY DEF IInv, Chained
  <2> QED
    BY <2>1, <2>2, <2>3, <2>4 DEF IInv
<1> QED
  BY <1>1, <1>2, <1>3, <1>4, <1>5 DEF Next

LEMMA PlayInvariant == Spec => []IInv
  BY PlayInit, PlayStep, PTL DEF Spec

(* Between commands level and delay of every copy are of one preset, where  *)
(* no key fell between the two writes of a program.                         *)
THEOREM PlayWordsAgree == Spec => []WordsAgree
<1>1. IInv => WordsAgree
  BY DEF IInv, Agree, Agrees, WordsAgree
<1> QED
  BY PlayInvariant, <1>1, PTL

(* Between commands every copy on the chain of INT 09h has the level last   *)
(* asked for, where no key fell between a choice of a level and its write.  *)
THEOREM PlayLastChoiceStands == Spec => []LastChoiceStands
<1>1. IInv => LastChoiceStands
  BY DEF IInv, Asked, LastChoiceStands
<1> QED
  BY PlayInvariant, <1>1, PTL

(* The two chains are one, and no THROTTLE lies directly on another.        *)
THEOREM PlayChainsMatch == Spec => []ChainsMatch
<1>1. IInv => ChainsMatch
  BY DEF IInv, Chained, Apart, ChainsMatch
<1> QED
  BY PlayInvariant, <1>1, PTL

------------------------------------------------------------------------------
(* The recursion that a sum over a set stands for.                           *)
Adds(it, f, S) ==
    it = [s \in SUBSET S |->
            IF s = {} THEN 0
            ELSE f[CHOOSE x \in s : TRUE] + it[s \ {CHOOSE x \in s : TRUE}]]

(* Where that recursion has a solution, the sum is the value of one.        *)
LEMMA SumSolved ==
    ASSUME NEW S, NEW f, \E it : Adds(it, f, S)
    PROVE  \E it : Adds(it, f, S) /\ SumFunctionOnSet(f, S) = it[S]
<1> DEFINE sol == CHOOSE it : Adds(it, f, S)
<1>1. Adds(sol, f, S)
  OBVIOUS
<1>2. SumFunctionOnSet(f, S) = sol[S]
  BY DEF SumFunctionOnSet, FoldFunctionOnSet, MapThenFoldSet, Adds
<1> QED
  BY <1>1, <1>2

(* A set of numbers has a smallest one.                                     *)
LEMMA Smallest ==
    ASSUME NEW S \in SUBSET Nat, S # {}
    PROVE  \E n \in S : \A k \in S : n <= k
<1>1. PICK n \in S : \A k \in S : ~ (<<k, n>> \in OpToRel(<, Nat))
  BY NatLessThanWellFounded, WFMin
<1>2. \A k \in S : ~ (k < n)
  BY <1>1 DEF OpToRel
<1> QED
  BY <1>2

(* The recursion of a sum over the subsets of a finite set has a solution.  *)
LEMMA SumExists ==
    ASSUME NEW S, NEW f, IsFiniteSet(S), \A x \in S : f[x] \in Nat
    PROVE  \E it : it \in [SUBSET S -> Nat] /\ Adds(it, f, S)
<1> DEFINE Small(n) == {s \in SUBSET S : Cardinality(s) <= n}
           any(s) == CHOOSE x \in s : TRUE
           Sum1(it, s) == IF s = {} THEN 0 ELSE f[any(s)] + it[s \ {any(s)}]
           Good(n) == \E it \in [Small(n) -> Nat] : \A s \in Small(n) : it[s] = Sum1(it, s)
           Bad == {n \in Nat : ~ Good(n)}
<1>1. \A s \in SUBSET S : IsFiniteSet(s) /\ Cardinality(s) \in Nat /\ (Cardinality(s) = 0 <=> s = {})
  BY FS_Subset, FS_CardinalityType, FS_EmptySet
<1>2. \A s \in SUBSET S : s # {} =>
          any(s) \in s /\ f[any(s)] \in Nat /\ Cardinality(s \ {any(s)}) = Cardinality(s) - 1
  <2> TAKE s \in SUBSET S
  <2> HAVE s # {}
  <2>1. any(s) \in s
    OBVIOUS
  <2> HIDE DEF any
  <2> QED
    BY <1>1, <2>1, FS_RemoveElement
<1> HIDE DEF any
<1>3. Good(0)
  <2> DEFINE it == [s \in Small(0) |-> 0]
  <2>1. \A s \in Small(0) : s = {}
    BY <1>1
  <2>2. it \in [Small(0) -> Nat] /\ \A s \in Small(0) : it[s] = Sum1(it, s)
    BY <2>1
  <2> HIDE DEF it, Small, Sum1
  <2> QED
    BY <2>2
<1>4. ASSUME NEW n \in Nat, Good(n) PROVE Good(n + 1)
  <2>1. PICK it \in [Small(n) -> Nat] : \A s \in Small(n) : it[s] = Sum1(it, s)
    BY <1>4
  <2> DEFINE up == [s \in Small(n + 1) |-> Sum1(it, s)]
  <2>2. \A s \in Small(n + 1) : s # {} => s \ {any(s)} \in Small(n)
    BY <1>1, <1>2
  <2>3. \A s \in Small(n + 1) : Sum1(it, s) \in Nat
    BY <1>2, <2>2
  <2>4. \A s \in Small(n) : s \in Small(n + 1) /\ up[s] = it[s]
    BY <1>1, <2>1
  <2>5. \A s \in Small(n + 1) : up[s] = Sum1(up, s)
    BY <2>2, <2>4
  <2> QED
    BY <2>3, <2>5
<1>5. Bad = {}
  <2> SUFFICES ASSUME Bad # {} PROVE FALSE
    OBVIOUS
  <2>1. PICK n \in Bad : \A k \in Bad : n <= k
    <3>1. Bad \in SUBSET Nat
      OBVIOUS
    <3> HIDE DEF Bad
    <3> QED
      BY <3>1, Smallest
  <2>2. n # 0 /\ n - 1 \in Nat /\ Good(n - 1)
    <3> HIDE DEF Good
    <3> QED
      BY <1>3, <2>1
  <2> HIDE DEF Good
  <2>3. Good((n - 1) + 1)
    BY <1>4, <2>2
  <2>4. (n - 1) + 1 = n
    BY <2>1
  <2> QED
    BY <2>1, <2>3, <2>4
<1>6. Good(Cardinality(S))
  <2> HIDE DEF Good
  <2> QED
    BY <1>1, <1>5
<1>7. Small(Cardinality(S)) = SUBSET S
  BY <1>1, FS_Subset
<1>8. PICK it \in [SUBSET S -> Nat] : \A s \in SUBSET S : it[s] = Sum1(it, s)
  BY <1>6, <1>7
<1>9. Adds(it, f, S)
  BY <1>8 DEF Adds, any
<1> QED
  BY <1>8, <1>9

(* What a sum over a finite set is: no term, one term, terms that are zero, *)
(* terms that are natural numbers.                                          *)
LEMMA SumValue ==
    ASSUME NEW S, NEW f, IsFiniteSet(S), \A x \in S : f[x] \in Nat
    PROVE  /\ SumFunctionOnSet(f, S) \in Nat
           /\ (\A x \in S : f[x] = 0) => SumFunctionOnSet(f, S) = 0
           /\ \A c : S = {c} => SumFunctionOnSet(f, S) = f[c]
<1>1. PICK it : Adds(it, f, S) /\ SumFunctionOnSet(f, S) = it[S]
  BY SumExists, SumSolved
<1> DEFINE any(s) == CHOOSE x \in s : TRUE
<1>2. \A s \in SUBSET S : it[s] = IF s = {} THEN 0 ELSE f[any(s)] + it[s \ {any(s)}]
  BY <1>1 DEF Adds
<1>3. \A s \in SUBSET S : s # {} => any(s) \in s
  OBVIOUS
<1> HIDE DEF any
<1>4. \A s \in SUBSET S : IsFiniteSet(s) /\ Cardinality(s) \in Nat
  BY FS_Subset, FS_CardinalityType
<1>5. \A s \in SUBSET S : it[s] \in Nat /\ ((\A x \in S : f[x] = 0) => it[s] = 0)
  <2> DEFINE Fine(s) == it[s] \in Nat /\ ((\A x \in S : f[x] = 0) => it[s] = 0)
             Bad == {Cardinality(s) : s \in {t \in SUBSET S : ~ Fine(t)}}
  <2> SUFFICES ASSUME Bad # {} PROVE FALSE
    OBVIOUS
  <2>1. PICK n \in Bad : \A k \in Bad : n <= k
    <3>1. Bad \in SUBSET Nat
      BY <1>4
    <3> HIDE DEF Bad
    <3> QED
      BY <3>1, Smallest
  <2>2. PICK s \in SUBSET S : ~ Fine(s) /\ Cardinality(s) = n
    BY <2>1
  <2>3. s # {}
    <3>1. it[{}] = 0
      BY <1>2
    <3>2. Fine({})
      BY <3>1
    <3> HIDE DEF Fine
    <3> QED
      BY <2>2, <3>2
  <2>4. any(s) \in s /\ any(s) \in S /\ s \ {any(s)} \in SUBSET S
    BY <1>3, <2>3
  <2>5. Cardinality(s \ {any(s)}) = n - 1 /\ n \in Nat
    BY <1>4, <2>2, <2>4, FS_RemoveElement
  <2>6. Fine(s \ {any(s)})
    <3> SUFFICES ASSUME ~ Fine(s \ {any(s)}) PROVE FALSE
      OBVIOUS
    <3>1. Cardinality(s \ {any(s)}) \in Bad
      BY <2>4
    <3> QED
      BY <2>1, <2>5, <3>1
  <2>7. it[s] = f[any(s)] + it[s \ {any(s)}]
    BY <1>2, <2>3
  <2> QED
    BY <2>2, <2>4, <2>6, <2>7
<1>6. ASSUME NEW c, S = {c} PROVE it[S] = f[c]
  <2>1. any(S) = c /\ S \ {any(S)} = {} /\ {} \in SUBSET S /\ S \in SUBSET S /\ S # {}
    BY <1>3, <1>6
  <2>2. it[{}] = 0 /\ it[S] = f[any(S)] + it[S \ {any(S)}]
    BY <1>2, <2>1
  <2> QED
    BY <1>6, <2>1, <2>2
<1> QED
  BY <1>1, <1>5, <1>6

------------------------------------------------------------------------------
(* What the hooks burn is a number of rounds.                               *)
LEMMA BurnType ==
    ASSUME DOMAIN delay_count = Copies, \A c \in Copies : delay_count[c] \in Nat
    PROVE  Burn \in Nat
<1>1. IsFiniteSet(Range(int08) \cap Copies)
  BY ThrottleAssumption, FS_Subset DEF ThrottleAssumption
<1> QED
  BY <1>1, SumValue DEF Burn

(* A word has 16 bits, and holds the defaults.                              *)
LEMMA WordIs ==
    /\ Word \in Nat \ {0} /\ Word - 1 \in 0 .. Word - 1
    /\ {0, 5400, 10800, 16200, 17900} \subseteq 0 .. Word - 1
<1>1. Word \in Nat /\ Word > 17900
  BY SMT DEF Word
<1> QED
  BY <1>1

(* Every word, every chain and every register keeps its range.              *)
LEMMA TypeInit == Init => TypeOK
<1> SUFFICES ASSUME Init PROVE TypeOK
  OBVIOUS
<1>1. int08 \in Seq(Hook) /\ int09 \in Seq(Hook)
  BY DEF Init, ThrottleInit
<1>2. Defaults \in [Levels -> 0 .. Word - 1]
  <2> SUFFICES ASSUME NEW l \in Levels PROVE Defaults[l] \in 0 .. Word - 1
    BY DEF Defaults
  <2>1. l \in {0, 1, 2, 3, 4, 5}
    BY DEF Levels
  <2>2. Defaults[l] \in {0, 5400, 10800, 16200, 17900}
    BY <2>1 DEF Defaults
  <2> QED
    BY <2>2, WordIs
<1>3. presets \in [Copies -> [Levels -> 0 .. Word - 1]] /\ delay_count \in [Copies -> 0 .. Word - 1]
  BY <1>2, WordIs DEF Init, ThrottleInit
<1>4. /\ speed_level \in [Copies -> Levels] /\ want \in [Copies -> Levels]
      /\ seg = 0 /\ level \in Levels /\ max_c \in Nat /\ i \in 0 .. 6
      /\ others \in 0 .. MaxOther /\ calibrations \in 0 .. MaxCalibrations
  BY ThrottleAssumption DEF ThrottleAssumption, Init, ThrottleInit, Levels
<1>5. {pc, back} \subseteq Places /\ speed \in Speeds /\ lost \subseteq Copies /\ torn \subseteq Copies
  BY DEF Init, ThrottleInit, Places
<1>6. ThrottleTypeOK
  BY <1>1, <1>3, <1>4, <1>5 DEF ThrottleTypeOK
<1> QED
  BY <1>6 DEF Init, TypeOK

(* The steps that take a register or a word from somewhere else.            *)
LEMMA TypeHotkey ==
    ASSUME IInv, TypeOK, NEW k \in Keys, PressKey(k) PROVE TypeOK'
<1>1. IInv'
  BY HotkeyStep DEF PressKey
<1>2. /\ Hotkey(k) /\ UNCHANGED <<presets, int08, int09, others, pc, back, seg, level, max_c, i, speed, calibrations>>
      /\ UNCHANGED <<game, we_throttled, memProfile>> /\ keyed' \in BOOLEAN
  BY DEF PressKey, Hotkey, hooks, locals
<1>3. speed_level' \in [Copies -> Levels] /\ want' \in [Copies -> Levels]
  BY <1>1 DEF IInv, Shaped
<1>4. delay_count' \in [Copies -> 0 .. Word - 1]
  BY <1>2, <1>3 DEF Hotkey, TypeOK, ThrottleTypeOK
<1>5. lost' \subseteq Copies /\ torn' \subseteq Copies
  BY <1>2 DEF Hotkey, TypeOK, ThrottleTypeOK, Hooked, Touched
<1> QED
  BY <1>2, <1>3, <1>4, <1>5 DEF TypeOK, ThrottleTypeOK

LEMMA TypeInstall ==
    ASSUME IInv, TypeOK, NEW l \in Levels, NEW caller \in {"idle", "game"}, throttle_install(l, caller)
    PROVE  ThrottleTypeOK'
<1>1. /\ UNCHANGED <<speed_level, delay_count, presets, int08, int09, others, max_c, i, speed, calibrations, want, lost, torn>>
      /\ pc' \in {"hook08", caller} /\ back' \in {caller, "idle"} /\ seg' \in {0} \cup Copies /\ level' \in {0, l}
  BY DEF throttle_install, words, hooks, history
<1> QED
  BY <1>1 DEF TypeOK, ThrottleTypeOK, Places, Levels

LEMMA TypeSet ==
    ASSUME IInv, TypeOK, NEW l \in Levels, NEW caller \in {"idle", "game"}, cmd_set(l, caller)
    PROVE  ThrottleTypeOK'
<1>1. /\ UNCHANGED <<speed_level, delay_count, presets, int08, int09, others, max_c, i, speed, calibrations, torn>>
      /\ pc' \in {"set_level", caller} /\ back' \in {caller, "idle"} /\ level' \in {level, l}
  BY DEF cmd_set, words, hooks
<1>2. seg' \in {0} \cup Copies
  BY FoundSeg DEF cmd_set
<1>3. want' \in [Copies -> Levels] /\ lost' \subseteq Copies
  BY <1>2 DEF cmd_set, TypeOK, ThrottleTypeOK
<1> QED
  BY <1>1, <1>2, <1>3 DEF TypeOK, ThrottleTypeOK, Places

LEMMA TypeUninstall ==
    ASSUME IInv, IInv', TypeOK, throttle_uninstall("idle") PROVE ThrottleTypeOK'
<1>1. /\ UNCHANGED <<speed_level, delay_count, presets, others, seg, level, max_c, i, speed, calibrations, want, lost, torn>>
      /\ pc' = "idle" /\ back' = "idle" /\ int08' \in Seq(Hook) /\ int09' \in Seq(Hook)
  BY DEF throttle_uninstall, words, locals, history, IInv, Shaped
<1> QED
  BY <1>1 DEF TypeOK, ThrottleTypeOK, Places

(* A share of the count, of which only 33, 67, 90 and 99 percent matter.    *)
LEMMA ShareValue ==
    /\ Share(0) = ((max_c * 0) \div 100) % Word /\ Share(1) = ((max_c * 0) \div 100) % Word
    /\ Share(2) = ((max_c * 33) \div 100) % Word /\ Share(3) = ((max_c * 67) \div 100) % Word
    /\ Share(4) = ((max_c * 90) \div 100) % Word /\ Share(5) = ((max_c * 99) \div 100) % Word
  BY DEF Share

LEMMA Cast == \A n \in Nat : (n \div 100) % Word \in 0 .. Word - 1
<1>1. \A n \in Nat : n \div 100 \in Nat
  BY SMT
<1>2. \A n \in Nat, w \in Nat \ {0} : n % w \in 0 .. w - 1
  BY SMT
<1> QED
  BY <1>1, <1>2, WordIs

LEMMA ShareType == ASSUME max_c \in Nat, NEW l \in Levels PROVE Share(l) \in 0 .. Word - 1
<1>1. l \in {0, 1, 2, 3, 4, 5}
  BY DEF Levels
<1>2. {max_c * 0, max_c * 33, max_c * 67, max_c * 90, max_c * 99} \subseteq Nat
  OBVIOUS
<1>3. \A k \in {0, 33, 67, 90, 99} : ((max_c * k) \div 100) % Word \in 0 .. Word - 1
  BY <1>2, Cast
<1> QED
  BY <1>1, <1>3, ShareValue

LEMMA TypeCalibrate ==
    ASSUME IInv, TypeOK, cmd_calibrate \/ StorePreset \/ Clamp \/ ReadLevel
    PROVE  ThrottleTypeOK'
<1>1. CASE cmd_calibrate
  <2>1. /\ UNCHANGED <<speed_level, delay_count, presets, int08, int09, others, level, i, speed, want, lost, torn>>
        /\ calibrations' = calibrations + 1 /\ calibrations < MaxCalibrations
        /\ pc' = "preset" /\ back' = "idle" /\ seg' \in {0} \cup Copies
    BY <1>1, FoundSeg DEF cmd_calibrate, words, hooks, history
  <2>2. max_c' \in Nat
    <3>1. Burn \in Nat
      <4>1. DOMAIN delay_count = Copies /\ \A c \in Copies : delay_count[c] \in 0 .. Word - 1
        BY DEF TypeOK, ThrottleTypeOK
      <4> QED
        BY <4>1, BurnType, WordIs
    <3> QED
      BY <1>1, <3>1, ThrottleAssumption DEF ThrottleAssumption, cmd_calibrate, TypeOK, ThrottleTypeOK
  <2>3. calibrations' \in 0 .. MaxCalibrations
    BY <2>1, ThrottleAssumption DEF ThrottleAssumption, TypeOK, ThrottleTypeOK
  <2> QED
    BY <2>1, <2>2, <2>3 DEF TypeOK, ThrottleTypeOK, Places
<1>2. CASE StorePreset
  <2>1. /\ UNCHANGED <<speed_level, delay_count, int08, int09, others, pc, back, seg, level, max_c, speed, calibrations, want, lost, torn>>
        /\ i \in Levels /\ i' = i + 1 /\ pc = "preset" /\ presets' = [presets EXCEPT ![seg][i] = Share(i)]
    BY <1>2 DEF StorePreset, words, hooks, history
  <2>2. i' \in 0 .. 6
    BY <2>1 DEF Levels
  <2>3. Share(i) \in 0 .. Word - 1
    <3>1. max_c \in Nat /\ i \in Levels
      BY <2>1 DEF TypeOK, ThrottleTypeOK
    <3> QED
      BY <3>1, ShareType
  <2>4. presets' \in [Copies -> [Levels -> 0 .. Word - 1]]
    BY <2>1, <2>3 DEF IInv, Shaped, Inside, TypeOK, ThrottleTypeOK
  <2> QED
    BY <2>1, <2>2, <2>4 DEF TypeOK, ThrottleTypeOK
<1>3. CASE Clamp
  <2>1. /\ UNCHANGED <<speed_level, delay_count, int08, int09, others, back, seg, level, max_c, i, speed, calibrations, want, lost, torn>>
        /\ pc' = "read_level" /\ presets' \in {presets, [presets EXCEPT ![seg][5] = Word - 1]}
    BY <1>3 DEF Clamp, words, hooks, locals, history
  <2>2. presets' \in [Copies -> [Levels -> 0 .. Word - 1]]
    <3>1. seg \in Copies /\ 5 \in Levels /\ Word - 1 \in 0 .. Word - 1
      BY <1>3, WordIs DEF Clamp, IInv, Shaped, Inside, Levels
    <3>2. presets \in [Copies -> [Levels -> 0 .. Word - 1]]
      BY DEF TypeOK, ThrottleTypeOK
    <3> QED
      BY <2>1, <3>1, <3>2
  <2> QED
    BY <2>1, <2>2 DEF TypeOK, ThrottleTypeOK, Places
<1>4. CASE ReadLevel
  <2>1. /\ UNCHANGED <<speed_level, delay_count, presets, int08, int09, others, back, seg, max_c, i, speed, calibrations, want, lost, torn>>
        /\ pc' = "set_level" /\ level' = speed_level[seg] /\ seg \in Copies
    BY <1>4 DEF ReadLevel, words, hooks, history, IInv, Shaped, Inside
  <2> QED
    BY <2>1 DEF TypeOK, ThrottleTypeOK, Places
<1> QED
  BY <1>1, <1>2, <1>3, <1>4

LEMMA TypeWrites ==
    ASSUME IInv, IInv', TypeOK,
           Hook08 \/ Hook09 \/ InitLevel \/ InitDelay \/ StoreLevel \/ StoreDelay
    PROVE  ThrottleTypeOK'
<1>1. seg \in Copies /\ level \in Levels
  BY DEF Hook08, Hook09, InitLevel, InitDelay, StoreLevel, StoreDelay, IInv, Shaped, Inside
<1>2. CASE Hook08 \/ Hook09
  <2>1. /\ UNCHANGED <<speed_level, delay_count, presets, others, back, seg, level, max_c, i, speed, calibrations, lost, torn>>
        /\ pc' \in {"hook09", "init_level"} /\ want' \in {want, [want EXCEPT ![seg] = level]}
    BY <1>2 DEF Hook08, Hook09, words, locals, history
  <2>2. int08' \in Seq(Hook) /\ int09' \in Seq(Hook) /\ want' \in [Copies -> Levels]
    BY DEF IInv, Shaped
  <2> QED
    BY <2>1, <2>2 DEF TypeOK, ThrottleTypeOK, Places
<1>3. CASE InitLevel \/ StoreLevel
  <2>1. /\ UNCHANGED <<delay_count, presets, int08, int09, others, back, seg, level, max_c, i, speed, calibrations, want, lost>>
        /\ pc' \in {"init_delay", "set_delay"} /\ speed_level' \in [Copies -> Levels] /\ torn' \subseteq torn
    BY <1>3 DEF InitLevel, StoreLevel, hooks, locals, IInv, Shaped
  <2> QED
    BY <2>1 DEF TypeOK, ThrottleTypeOK, Places
<1>4. CASE InitDelay \/ StoreDelay
  <2>1. /\ UNCHANGED <<speed_level, presets, int08, int09, others, speed, calibrations, want, lost, torn>>
        /\ pc' = back /\ back' = "idle" /\ seg' = 0 /\ level' = 0 /\ max_c' = 0 /\ i' = 0
        /\ delay_count' = [delay_count EXCEPT ![seg] = presets[seg][level]]
    BY <1>4 DEF InitDelay, StoreDelay, Exit, hooks, history
  <2>2. delay_count' \in [Copies -> 0 .. Word - 1]
    BY <1>1, <2>1 DEF TypeOK, ThrottleTypeOK
  <2>3. /\ {pc', back'} \subseteq Places /\ seg' \in {0} \cup Copies /\ level' \in Levels
        /\ max_c' \in Nat /\ i' \in 0 .. 6
    BY <2>1 DEF TypeOK, ThrottleTypeOK, Places, Levels
  <2> QED
    BY <2>1, <2>2, <2>3 DEF TypeOK, ThrottleTypeOK
<1> QED
  BY <1>2, <1>3, <1>4

LEMMA TypeStep == IInv /\ TypeOK /\ [Next]_vars => TypeOK'
<1> SUFFICES ASSUME IInv, TypeOK, [Next]_vars PROVE TypeOK'
  OBVIOUS
<1>1. IInv'
  BY PlayStep
<1>2. CASE \E k \in Keys : PressKey(k)
  BY <1>2, TypeHotkey
<1>3. CASE AtPrompt /\ UNCHANGED playVars
  <2>1. CASE OtherInstalls
    <3>1. /\ UNCHANGED <<speed_level, delay_count, presets, pc, back, seg, level, max_c, i, speed, calibrations, want, lost, torn>>
          /\ others' = others + 1 /\ others < MaxOther
      BY <2>1 DEF OtherInstalls, words, locals, history
    <3>2. others' \in 0 .. MaxOther
      BY <3>1, ThrottleAssumption DEF ThrottleAssumption, TypeOK, ThrottleTypeOK
    <3>3. int08' \in Seq(Hook) /\ int09' \in Seq(Hook)
      BY <1>1 DEF IInv, Shaped
    <3>4. ThrottleTypeOK'
      BY <3>1, <3>2, <3>3 DEF TypeOK, ThrottleTypeOK
    <3> QED
      BY <1>3, <3>4 DEF TypeOK, playVars
  <2>2. ThrottleTypeOK'
    BY <1>1, <1>3, <2>1, TypeInstall, TypeSet, TypeUninstall, TypeCalibrate DEF AtPrompt, TypeOK
  <2> QED
    BY <1>3, <2>2 DEF TypeOK, playVars
<1>4. CASE Step /\ UNCHANGED playVars
  <2>1. ThrottleTypeOK'
    BY <1>1, <1>4, TypeWrites, TypeCalibrate DEF Step
  <2> QED
    BY <1>4, <2>1 DEF TypeOK, playVars
<1>5. CASE \E g \in Games : cmd_launch(g)
  <2>1. PICK g \in Games : cmd_launch(g)
    BY <1>5
  <2>2. /\ UNCHANGED <<speed_level, delay_count, presets, int08, int09, others, back, seg, level, max_c, i, speed, calibrations, want, lost, torn>>
        /\ pc' = "play_throttle" /\ game' = g /\ we_throttled' = FALSE /\ keyed' = FALSE
        /\ memProfile' \in {g.mem, memProfile}
    BY <2>1 DEF cmd_launch, words, hooks, locals, history
  <2> QED
    BY <2>2 DEF TypeOK, ThrottleTypeOK, Places
<1>6. CASE ApplyThrottle
  <2>1. UNCHANGED <<game, memProfile, keyed>> /\ we_throttled' \in BOOLEAN
    BY <1>6 DEF ApplyThrottle, TypeOK
  <2>2. game.level > 0 => game.level \in Levels
    BY PlayAssumption DEF PlayAssumption, NoGame, Levels, IInv, Shaped
  <2>3. CASE pc' = "game" /\ UNCHANGED <<words, presets, hooks, back, locals, speed, calibrations, history>>
    <3>1. UNCHANGED <<speed_level, delay_count, presets, int08, int09, others, back, seg, level, max_c, i, speed, calibrations, want, lost, torn>>
      BY <2>3 DEF words, hooks, locals, history
    <3> QED
      BY <2>1, <2>3, <3>1 DEF TypeOK, ThrottleTypeOK, Places
  <2>4. CASE game.level > 0 /\ (throttle_install(game.level, "game") \/ cmd_set(game.level, "game"))
    <3>1. ThrottleTypeOK'
      BY <2>2, <2>4, TypeInstall, TypeSet
    <3> QED
      BY <2>1, <3>1 DEF TypeOK
  <2> QED
    BY <1>6, <2>3, <2>4 DEF ApplyThrottle
<1>7. CASE GameEnds
  <2>1. /\ UNCHANGED <<speed_level, delay_count, presets, int08, int09, others, back, seg, level, max_c, i, speed, calibrations, want, lost, torn>>
        /\ pc' \in {"play_remove", "idle"} /\ UNCHANGED memProfile
        /\ game' \in {game, NoGame} /\ we_throttled' \in {we_throttled, FALSE} /\ keyed' \in {keyed, FALSE}
    BY <1>7 DEF GameEnds, Quit, words, hooks, locals, history
  <2> QED
    BY <2>1 DEF TypeOK, ThrottleTypeOK, Places
<1>8. CASE RemoveThrottle
  <2>1. ThrottleTypeOK'
    BY <1>1, <1>8, TypeUninstall DEF RemoveThrottle
  <2> QED
    BY <1>8, <2>1 DEF RemoveThrottle, Quit, TypeOK
<1>9. CASE UNCHANGED vars
  BY <1>9 DEF vars, throttleVars, playVars, words, hooks, locals, history, TypeOK, ThrottleTypeOK
<1> QED
  BY <1>2, <1>3, <1>4, <1>5, <1>6, <1>7, <1>8, <1>9 DEF Next

(* The ranges hold in every state, for any machine and any number of copies. *)
THEOREM PlayTypeOK == Spec => []TypeOK
<1>1. Init /\ [][Next]_vars => [](IInv /\ TypeOK)
  BY PlayInit, PlayStep, TypeInit, TypeStep, PTL
<1> QED
  BY <1>1, PTL DEF Spec

------------------------------------------------------------------------------
(* The presets of a copy rise with the level, on a machine that keeps       *)
(* preset 4 within a word.                                                  *)
Rises(c) ==
    (speed * 90) \div 100 < Word =>
        \A l, m \in Levels : l <= m => presets[c][l] <= presets[c][m]

(* CALIBRATE counts no more than the machine can, begins with preset 0, and *)
(* has written its shares up to preset i; all presets of every other copy   *)
(* rise, and OFF burns nothing in any.                                      *)
Counted ==
    /\ pc \notin {"preset", "read_level", "set_level", "set_delay"} => i = 0
    /\ pc = "preset" =>
          max_c <= speed /\ \A l \in Levels : l < i => presets[seg][l] = Share(l)
    /\ \A c \in Copies : (pc = "preset" /\ c = seg) \/ Rises(c)
    /\ \A c \in Copies : presets[c][0] = 0

LEMMA Ladder ==
    ASSUME NEW p \in [Levels -> Nat],
           p[0] <= p[1], p[1] <= p[2], p[2] <= p[3], p[3] <= p[4], p[4] <= p[5]
    PROVE  \A l, m \in Levels : l <= m => p[l] <= p[m]
<1>1. Levels = {0, 1, 2, 3, 4, 5}
  BY DEF Levels
<1>2. {p[0], p[1], p[2], p[3], p[4], p[5]} \subseteq Nat
  BY <1>1
<1> QED
  BY <1>1, <1>2

(* Of a count that keeps preset 4 within a word, only the share of preset 5 *)
(* can be cut, and then it is clamped.                                      *)
LEMMA SharesRise ==
    ASSUME max_c \in Nat, speed \in Nat, max_c <= speed, (speed * 90) \div 100 < Word
    PROVE  /\ Share(0) = 0 /\ Share(1) = 0
           /\ Share(1) <= Share(2) /\ Share(2) <= Share(3) /\ Share(3) <= Share(4)
           /\ Share(4) <= Word - 1
           /\ (max_c * 99) \div 100 <= Word - 1 => Share(4) <= Share(5)
<1>1. \A n \in Nat : n < Word => n % Word = n
  <2>1. \A n \in Nat, w \in Nat \ {0} : n < w => n % w = n
    BY SMT
  <2> QED
    BY <2>1, WordIs
<1>2. /\ (max_c * 0) \div 100 = 0
      /\ 0 <= (max_c * 33) \div 100 /\ (max_c * 33) \div 100 <= (max_c * 67) \div 100
      /\ (max_c * 67) \div 100 <= (max_c * 90) \div 100
      /\ (max_c * 90) \div 100 <= (max_c * 99) \div 100
      /\ (max_c * 90) \div 100 <= (speed * 90) \div 100
  BY SMT
<1>3. {(max_c * 0) \div 100, (max_c * 33) \div 100, (max_c * 67) \div 100, (max_c * 90) \div 100,
       (max_c * 99) \div 100, (speed * 90) \div 100} \subseteq Nat
  BY SMT
<1>4. /\ Share(0) = 0 /\ Share(1) = 0 /\ Share(2) = (max_c * 33) \div 100
      /\ Share(3) = (max_c * 67) \div 100 /\ Share(4) = (max_c * 90) \div 100
  BY <1>1, <1>2, <1>3, WordIs, ShareValue
<1>5. (max_c * 99) \div 100 <= Word - 1 => Share(5) = (max_c * 99) \div 100
  BY <1>1, <1>3, WordIs, ShareValue
<1> QED
  BY <1>2, <1>3, <1>4, <1>5, WordIs

LEMMA CountedInit == Init => Counted
<1> SUFFICES ASSUME Init PROVE Counted
  OBVIOUS
<1>1. Levels = {0, 1, 2, 3, 4, 5}
  BY DEF Levels
<1>2. /\ Defaults[0] = 0 /\ Defaults[1] = 0 /\ Defaults[2] = 5400
      /\ Defaults[3] = 10800 /\ Defaults[4] = 16200 /\ Defaults[5] = 17900
  BY <1>1 DEF Defaults
<1>3. Defaults \in [Levels -> Nat]
  BY <1>1, <1>2 DEF Defaults
<1>4. \A l, m \in Levels : l <= m => Defaults[l] <= Defaults[m]
  BY <1>2, <1>3, Ladder
<1> QED
  BY <1>2, <1>4 DEF Init, ThrottleInit, Counted, Rises

(* What leaves the presets alone and starts no count keeps them.            *)
LEMMA CountedKept ==
    ASSUME Counted, UNCHANGED <<presets, speed>>, pc # "preset" /\ pc' # "preset",
           i' = 0 \/ (i' = i /\ pc \notin {"preset", "read_level", "set_level", "set_delay"})
             \/ pc' \in {"preset", "read_level", "set_level", "set_delay"}
    PROVE  Counted'
  BY DEF Counted, Rises

LEMMA CountedStep == IInv /\ TypeOK /\ Counted /\ [Next]_vars => Counted'
<1> SUFFICES ASSUME IInv, TypeOK, Counted, [Next]_vars PROVE Counted'
  OBVIOUS
<1> USE DEF Inside
<1>1. CASE StorePreset
  <2>1. /\ pc = "preset" /\ i \in Levels /\ seg \in Copies /\ max_c \in Nat
        /\ presets \in [Copies -> [Levels -> 0 .. Word - 1]]
        /\ presets' = [presets EXCEPT ![seg][i] = Share(i)] /\ i' = i + 1
        /\ UNCHANGED <<pc, seg, max_c, speed>>
    BY <1>1 DEF StorePreset, IInv, Shaped, TypeOK, ThrottleTypeOK
  <2>2. \A l \in Levels : Share(l)' = Share(l)
    BY <2>1 DEF Share
  <2>3. presets'[seg][i] = Share(i) /\ \A l \in Levels : l # i => presets'[seg][l] = presets[seg][l]
    BY <2>1
  <2>4. \A c \in Copies : c # seg => presets'[c] = presets[c]
    BY <2>1
  <2>5. \A l \in Levels : l < i' => l = i \/ l < i
    BY <2>1 DEF Levels
  <2>6. presets'[seg][0] = 0
    <3>1. Share(0) = 0
      <4>1. (max_c * 0) \div 100 = 0 /\ 0 \in Nat
        BY <2>1, SMT
      <4>2. \A w \in Nat \ {0} : 0 % w = 0
        BY SMT
      <4> QED
        BY <4>1, <4>2, WordIs, ShareValue
    <3> QED
      BY <2>1, <2>3, <3>1 DEF Levels, Counted
  <2>7. \A l \in Levels : l < i' => presets'[seg'][l] = Share(l)'
    BY <2>1, <2>2, <2>3, <2>5 DEF Counted
  <2>8. \A c \in Copies : c = seg \/ Rises(c)'
    BY <2>1, <2>4 DEF Counted, Rises
  <2> QED
    BY <2>1, <2>4, <2>6, <2>7, <2>8 DEF Counted
<1>2. CASE Clamp
  <2>1. /\ pc = "preset" /\ pc' = "read_level" /\ i = 6 /\ seg \in Copies /\ max_c \in Nat
        /\ presets \in [Copies -> [Levels -> 0 .. Word - 1]] /\ speed \in Nat
        /\ UNCHANGED <<i, seg, max_c, speed>>
        /\ presets' = IF (max_c * 99) \div 100 > Word - 1
                      THEN [presets EXCEPT ![seg][5] = Word - 1] ELSE presets
    BY <1>2, ThrottleAssumption DEF ThrottleAssumption, Clamp, IInv, Shaped, TypeOK, ThrottleTypeOK, locals
  <2>2. Levels = {0, 1, 2, 3, 4, 5}
    BY DEF Levels
  <2>3. max_c <= speed /\ \A l \in Levels : presets[seg][l] = Share(l)
    BY <2>1, <2>2 DEF Counted
  <2>4. \A c \in Copies : c # seg => presets'[c] = presets[c]
    BY <2>1
  <2>5. /\ \A l \in Levels \ {5} : presets'[seg][l] = Share(l)
        /\ presets'[seg][5] = IF (max_c * 99) \div 100 > Word - 1 THEN Word - 1 ELSE Share(5)
    BY <2>1, <2>2, <2>3
  <2>6. presets'[seg] \in [Levels -> Nat]
    <3>1. \A n \in 0 .. Word - 1 : n \in Nat
      BY WordIs
    <3>2. Word - 1 \in Nat /\ presets[seg] \in [Levels -> Nat]
      BY <2>1, <3>1, WordIs
    <3> QED
      BY <2>1, <3>2
  <2>7. Rises(seg)'
    <3> SUFFICES ASSUME (speed * 90) \div 100 < Word
                 PROVE  \A l, m \in Levels : l <= m => presets'[seg][l] <= presets'[seg][m]
      BY <2>1 DEF Rises
    <3> DEFINE p == presets'[seg]
    <3>1. /\ p[0] = Share(0) /\ p[1] = Share(1) /\ p[2] = Share(2) /\ p[3] = Share(3) /\ p[4] = Share(4)
          /\ p[5] = IF (max_c * 99) \div 100 > Word - 1 THEN Word - 1 ELSE Share(5)
          /\ p \in [Levels -> Nat]
      BY <2>2, <2>5, <2>6
    <3>2. /\ Share(0) = 0 /\ Share(1) = 0
          /\ Share(1) <= Share(2) /\ Share(2) <= Share(3) /\ Share(3) <= Share(4)
          /\ Share(4) <= Word - 1
          /\ (max_c * 99) \div 100 <= Word - 1 => Share(4) <= Share(5)
      BY <2>1, <2>3, SharesRise
    <3>3. (max_c * 99) \div 100 \in Nat /\ Word - 1 \in Nat
      <4>1. (max_c * 99) \div 100 \in Nat
        BY <2>1, SMT
      <4> QED
        BY <4>1, WordIs
    <3> HIDE DEF p
    <3>4. p[0] <= p[1] /\ p[1] <= p[2] /\ p[2] <= p[3] /\ p[3] <= p[4] /\ p[4] <= p[5]
      BY <3>1, <3>2, <3>3
    <3>5. \A l, m \in Levels : l <= m => p[l] <= p[m]
      BY <3>1, <3>4, Ladder
    <3> QED
      BY <3>5 DEF p
  <2>8. \A c \in Copies : Rises(c)'
    BY <2>1, <2>4, <2>7 DEF Counted, Rises
  <2>9. presets'[seg][0] = 0
    BY <2>1, <2>2, <2>3, <2>5 DEF Counted
  <2> QED
    BY <2>1, <2>4, <2>8, <2>9 DEF Counted
<1>3. CASE pc = "idle" /\ cmd_calibrate
  <2>1. /\ pc' = "preset" /\ seg' \in Copies /\ i = 0 /\ UNCHANGED <<presets, i, speed>>
        /\ max_c' = IF Burn < speed THEN speed - Burn ELSE 1
    BY <1>3, FoundSeg DEF cmd_calibrate, Counted
  <2>2. max_c' <= speed'
    <3>1. Burn \in Nat
      <4>1. DOMAIN delay_count = Copies /\ \A c \in Copies : delay_count[c] \in 0 .. Word - 1
        BY DEF TypeOK, ThrottleTypeOK
      <4> QED
        BY <4>1, BurnType, WordIs
    <3>2. speed \in Nat \ {0}
      BY ThrottleAssumption DEF ThrottleAssumption, TypeOK, ThrottleTypeOK
    <3> QED
      BY <2>1, <3>1, <3>2
  <2>3. \A l \in Levels : ~ (l < i')
    BY <2>1 DEF Levels
  <2> QED
    BY <1>3, <2>1, <2>2, <2>3 DEF Counted, Rises
<1>4. CASE \E k \in Keys : PressKey(k)
  <2>1. UNCHANGED <<presets, pc, seg, max_c, i, speed>>
    BY <1>4 DEF PressKey, Hotkey, locals
  <2>2. \A l \in Levels : Share(l)' = Share(l)
    BY <2>1 DEF Share
  <2> QED
    BY <2>1, <2>2 DEF Counted, Rises
<1>5. CASE /\ AtPrompt
           /\ \/ \E l \in Levels : throttle_install(l, "idle") \/ cmd_set(l, "idle")
              \/ throttle_uninstall("idle") \/ OtherInstalls
  <2>1. /\ pc = "idle" /\ pc' # "preset" /\ UNCHANGED <<presets, i, speed>>
    BY <1>5 DEF AtPrompt, throttle_install, cmd_set, throttle_uninstall, OtherInstalls, locals
  <2> QED
    BY <2>1, CountedKept
<1>6. CASE Hook08 \/ Hook09 \/ InitLevel
  <2>1. /\ pc \in {"hook08", "hook09", "init_level"} /\ pc' # "preset" /\ UNCHANGED <<presets, i, speed>>
    BY <1>6 DEF Hook08, Hook09, InitLevel, locals
  <2> QED
    BY <2>1, CountedKept
<1>7. CASE InitDelay \/ StoreDelay
  <2>1. /\ pc \in {"init_delay", "set_delay"} /\ pc' # "preset" /\ i' = 0 /\ UNCHANGED <<presets, speed>>
    BY <1>7 DEF InitDelay, StoreDelay, Exit, IInv, Shaped
  <2> QED
    BY <2>1, CountedKept
<1>8. CASE StoreLevel \/ ReadLevel
  <2>1. /\ pc \in {"set_level", "read_level"} /\ pc' \in {"set_delay", "set_level"} /\ UNCHANGED <<presets, speed>>
    BY <1>8 DEF StoreLevel, ReadLevel
  <2> QED
    BY <2>1, CountedKept
<1>9. CASE (\E g \in Games : cmd_launch(g)) \/ ApplyThrottle \/ GameEnds \/ RemoveThrottle
  <2>1. /\ pc \in {"idle", "play_throttle", "game", "play_remove"} /\ pc' # "preset"
        /\ UNCHANGED <<presets, i, speed>>
    BY <1>9 DEF cmd_launch, ApplyThrottle, GameEnds, RemoveThrottle, throttle_install, cmd_set,
                throttle_uninstall, locals
  <2> QED
    BY <2>1, CountedKept
<1>10. CASE UNCHANGED vars
  <2>1. UNCHANGED <<presets, pc, seg, max_c, i, speed>>
    BY <1>10 DEF vars, throttleVars, locals
  <2>2. \A l \in Levels : Share(l)' = Share(l)
    BY <2>1 DEF Share
  <2> QED
    BY <2>1, <2>2 DEF Counted, Rises
<1> QED
  BY <1>1, <1>2, <1>3, <1>4, <1>5, <1>6, <1>7, <1>8, <1>9, <1>10 DEF Next, AtPrompt, Step

LEMMA CountedInvariant == Spec => [](IInv /\ TypeOK /\ Counted)
<1>1. Init /\ [][Next]_vars => [](IInv /\ TypeOK /\ Counted)
  BY PlayInit, PlayStep, TypeInit, TypeStep, CountedInit, CountedStep, PTL
<1> QED
  BY <1>1, PTL DEF Spec

(* Whatever copies were calibrated how often, under whatever delays: on a   *)
(* machine whose preset 4 fits a word a higher level never burns less.      *)
THEOREM PlayPresetsOrdered == Spec => []PresetsOrdered
<1>1. Counted => PresetsOrdered
  BY DEF Counted, Rises, PresetsOrdered
<1> QED
  BY CountedInvariant, <1>1, PTL

(* One press of Ctrl+Alt+0 takes all delay off, however many copies are on  *)
(* the chains and whatever hides them.                                      *)
THEOREM PlayOffMeansOff == Spec => OffMeansOff
<1>1. ASSUME IInv, TypeOK, Counted, pc = "idle", Hotkey("off") PROVE Burn' = 0
  <2>1. /\ int08 = int09 /\ UNCHANGED <<int08, int09, presets>> /\ "off" \in Keys
    BY <1>1 DEF Hotkey, hooks, IInv, Chained, Keys
  <2> DEFINE S == Range(int08) \cap Copies
  <2>2. S = Hooked /\ Touched("off") = Hooked
    BY <2>1 DEF Hooked, Touched
  <2>3. \A c \in S : delay_count'[c] = 0
    <3> TAKE c \in S
    <3>1. c \in Copies /\ c \in Touched("off")
      BY <2>2
    <3>2. speed_level'[c] = Turned("off", speed_level[c]) /\ delay_count'[c] = presets[c][speed_level'[c]]
      BY <1>1, <3>1 DEF Hotkey
    <3>3. speed_level'[c] = 0
      BY <3>2 DEF Turned
    <3> QED
      BY <1>1, <3>1, <3>2, <3>3 DEF Counted
  <2>4. IsFiniteSet(S)
    BY ThrottleAssumption, FS_Subset DEF ThrottleAssumption
  <2> HIDE DEF S
  <2>5. SumFunctionOnSet(delay_count', S) = 0
    BY <2>3, <2>4, SumValue
  <2> QED
    BY <2>1, <2>5 DEF Burn, S
<1>2. IInv /\ TypeOK /\ Counted /\ [Next]_vars => [pc = "idle" /\ Hotkey("off") => Burn' = 0]_throttleVars
  BY <1>1
<1> QED
  BY CountedInvariant, <1>2, PTL DEF Spec, OffMeansOff

------------------------------------------------------------------------------
(* The copies on the chain lie one behind the other in memory; a program of *)
(* someone else lies between any two of them, and DOS loads the next one    *)
(* behind them all.                                                         *)
Resident == Range(int08) \cap Copies

Loaded ==
    /\ Resident = 1 .. Cardinality(Resident)
    /\ Cardinality(Resident) <= others + (IF find_throttle_seg = 0 THEN 0 ELSE 1)
    /\ pc = "hook08" => seg = FreeSeg

LEMMA ResidentFinite == IsFiniteSet(Resident) /\ Cardinality(Resident) \in Nat
  BY ThrottleAssumption, FS_Subset, FS_CardinalityType DEF ThrottleAssumption, Resident

LEMMA LoadedInit == Init => Loaded
<1> SUFFICES ASSUME Init PROVE Loaded
  OBVIOUS
<1>1. Range(int08) = {} /\ find_throttle_seg = 0
  BY DEF Init, ThrottleInit, Range, find_throttle_seg
<1>2. Resident = {} /\ Cardinality(Resident) = 0
  BY <1>1, FS_EmptySet DEF Resident
<1> QED
  BY <1>1, <1>2 DEF Init, ThrottleInit, Loaded

(* What does not touch the chain.                                           *)
LEMMA LoadedKept ==
    ASSUME Loaded, UNCHANGED <<int08, others>>, pc' = "hook08" => seg' = FreeSeg
    PROVE  Loaded'
<1>1. Resident' = Resident /\ find_throttle_seg' = find_throttle_seg /\ FreeSeg' = FreeSeg
  BY DEF Resident, find_throttle_seg, FreeSeg
<1> QED
  BY <1>1 DEF Loaded

LEMMA LoadedStep == IInv /\ TypeOK /\ Loaded /\ [Next]_vars => Loaded'
<1> SUFFICES ASSUME IInv, TypeOK, Loaded, [Next]_vars PROVE Loaded'
  OBVIOUS
<1> USE NoCopyZero
<1>1. others \in Nat /\ others <= MaxOther /\ FreeSeg = Cardinality(Resident) + 1
  BY ThrottleAssumption DEF ThrottleAssumption, TypeOK, ThrottleTypeOK, FreeSeg, Resident
<1>2. CASE Hook08
  <2>1. /\ pc = "hook08" /\ pc' = "hook09" /\ int08' = <<seg>> \o int08 /\ UNCHANGED others
        /\ seg \in Copies /\ seg \in Hook /\ int08 \in Seq(Hook)
        /\ seg = Cardinality(Resident) + 1
    BY <1>1, <1>2 DEF Hook08, IInv, Shaped, Inside, Hook, Loaded
  <2>2. find_throttle_seg = 0
    BY <2>1 DEF IInv, Chained, find_throttle_seg
  <2>3. Range(int08') = Range(int08) \cup {seg}
    BY <2>1, ConsChain DEF IInv, Chained
  <2>4. find_throttle_seg' = seg
    <3>1. int08' # <<>> /\ Head(int08') = seg
      BY <2>1
    <3> QED
      BY <2>1, <3>1 DEF find_throttle_seg
  <2>5. Resident' = Resident \cup {seg} /\ seg \notin Resident
    <3>1. seg \notin Resident
      BY <2>1, ResidentFinite DEF Loaded
    <3> QED
      BY <2>1, <2>3, <3>1 DEF Resident
  <2>6. Cardinality(Resident') = Cardinality(Resident) + 1
    BY <2>5, ResidentFinite, FS_AddElement
  <2>7. Resident' = 1 .. Cardinality(Resident')
    BY <2>1, <2>5, <2>6, ResidentFinite DEF Loaded
  <2>8. Cardinality(Resident') <= others' + 1
    BY <1>1, <2>1, <2>2, <2>6, ResidentFinite DEF Loaded
  <2> QED
    BY <2>1, <2>4, <2>7, <2>8 DEF Loaded
<1>3. CASE OtherInstalls
  <2>1. /\ pc' # "hook08" /\ int08' = <<Other>> \o int08 /\ others' = others + 1
        /\ int08 \in Seq(Hook) /\ Other \in Hook
    BY <1>3 DEF OtherInstalls, IInv, Shaped, Hook
  <2>2. Range(int08') = Range(int08) \cup {Other}
    BY <2>1, ConsChain
  <2>3. Resident' = Resident
    BY <2>2 DEF Resident
  <2>4. find_throttle_seg' = 0
    <3>1. Head(int08') = Other
      BY <2>1
    <3> QED
      BY <3>1 DEF find_throttle_seg
  <2>5. Cardinality(Resident') <= others'
    BY <1>1, <2>1, <2>3, ResidentFinite DEF Loaded
  <2> QED
    BY <1>1, <2>1, <2>3, <2>4, <2>5 DEF Loaded
<1>4. ASSUME throttle_uninstall("idle") PROVE Loaded'
  <2>1. int08 # <<>> => Head(int08) # FreeSeg
    <3> SUFFICES ASSUME int08 # <<>>, Head(int08) = FreeSeg PROVE FALSE
      OBVIOUS
    <3>1. Head(int08) \in Range(int08) /\ Head(int08) \in Hook
      <4>1. int08 \in Seq(Hook)
        BY DEF IInv, Shaped
      <4>2. 1 \in DOMAIN int08 /\ Head(int08) = int08[1]
        BY <4>1
      <4> QED
        BY <4>1, <4>2 DEF Range
    <3>2. CASE Head(int08) = Other
      BY <1>1, <3>2, ResidentFinite DEF Other
    <3>3. CASE Head(int08) \in Copies
      <4>1. Head(int08) \in 1 .. Cardinality(Resident)
        BY <3>1, <3>3 DEF Resident, Loaded
      <4> QED
        BY <1>1, <4>1, ResidentFinite
    <3> QED
      BY <3>1, <3>2, <3>3 DEF Hook
  <2>2. UNCHANGED <<int08, others>> /\ pc' # "hook08"
    BY <1>4, <2>1 DEF throttle_uninstall
  <2> QED
    BY <2>2, LoadedKept
<1>5. CASE AtPrompt /\ ~ OtherInstalls
  <2>1. CASE throttle_uninstall("idle")
    BY <1>4, <2>1
  <2>2. CASE (\E l \in Levels : throttle_install(l, "idle") \/ cmd_set(l, "idle")) \/ cmd_calibrate
    <3>1. UNCHANGED <<int08, others>> /\ (pc' = "hook08" => seg' = FreeSeg)
      BY <2>2 DEF throttle_install, cmd_set, cmd_calibrate, hooks
    <3> QED
      BY <3>1, LoadedKept
  <2> QED
    BY <1>5, <2>1, <2>2 DEF AtPrompt
<1>6. CASE Step /\ ~ Hook08
  <2>1. UNCHANGED <<int08, others>> /\ pc' # "hook08"
    BY <1>6 DEF Step, Hook09, InitLevel, InitDelay, StoreLevel, StoreDelay, StorePreset, Clamp,
                ReadLevel, Exit, hooks, IInv, Shaped
  <2> QED
    BY <2>1, LoadedKept
<1>7. CASE (\E g \in Games : cmd_launch(g)) \/ GameEnds
  <2>1. UNCHANGED <<int08, others>> /\ pc' # "hook08"
    BY <1>7 DEF cmd_launch, GameEnds, hooks
  <2> QED
    BY <2>1, LoadedKept
<1>8. CASE ApplyThrottle
  <2>1. UNCHANGED <<int08, others>> /\ (pc' = "hook08" => seg' = FreeSeg)
    BY <1>8 DEF ApplyThrottle, throttle_install, cmd_set, hooks
  <2> QED
    BY <2>1, LoadedKept
<1>9. CASE RemoveThrottle
  BY <1>4, <1>9 DEF RemoveThrottle
<1>10. CASE (\E k \in Keys : PressKey(k)) \/ UNCHANGED vars
  <2>1. UNCHANGED <<int08, others, pc, seg>>
    BY <1>10 DEF PressKey, Hotkey, hooks, locals, vars, throttleVars
  <2> QED
    BY <2>1, LoadedKept DEF Loaded
<1> QED
  BY <1>2, <1>3, <1>5, <1>6, <1>7, <1>8, <1>9, <1>10 DEF Next

(* Where the newest hook is not a THROTTLE's and memory has room for one    *)
(* THROTTLE more than programs of others, another one can be loaded.        *)
LEMMA RoomForOne ==
    ASSUME Loaded, TypeOK, MaxOther < Cardinality(Copies), find_throttle_seg = 0
    PROVE  FreeSeg \in Copies
<1>1. Cardinality(Resident) <= MaxOther /\ Cardinality(Resident) \in Nat /\ MaxOther \in Nat
  BY ResidentFinite, ThrottleAssumption DEF ThrottleAssumption, Loaded, TypeOK, ThrottleTypeOK
<1>2. Resident # Copies
  BY <1>1, FS_CardinalityType, ThrottleAssumption DEF ThrottleAssumption
<1>3. PICK c \in Copies : c \notin Resident
  BY <1>2 DEF Resident
<1>4. c \in Nat \ {0} /\ 1 .. c \subseteq Copies
  BY ThrottleAssumption DEF ThrottleAssumption
<1>5. Cardinality(Resident) + 1 \in 1 .. c
  BY <1>1, <1>3, <1>4 DEF Loaded
<1> QED
  BY <1>4, <1>5 DEF FreeSeg, Resident

(* The player of a game with a preset has touched no key so far.            *)
Untouched == game.level > 0 /\ ~ keyed

(* THROTTLE or TCTL, called for the game, works on the newest hook and with *)
(* the level of the game, which then is that of this copy; CALIBRATE is     *)
(* never called for a game.                                                 *)
Dialed ==
    /\ pc \in {"preset", "read_level"} => back = "idle"
    /\ Untouched /\ back = "game" /\ pc \in Inside =>
          /\ level = game.level
          /\ pc # "hook08" => find_throttle_seg = seg
          /\ pc \in {"init_delay", "set_delay"} => speed_level[seg] = game.level
    /\ Untouched /\ pc = "game" =>
          find_throttle_seg # 0 /\ speed_level[find_throttle_seg] = game.level

LEMMA DialedStep ==
    ASSUME MaxOther < Cardinality(Copies)
    PROVE  IInv /\ TypeOK /\ Loaded /\ Dialed /\ [Next]_vars => Dialed'
<1> SUFFICES ASSUME IInv, TypeOK, Loaded, Dialed, [Next]_vars PROVE Dialed'
  OBVIOUS
<1> USE NoCopyZero DEF Inside
<1>1. CASE \E k \in Keys : PressKey(k)
  <2>1. UNCHANGED <<pc, back, game>> /\ keyed' = (game # NoGame)
    BY <1>1 DEF PressKey, Hotkey
  <2>2. ~ Untouched'
    <3>1. CASE game = NoGame
      <4>1. game' = NoGame
        BY <2>1, <3>1
      <4>2. ~ (game'.level > 0)
        BY <4>1 DEF NoGame
      <4> QED
        BY <4>2 DEF Untouched
    <3>2. CASE game # NoGame
      BY <2>1, <3>2, Zenon DEF Untouched
    <3> QED
      BY <3>1, <3>2
  <2> QED
    BY <2>1, <2>2 DEF Dialed
<1>2. CASE AtPrompt /\ UNCHANGED playVars
  <2>1. /\ back' = "idle" \/ pc' = "idle"
        /\ pc' \in {"idle", "hook08", "set_level", "preset"} /\ (pc' = "preset" => back' = "idle")
    BY <1>2 DEF AtPrompt, throttle_install, cmd_set, throttle_uninstall, cmd_calibrate, OtherInstalls
  <2> QED
    BY <2>1 DEF Dialed
<1>3. CASE Step /\ UNCHANGED playVars
  <2>1. UNCHANGED <<game, keyed>> /\ Untouched' = Untouched
    BY <1>3 DEF playVars, Untouched
  <2>2. CASE Hook08
    <3>1. /\ pc = "hook08" /\ pc' = "hook09" /\ int08' = <<seg>> \o int08 /\ seg \in Copies
          /\ UNCHANGED <<back, seg, level>> /\ int08 \in Seq(Hook)
      BY <2>2 DEF Hook08, locals, IInv, Shaped
    <3>2. int08' # <<>> /\ Head(int08') = seg
      BY <3>1
    <3>3. find_throttle_seg' = seg'
      BY <3>1, <3>2 DEF find_throttle_seg
    <3> QED
      BY <2>1, <3>1, <3>3 DEF Dialed
  <2>3. CASE Hook09
    <3>1. pc = "hook09" /\ pc' = "init_level" /\ UNCHANGED <<int08, back, seg, level>>
      BY <2>3 DEF Hook09, locals
    <3> QED
      BY <2>1, <3>1 DEF Dialed, find_throttle_seg
  <2>4. CASE InitLevel \/ StoreLevel
    <3>1. /\ pc \in {"init_level", "set_level"} /\ pc' \in {"init_delay", "set_delay"}
          /\ UNCHANGED <<int08, back, seg, level>>
          /\ speed_level' = [speed_level EXCEPT ![seg] = level] /\ seg \in Copies
      BY <2>4 DEF InitLevel, StoreLevel, hooks, locals, IInv, Shaped
    <3>2. speed_level'[seg] = level
      BY <3>1 DEF IInv, Shaped
    <3> QED
      BY <2>1, <3>1, <3>2 DEF Dialed, find_throttle_seg
  <2>5. CASE InitDelay \/ StoreDelay
    <3>1. /\ pc \in {"init_delay", "set_delay"} /\ pc' = back /\ back' = "idle"
          /\ UNCHANGED <<int08, speed_level>> /\ seg \in Copies /\ back \in {"idle", "game"}
      BY <2>5 DEF InitDelay, StoreDelay, Exit, hooks, IInv, Shaped
    <3>2. find_throttle_seg' = find_throttle_seg
      BY <3>1 DEF find_throttle_seg
    <3> QED
      BY <2>1, <3>1, <3>2 DEF Dialed
  <2>6. CASE StorePreset \/ Clamp \/ ReadLevel
    <3>1. /\ pc \in {"preset", "read_level"} /\ pc' \in {"preset", "read_level", "set_level"}
          /\ UNCHANGED back
      BY <2>6 DEF StorePreset, Clamp, ReadLevel
    <3> QED
      BY <3>1 DEF Dialed
  <2> QED
    BY <1>3, <2>2, <2>3, <2>4, <2>5, <2>6 DEF Step
<1>4. CASE (\E g \in Games : cmd_launch(g)) \/ GameEnds \/ RemoveThrottle
  <2>1. pc' \in {"play_throttle", "play_remove", "idle"}
    BY <1>4 DEF cmd_launch, GameEnds, RemoveThrottle, throttle_uninstall
  <2> QED
    BY <2>1 DEF Dialed
<1>5. CASE ApplyThrottle
  <2>1. UNCHANGED <<game, keyed>> /\ Untouched' = Untouched /\ pc = "play_throttle"
    BY <1>5 DEF ApplyThrottle, Untouched
  <2>2. CASE game.level <= 0 /\ pc' = "game"
    <3>1. ~ Untouched
      BY <2>2, PlayAssumption DEF PlayAssumption, Untouched, NoGame, IInv, Shaped
    <3> QED
      BY <2>1, <2>2, <3>1 DEF Dialed
  <2>3. CASE find_throttle_seg = 0 /\ throttle_install(game.level, "game")
    <3>1. FreeSeg \in Copies
      BY <2>3, RoomForOne
    <3>2. pc' = "hook08" /\ level' = game.level
      BY <2>3, <3>1 DEF throttle_install
    <3> QED
      BY <2>1, <3>2 DEF Dialed
  <2>4. CASE find_throttle_seg # 0 /\ cmd_set(game.level, "game")
    <3>1. pc' = "set_level" /\ level' = game.level /\ seg' = find_throttle_seg /\ UNCHANGED int08
      BY <2>4 DEF cmd_set, hooks
    <3> QED
      BY <2>1, <3>1 DEF Dialed, find_throttle_seg
  <2> QED
    BY <1>5, <2>2, <2>3, <2>4 DEF ApplyThrottle
<1>6. CASE UNCHANGED vars
  BY <1>6 DEF vars, throttleVars, playVars, words, hooks, locals, Dialed, Untouched, find_throttle_seg
<1> QED
  BY <1>1, <1>2, <1>3, <1>4, <1>5, <1>6 DEF Next

LEMMA GameMeans == IInv /\ TypeOK /\ Loaded /\ Dialed => GameAtItsLevel
<1> SUFFICES ASSUME IInv, TypeOK, Loaded, Dialed, pc = "game", game.level > 0, ~ keyed
             PROVE  LET c == find_throttle_seg
                    IN  /\ c # 0 /\ speed_level[c] = game.level
                        /\ c \notin torn => delay_count[c] = presets[c][game.level]
                        /\ others = 0 /\ c \notin torn => Burn = delay_count[c]
  BY DEF GameAtItsLevel
<1> DEFINE c == find_throttle_seg
<1>1. c # 0 /\ speed_level[c] = game.level /\ c \in Copies
  BY FoundSeg DEF Dialed, Untouched
<1>2. c \notin torn => delay_count[c] = presets[c][game.level]
  BY <1>1 DEF IInv, Agree, Agrees
<1>3. ASSUME others = 0 PROVE Burn = delay_count[c]
  <2>1. c \in Resident
    <3>1. int08 # <<>> /\ Head(int08) = c /\ int08 \in Seq(Hook)
      BY <1>1 DEF find_throttle_seg, IInv, Shaped
    <3>2. 1 \in DOMAIN int08 /\ int08[1] = c
      BY <3>1
    <3> HIDE DEF c
    <3> QED
      BY <1>1, <3>2 DEF Resident, Range
  <2>2. Cardinality(Resident) <= 1 /\ Resident = 1 .. Cardinality(Resident)
    BY <1>1, <1>3 DEF Loaded
  <2>3. Resident = {c}
    <3> HIDE DEF c
    <3> QED
      BY <2>1, <2>2, ResidentFinite
  <2>4. \A x \in Resident : delay_count[x] \in Nat
    BY WordIs DEF Resident, TypeOK, ThrottleTypeOK
  <2>5. SumFunctionOnSet(delay_count, Resident) = delay_count[c]
    BY <2>3, <2>4, ResidentFinite, SumValue
  <2> QED
    BY <2>5 DEF Burn, Resident
<1> QED
  BY <1>1, <1>2, <1>3

(* A game with a preset runs at it, and the machine burns what CALIBRATE    *)
(* last gave for it, unless its player turned the dial; whatever THROTTLEs  *)
(* earlier games, the user or programs of others left on the chains, as     *)
(* long as memory has room for one THROTTLE more than programs of others.   *)
THEOREM PlayGameAtItsLevel ==
    ASSUME MaxOther < Cardinality(Copies)
    PROVE  Spec => []GameAtItsLevel
<1>1. Init => Dialed
  BY DEF Init, ThrottleInit, NoGame, Dialed, Untouched, Inside
<1>2. IInv /\ TypeOK /\ Loaded /\ Dialed /\ [Next]_vars => Dialed'
  BY DialedStep
<1>3. Init /\ [][Next]_vars => [](IInv /\ TypeOK /\ Loaded /\ Dialed)
  BY <1>1, <1>2, PlayInit, PlayStep, TypeInit, TypeStep, LoadedInit, LoadedStep, PTL
<1> QED
  BY <1>3, GameMeans, PTL DEF Spec
==============================================================================
