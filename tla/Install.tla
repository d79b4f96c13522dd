------------------------------ MODULE Install -------------------------------
(***************************************************************************)
(* NOS-INSTALL, src/install/install.c: the screens of the installer and    *)
(* the copy of the INSTALL tree from the disc to drive C:.  DOS knows one  *)
(* search at a time, in the DTA, so that copy_tree must not descend while  *)
(* it still searches.  Module Startup adds what is started from C:.        *)
(***************************************************************************)
EXTENDS Integers, Sequences, FiniteSets, Functions, SequencesExt

CONSTANTS Root, Entries,    \* the INSTALL tree: what each directory lists, in order
          MAX_SUBDIRS,      \* directories of one level that are remembered: 32
          Others,           \* names of files on C: that are not in the tree
          MaxTroubles       \* bound: writes that go wrong after a FORMAT

Dirs == DOMAIN Entries
TreeFiles == (UNION {ToSet(Entries[d]) : d \in Dirs}) \ Dirs
File == TreeFiles \cup Others

ASSUME InstallAssumption ==
    /\ Root \in Dirs /\ MAX_SUBDIRS \in Nat /\ MaxTroubles \in Nat
    /\ IsFiniteSet(TreeFiles) /\ \A d \in Dirs : Entries[d] \in Seq(STRING)
    \* a name stands for a whole path: the root is listed nowhere, the others once
    /\ \A d \in Dirs : Root \notin ToSet(Entries[d])
    /\ \A d, e \in Dirs : \A i \in DOMAIN Entries[d], j \in DOMAIN Entries[e] :
          Entries[d][i] = Entries[e][j] => d = e /\ i = j
    /\ {"CONFIG.SYS", "AUTOEXEC.BAT"} \subseteq TreeFiles
    /\ "WELCOMED" \in Others /\ TreeFiles \cap Others = {}

VARIABLES step,         \* STEP_... of main, or "exit"
          frames,       \* the calls of copy_tree: directory, subdirs, index
          dta,          \* the search DOS is engaged in
          g_files_done,
          disk,         \* what each file of C: holds: "none", "torn", "boot" as on
                        \* the disc, or what other programs write
          tried,        \* history: the files that copy_tree came to
          visited,      \* history: the directories it went through
          wiped,        \* history: FORMAT did its work
          troubles,     \* history: since then, writes that went wrong or were cut
          blocked       \* files of C: that nobody can open to write: read-only, say

installVars == <<step, frames, dta, g_files_done, disk, tried, visited, wiped, troubles>>

NoSearch == [dir |-> Root, n |-> 0]
Blank == [f \in File |-> "none"]

(* The memory of the program as it starts (main), or when it is gone.       *)
Memory(s) ==
    /\ step' = s
    /\ frames' = <<>> /\ dta' = NoSearch /\ g_files_done' = 0
    /\ tried' = <<>> /\ visited' = {}

InstallInit(d) ==
    /\ step = "exit" /\ frames = <<>> /\ dta = NoSearch /\ g_files_done = 0
    /\ disk = d
    /\ tried = <<>> /\ visited = {} /\ wiped = FALSE /\ troubles = 0

------------------------------------------------------------------------------
(* The screens.  A key that a screen does not know draws it again.          *)
Asked(now, then, key) ==
    /\ step = now
    /\ \/ key = "Esc" /\ Memory("exit")
       \/ /\ key = "Enter" /\ step' = then
          /\ UNCHANGED <<frames, dta, g_files_done, tried, visited>>
    /\ UNCHANGED <<disk, wiped, troubles>>

(* Drive C: and the disc are looked for each time the screen is drawn.      *)
Preflight(c_ok, cd, key) ==
    /\ key = "Enter" => c_ok /\ cd
    /\ Asked("PREFLIGHT", "CONFIRM", key)

Format(key) ==
    /\ step = "FORMAT"
    /\ \/ key = "Esc" /\ Memory("exit") /\ UNCHANGED <<disk, wiped, troubles>>
       \/ /\ key # "Esc" /\ step' = "COPY"
          /\ \/ disk' = Blank /\ wiped' = TRUE /\ troubles' = 0
             \/ UNCHANGED <<disk, troubles>> /\ wiped' = FALSE   \* FORMAT was refused or failed
          /\ UNCHANGED <<frames, dta, g_files_done, tried, visited>>

Screens ==
    \E key \in {"Enter", "Esc", "other"} :
        \/ Asked("WELCOME", "PREFLIGHT", key)
        \/ \E c_ok, cd \in BOOLEAN : Preflight(c_ok, cd, key)
        \/ Asked("CONFIRM", "FORMAT", key)
        \/ Format(key)

------------------------------------------------------------------------------
Top == Last(frames)
SetTop(f) == frames' = [frames EXCEPT ![Len(frames)] = f]

(* A call of copy_tree begins with a search of its directory; index 0 says  *)
(* that the find loop is on.                                                *)
Called(d) == [dir |-> d, subdirs |-> <<>>, i |-> 0]

Trouble == troubles < MaxTroubles /\ troubles' = troubles + 1

(* A write ends with the file as meant, or cut short.                       *)
Written(f, content) ==
    /\ f \notin blocked
    /\ \/ disk' = [disk EXCEPT ![f] = content] /\ UNCHANGED troubles
       \/ disk' = [disk EXCEPT ![f] = "torn"] /\ Trouble

Unopened(f) == f \in blocked /\ UNCHANGED <<disk, troubles>>

(* remove(), whose result nobody looks at: DOS does not delete a file it    *)
(* does not let be written.                                                 *)
Removed(f) == disk' = IF f \in blocked THEN disk ELSE [disk EXCEPT ![f] = "none"]

(* copy_file: it may fail to open either file, or to write all of it; a     *)
(* read that fails, or a last block that fclose cannot write, is a success. *)
copy_file(f) ==
    \/ Written(f, "boot") /\ g_files_done' = g_files_done + 1
    \/ Unopened(f) /\ UNCHANGED g_files_done
    \/ /\ f \notin blocked /\ Trouble /\ UNCHANGED g_files_done
       /\ disk' \in {disk, [disk EXCEPT ![f] = "torn"]}

(* The entry that the search stands at.                                     *)
Found == Entries[dta.dir][dta.n]
Searching == frames # <<>> /\ Top.i = 0 /\ dta.n <= Len(Entries[dta.dir])

FoundFile ==
    /\ Searching /\ Found \notin Dirs
    /\ copy_file(Found)
    /\ tried' = Append(tried, Found)
    /\ dta' = [dta EXCEPT !.n = @ + 1]
    /\ UNCHANGED <<step, frames, visited, wiped>>

(* mutant: a directory is entered as soon as it is found *)
FoundDirDescends ==
    /\ Searching /\ Found \in Dirs
    /\ frames' = Append(frames, Called(Found))
    /\ dta' = [dir |-> Found, n |-> 1]
    /\ visited' = visited \cup {Found}
    /\ UNCHANGED <<step, g_files_done, disk, tried, wiped, troubles>>

FoundDir ==
    /\ Searching /\ Found \in Dirs
    /\ SetTop([Top EXCEPT !.subdirs = IF Len(@) < MAX_SUBDIRS THEN Append(@, Found) ELSE @])
    /\ dta' = [dta EXCEPT !.n = @ + 1]
    /\ UNCHANGED <<step, g_files_done, disk, tried, visited, wiped, troubles>>

LoopEnds ==
    /\ frames # <<>> /\ Top.i = 0 /\ ~ Searching
    /\ SetTop([Top EXCEPT !.i = 1])
    /\ UNCHANGED <<step, dta, g_files_done, disk, tried, visited, wiped, troubles>>

(* The call from main, and those for the directories remembered.            *)
Descend ==
    /\ step = "COPY"
    /\ \/ /\ frames = <<>>
          /\ frames' = <<Called(Root)>> /\ dta' = [dir |-> Root, n |-> 1]
          /\ visited' = {Root}
       \/ /\ frames # <<>> /\ Top.i \in 1 .. Len(Top.subdirs)
          /\ LET d == Top.subdirs[Top.i]
             IN  /\ frames' = Append([frames EXCEPT ![Len(frames)].i = @ + 1], Called(d))
                 /\ dta' = [dir |-> d, n |-> 1]
                 /\ visited' = visited \cup {d}
    /\ UNCHANGED <<step, g_files_done, disk, tried, wiped, troubles>>

Return ==
    /\ frames # <<>> /\ Top.i > Len(Top.subdirs)
    /\ frames' = Front(frames)
    /\ step' = IF Len(frames) > 1 THEN step
               ELSE IF g_files_done = 0 THEN "ERROR" ELSE "FLAG"
    /\ UNCHANGED <<dta, g_files_done, disk, tried, visited, wiped, troubles>>

------------------------------------------------------------------------------
(* mutant: the flag of an earlier installation stays *)
KeepFlag ==
    /\ step = "FLAG" /\ step' = "CONFIG"
    /\ UNCHANGED <<frames, dta, g_files_done, disk, tried, visited, wiped, troubles>>

RemoveFlag ==
    /\ step = "FLAG" /\ step' = "CONFIG"
    /\ Removed("WELCOMED")
    /\ UNCHANGED <<frames, dta, g_files_done, tried, visited, wiped, troubles>>

(* CONFIG.SYS and AUTOEXEC.BAT are written once more, whatever copy_tree    *)
(* made of them; an error is passed over.                                   *)
Bootstrap(f, now, then) ==
    /\ step = now /\ step' = then
    /\ Written(f, "boot") \/ Unopened(f)
    /\ UNCHANGED <<frames, dta, g_files_done, tried, visited, wiped>>

(* The last screens; Enter on the first reboots, which ends the program too.*)
Leave ==
    /\ step \in {"DONE", "ERROR"} /\ Memory("exit")
    /\ UNCHANGED <<disk, wiped, troubles>>

(* What is blocked stays so: module Startup says it once for all its steps. *)
InstallNext ==
    \/ Screens
    \/ FoundFile \/ FoundDir \/ LoopEnds \/ Descend \/ Return
    \/ RemoveFlag
    \/ Bootstrap("CONFIG.SYS", "CONFIG", "AUTOEXEC")
    \/ Bootstrap("AUTOEXEC.BAT", "AUTOEXEC", "DONE")
    \/ Leave

------------------------------------------------------------------------------
Steps == {"WELCOME", "PREFLIGHT", "CONFIRM", "FORMAT", "COPY", "FLAG", "CONFIG",
          "AUTOEXEC", "DONE", "ERROR", "exit"}

(* Type invariant of the variables of this module.                          *)
InstallTypeOK ==
    /\ step \in Steps
    /\ \A k \in DOMAIN frames :
          /\ frames[k].dir \in Dirs /\ frames[k].subdirs \in Seq(Dirs)
          /\ frames[k].i \in 0 .. Len(frames[k].subdirs) + 1
    /\ dta.dir \in Dirs /\ dta.n \in 0 .. Len(Entries[dta.dir]) + 1
    /\ g_files_done \in 0 .. Cardinality(TreeFiles)
    /\ DOMAIN disk = File
    /\ tried \in Seq(TreeFiles) /\ visited \subseteq Dirs
    /\ wiped \in BOOLEAN /\ troubles \in 0 .. MaxTroubles /\ blocked \subseteq File

(* The directories of d that copy_tree has room for: those with fewer than  *)
(* MAX_SUBDIRS listed before them.                                          *)
SubdirsBefore(d, n) == {k \in 1 .. (n - 1) : Entries[d][k] \in Dirs}
FirstSubdirs(d, n) ==
    {Entries[d][k] : k \in {m \in SubdirsBefore(d, n) :
                               Cardinality(SubdirsBefore(d, m)) < MAX_SUBDIRS}}
Remembered(d) == FirstSubdirs(d, Len(Entries[d]) + 1)

(* copy_tree (540-607), one DTA for every level of it: when it is through,  *)
(* it has come once to every file of the root and of every directory that   *)
(* it has room to remember.                                                 *)
EveryFileOnce ==
    step \in {"FLAG", "ERROR"} =>
        /\ IsInjective(tried)
        /\ \A d \in visited :
              /\ ToSet(Entries[d]) \ Dirs \subseteq ToSet(tried)
              /\ Remembered(d) \subseteq visited
==============================================================================
