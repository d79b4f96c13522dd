-------------------------------- MODULE Shell -------------------------------
(***************************************************************************)
(* NOS-SHELL, src/shell/shell.c: two panels over one disk, the commands of  *)
(* the function keys with their dialogs (dialog.c, shellcfg.c), the viewer  *)
(* and the launcher.  A program started from the shell may change the disk, *)
(* and DOS may refuse any call.                                             *)
(***************************************************************************)
EXTENDS Panel, Viewer

CONSTANTS Start,        \* what may be on the disk at first
          Home,         \* the current directory of DOS at first
          Keys,         \* the keys the user of this instance presses
          Typed,        \* destinations typed into the field, with and without a last "\"
          NewNames,     \* names typed for a new directory, and used by other programs
          Cut,          \* a name that the input field has cut short
          DLG_FIELD_W,  \* names of a path that the field has room for
          Text,         \* what the viewer may find in a file of a size
          Menus,        \* what LAUNCHER.CFG may hold: a sequence of lines
          MaxChanges    \* bound: changes of the disk

ASSUME ShellAssumption ==
    /\ Home \in Path /\ Len(Home) > 0 /\ MaxChanges \in Nat
    /\ \A d \in Start : IsFiniteSet(DOMAIN d) /\ \A p \in DOMAIN d :
          /\ p \in Path /\ Len(p) > 1 /\ IsDir(d, Front(p))
          /\ d[p] \in [is_dir : BOOLEAN, size : DOMAIN Text, date : Nat]
    /\ \A to \in Typed : to.path \in Path /\ Len(to.path) > 0 /\ to.slash \in BOOLEAN
    /\ {0, 1} \subseteq DOMAIN Text /\ DOMAIN Text \subseteq Nat
    /\ \A size \in DOMAIN Text : Text[size] \subseteq Seq(STRING)
    /\ Menus \subseteq Seq(STRING)
    /\ NewNames \subseteq Names /\ Cut \in Names /\ DLG_FIELD_W \in Nat \ {0}

VARIABLES disk,
          panels, active,
          mode,         \* who waits for the key: see Modes
          job,          \* the command a dialog belongs to, its source and destination
          choice,       \* the line of the sort dialog the cursor is on
          viewer, launcher,
          cfg,          \* SHELL.CFG: a sort order, "none", or "torn"
          stale,        \* history: another program ran since the panels were read
          unsaved,      \* history: the last nos_cfg_save went wrong
          short,        \* history: the last copy was cut short
          changes

vars == <<disk, panels, active, mode, job, choice, viewer, launcher, cfg,
          stale, unsaved, short, changes>>

Sides == {"left", "right"}
Other(side) == IF side = "left" THEN "right" ELSE "left"
ap == panels[active]
ip == panels[Other(active)]

NoJob == [cmd |-> "none", src |-> <<>>, dst |-> <<>>, reread |-> FALSE]
NoViewer == [text |-> <<>>, lines |-> <<>>, top |-> 0, hex |-> FALSE]
NoLauncher == [entries |-> <<>>, cursor |-> 0, scroll |-> 0]

SortOrder == <<"name", "ext", "size", "date">>

Files == <<disk, short, changes>>
Programs == <<choice, viewer, launcher>>

ReadBoth(d) == panels' = [side \in Sides |-> nos_panel_read_dir(d, panels[side])]

------------------------------------------------------------------------------
(* DOS.  An existing path, or one whose directory does not exist, refuses   *)
(* to become a new name; so may any other, for reasons of its own.          *)
Room == changes < MaxChanges
Creatable(dst) == Len(dst) > 1 /\ IsDir(disk, Front(dst))
Writable(dst) == Creatable(dst) /\ ~ IsDir(disk, dst)

Without(path) == [p \in {q \in DOMAIN disk : ~ Inside(q, path)} |-> disk[p]]
With(d, path, at) == [p \in DOMAIN d \cup {path} |-> IF p = path THEN at ELSE d[p]]

Moved(p, src, dst) == dst \o SubSeq(p, Len(src) + 1, Len(p))
Renamed(src, dst) ==
    LET kept == Without(src)
        moved == {Moved(q, src, dst) : q \in {r \in DOMAIN disk : Inside(r, src)}}
    IN  [p \in DOMAIN kept \cup moved |->
            IF p \in moved THEN disk[Moved(p, dst, src)] ELSE kept[p]]

CanRename(src, dst) ==
    /\ PathExists(disk, src) /\ src[1] = dst[1]
    /\ Creatable(dst) /\ ~ PathExists(disk, dst) /\ ~ Inside(dst, src)

Unchanged == UNCHANGED Files
Changed(d) == Room /\ disk' = d /\ changes' = changes + 1 /\ short' = FALSE

(* copy_file, when both files open: the destination is emptied before the   *)
(* source is read, and nobody looks whether it was written in full.  Then   *)
(* the paths in gone are removed.                                           *)
Copied(src, dst, gone) ==
    /\ PathExists(disk, src) /\ ~ IsDir(disk, src) /\ Writable(dst)
    /\ Room /\ changes' = changes + 1
    /\ \E cut \in {FALSE, src # dst} :
          LET size == IF cut \/ src = dst THEN 0 ELSE disk[src].size
              written == With(disk, dst, File(size, 1))
          IN  /\ short' = cut
              /\ disk' = [p \in DOMAIN written \ gone |-> written[p]]

------------------------------------------------------------------------------
(* mutant: only the panel that has the focus is read again *)
EndsOneSide ==
    /\ mode' = "run" /\ job' = NoJob
    /\ panels' = [panels EXCEPT ![active] = nos_panel_read_dir(disk', @)] /\ stale' = FALSE

(* A command ends: with the panels read again, or with a message first.     *)
Ends ==
    /\ mode' = "run" /\ job' = NoJob
    /\ ReadBoth(disk') /\ stale' = FALSE

Fails ==
    /\ mode' = "msg" /\ job' = [NoJob EXCEPT !.reread = TRUE]
    /\ UNCHANGED <<panels, stale>>

MsgDismissed ==
    /\ mode = "msg" /\ Unchanged
    /\ IF job.reread THEN Ends
       ELSE mode' = "run" /\ job' = NoJob /\ UNCHANGED <<panels, stale>>
    /\ UNCHANGED <<active, Programs, cfg, unsaved>>

Ask(dialog, cmd) ==
    /\ mode' = dialog
    /\ job' = [NoJob EXCEPT !.cmd = cmd, !.src = nos_panel_cursor_path(ap)]
    /\ UNCHANGED <<Files, panels, active, Programs, cfg, stale, unsaved>>

HasEntry == ap.files # <<>>
OnDotDot == AtCursor(ap).name = ".."

action_copy ==
    /\ mode = "run" /\ "F5" \in Keys /\ HasEntry
    /\ Ask(IF AtCursor(ap).is_dir THEN "msg" ELSE "input", "copy")

action_move ==
    /\ mode = "run" /\ "F6" \in Keys /\ HasEntry /\ ~ OnDotDot
    /\ Ask("input", "move")

action_mkdir ==
    /\ mode = "run" /\ "F7" \in Keys
    /\ Ask("input", "mkdir")

action_delete ==
    /\ mode = "run" /\ "F8" \in Keys /\ HasEntry /\ ~ OnDotDot
    /\ Ask("confirm", "delete")

(* nos_dlg_input proposes the directory of the other panel, cut at the end  *)
(* of the field; a destination that ends in "\" gets the name of the source.*)
Proposed ==
    IF Len(ip.path) <= DLG_FIELD_W THEN [path |-> ip.path, slash |-> TRUE]
    ELSE [path |-> Append(SubSeq(ip.path, 1, DLG_FIELD_W - 1), Cut), slash |-> FALSE]

Destination ==
    \E to \in Typed \cup {Proposed} :
        job' = [job EXCEPT !.dst = IF to.slash THEN Append(to.path, Last(job.src)) ELSE to.path]

EntersDestination ==
    /\ mode = "input" /\ job.cmd \in {"copy", "move"} /\ job.dst = <<>>
    /\ Destination
    /\ UNCHANGED <<Files, panels, active, mode, Programs, cfg, stale, unsaved>>

Cancels ==
    /\ mode \in {"input", "confirm"} /\ job.dst = <<>>
    /\ mode' = "run" /\ job' = NoJob
    /\ UNCHANGED <<Files, panels, active, Programs, cfg, stale, unsaved>>

Copy ==
    /\ mode = "input" /\ job.cmd = "copy" /\ job.dst # <<>>
    /\ \/ Copied(job.src, job.dst, {}) /\ Ends
       \/ Unchanged /\ Fails
    /\ UNCHANGED <<active, Programs, cfg, unsaved>>

(* mutant: the source goes, whatever the copy said *)
MoveRemovesAlways ==
    /\ mode = "input" /\ job.cmd = "move" /\ job.dst # <<>>
    /\ LET src == job.src dst == job.dst
       IN  \/ CanRename(src, dst) /\ Changed(Renamed(src, dst)) /\ Ends
           \/ PathExists(disk, src) /\ ~ IsDir(disk, src) /\ Changed(Without(src)) /\ Ends
           \/ Unchanged /\ Fails
    /\ UNCHANGED <<active, Programs, cfg, unsaved>>

(* rename; or, for a file, copy_file and then remove, whose result nobody   *)
(* looks at.                                                                *)
Move ==
    /\ mode = "input" /\ job.cmd = "move" /\ job.dst # <<>>
    /\ LET src == job.src dst == job.dst
       IN  \/ CanRename(src, dst) /\ Changed(Renamed(src, dst)) /\ Ends
           \/ \E gone \in {{}, {src}} : Copied(src, dst, gone) /\ Ends
           \/ Unchanged /\ Fails
    /\ UNCHANGED <<active, Programs, cfg, unsaved>>

Mkdir ==
    /\ mode = "input" /\ job.cmd = "mkdir"
    /\ \E name \in NewNames :
          LET full == Append(ap.path, name)
          IN  \/ /\ Creatable(full) /\ ~ PathExists(disk, full)
                 /\ Changed(With(disk, full, [Directory EXCEPT !.date = 1])) /\ Ends
              \/ Unchanged /\ Fails
    /\ UNCHANGED <<active, Programs, cfg, unsaved>>

(* mutant: the panel is read again before the path is put together *)
DeleteRereads ==
    /\ mode = "confirm"
    /\ LET src == nos_panel_cursor_path(nos_panel_read_dir(disk, ap))
       IN  \/ /\ PathExists(disk, src) /\ ~ \E p \in DOMAIN disk : p # src /\ Inside(p, src)
              /\ Changed(Without(src)) /\ Ends
           \/ Unchanged /\ Fails
    /\ UNCHANGED <<active, Programs, cfg, unsaved>>

(* rmdir or remove: a directory must be empty.                              *)
Delete ==
    /\ mode = "confirm"
    /\ \/ /\ PathExists(disk, job.src) /\ ~ \E p \in DOMAIN disk : p # job.src /\ Inside(p, job.src)
          /\ Changed(Without(job.src)) /\ Ends
       \/ Unchanged /\ Fails
    /\ UNCHANGED <<active, Programs, cfg, unsaved>>

------------------------------------------------------------------------------
(* Keys of the panels.                                                      *)
Deltas == [Up |-> -1, Down |-> 1, PgUp |-> -INNER_H, PgDn |-> INNER_H, Home |-> -512, End |-> 512]

MoveCursor ==
    /\ mode = "run"
    /\ \E key \in DOMAIN Deltas \cap Keys :
          panels' = [panels EXCEPT ![active] = nos_panel_move_cursor(@, Deltas[key])]
    /\ UNCHANGED <<Files, active, mode, job, Programs, cfg, stale, unsaved>>

EnterDirectory ==
    /\ mode = "run" /\ "Enter" \in Keys /\ HasEntry /\ AtCursor(ap).is_dir
    /\ panels' = [panels EXCEPT ![active] = nos_panel_enter(disk, @)]
    /\ UNCHANGED <<Files, active, mode, job, Programs, cfg, stale, unsaved>>

Tab ==
    /\ mode = "run" /\ "Tab" \in Keys
    /\ active' = Other(active)
    /\ UNCHANGED <<Files, panels, mode, job, Programs, cfg, stale, unsaved>>

Refresh ==
    /\ mode = "run" /\ "Ctrl+R" \in Keys
    /\ ReadBoth(disk) /\ stale' = FALSE
    /\ UNCHANGED <<Files, active, mode, job, Programs, cfg, unsaved>>

(* Enter or F3 on a file; an error shows one line and waits for a key.      *)
action_view ==
    /\ mode = "run" /\ "F3" \in Keys /\ HasEntry /\ ~ AtCursor(ap).is_dir
    /\ LET path == nos_panel_cursor_path(ap)
       IN  IF PathExists(disk, path)
           THEN /\ \E text \in Text[disk[path].size] : viewer' = nos_viewer_open(text)
                /\ mode' = "viewer" /\ UNCHANGED job
           ELSE mode' = "msg" /\ job' = [NoJob EXCEPT !.cmd = "view"] /\ UNCHANGED viewer
    /\ UNCHANGED <<Files, panels, active, choice, launcher, cfg, stale, unsaved>>

ViewerScrolls ==
    /\ mode = "viewer"
    /\ \E key \in {"F4", "Up", "Down", "PgUp", "PgDn", "Home", "End"} : viewer' = ViewerKey(viewer, key)
    /\ UNCHANGED <<Files, panels, active, mode, job, choice, launcher, cfg, stale, unsaved>>

ViewerCloses ==
    /\ mode = "viewer" /\ mode' = "run" /\ viewer' = NoViewer
    /\ UNCHANGED <<Files, panels, active, job, choice, launcher, cfg, stale, unsaved>>

------------------------------------------------------------------------------
(* Other programs: the prompt of F12 and what the launcher starts.  The     *)
(* shell does not read its panels again when they come back.                *)
OtherProgram ==
    /\ \/ Unchanged
       \/ \E p \in DOMAIN disk : ~ disk[p].is_dir /\ Changed(Without(p))
       \/ \E dir \in {Home}, name \in NewNames :
             Writable(Append(dir, name)) /\ Changed(With(disk, Append(dir, name), File(1, 1)))
    /\ stale' = TRUE

dos_shell ==
    /\ mode = "run" /\ "F12" \in Keys
    /\ OtherProgram
    /\ UNCHANGED <<panels, active, mode, job, Programs, cfg, unsaved>>

action_launch ==
    /\ mode = "run" /\ "F9" \in Keys
    /\ \E menu \in Menus :
          IF lau_load(menu).entries = <<>>
          THEN mode' = "msg" /\ job' = [NoJob EXCEPT !.cmd = "launch"] /\ UNCHANGED launcher
          ELSE mode' = "launcher" /\ launcher' = lau_load(menu) /\ UNCHANGED job
    /\ UNCHANGED <<Files, panels, active, choice, viewer, cfg, stale, unsaved>>

LauncherMoves ==
    /\ mode = "launcher"
    /\ \E key \in {"Up", "Down", "Home", "End"} : launcher' = LauncherKey(launcher, key)
    /\ UNCHANGED <<Files, panels, active, mode, job, choice, viewer, cfg, stale, unsaved>>

LauncherLeft ==
    /\ mode = "launcher" /\ mode' = "run" /\ launcher' = NoLauncher
    /\ \/ OtherProgram                              \* Enter
       \/ UNCHANGED <<Files, stale>>                \* Esc
    /\ UNCHANGED <<panels, active, job, choice, viewer, cfg, unsaved>>

------------------------------------------------------------------------------
(* F2: the order of the panels, and the file that remembers it.             *)
action_config ==
    /\ mode = "run" /\ "F2" \in Keys
    /\ mode' = "sort"
    /\ choice' = CHOOSE k \in 1 .. 4 : SortOrder[k] = panels["left"].sort
    /\ UNCHANGED <<Files, panels, active, job, viewer, launcher, cfg, stale, unsaved>>

SortMoves ==
    /\ mode = "sort"
    /\ choice' \in {1, 4} \cup ({choice - 1, choice + 1} \cap 1 .. 4)
    /\ UNCHANGED <<Files, panels, active, mode, job, viewer, launcher, cfg, stale, unsaved>>

nos_cfg_save(order) ==
    \/ cfg' = order /\ unsaved' = FALSE
    \/ cfg' \in {cfg, "torn"} /\ unsaved' = TRUE

(* mutant: the panel on the right is forgotten *)
SortChosenLeft ==
    /\ mode = "sort" /\ mode' = "run" /\ choice' = 1
    /\ \/ /\ panels' = [panels EXCEPT !["left"] =
                nos_panel_read_dir(disk, [@ EXCEPT !.sort = SortOrder[choice]])]
          /\ stale' = FALSE
          /\ nos_cfg_save(SortOrder[choice])
       \/ UNCHANGED <<panels, stale, cfg, unsaved>>
    /\ UNCHANGED <<Files, active, job, viewer, launcher>>

SortChosen ==
    /\ mode = "sort" /\ mode' = "run" /\ choice' = 1
    /\ \/ /\ panels' = [side \in Sides |->
                nos_panel_read_dir(disk, [panels[side] EXCEPT !.sort = SortOrder[choice]])]
          /\ stale' = FALSE
          /\ nos_cfg_save(SortOrder[choice])
       \/ UNCHANGED <<panels, stale, cfg, unsaved>>      \* Esc
    /\ UNCHANGED <<Files, active, job, viewer, launcher>>

nos_cfg_load == IF cfg \in Sorts THEN cfg ELSE "name"

action_quit ==
    /\ mode = "run" /\ "F10" \in Keys /\ mode' = "exit"
    /\ UNCHANGED <<Files, panels, active, job, Programs, cfg, stale, unsaved>>

(* Where DOS may be when the shell is started again.                        *)
Directories == {Home} \cup {p \in DOMAIN disk : disk[p].is_dir}

(* main: the panels are read, and once more if another order was saved.     *)
Starts ==
    /\ mode = "exit" /\ mode' = "run"
    /\ \E cwd \in Directories :
          panels' = [side \in Sides |->
              nos_panel_read_dir(disk, [nos_panel_init(disk, cwd) EXCEPT !.sort = nos_cfg_load])]
    /\ active' = "left" /\ stale' = FALSE
    /\ UNCHANGED <<Files, job, Programs, cfg, unsaved>>

Init ==
    /\ disk \in Start
    /\ panels = [side \in Sides |-> nos_panel_init(disk, Home)]
    /\ active = "left" /\ mode = "run" /\ job = NoJob
    /\ choice = 1 /\ viewer = NoViewer /\ launcher = NoLauncher
    /\ cfg = "none" /\ stale = FALSE /\ unsaved = FALSE /\ short = FALSE /\ changes = 0

Next ==
    \/ action_copy \/ action_move \/ action_mkdir \/ action_delete
    \/ EntersDestination \/ Cancels \/ Copy \/ Move \/ Mkdir \/ Delete \/ MsgDismissed
    \/ MoveCursor \/ EnterDirectory \/ Tab \/ Refresh
    \/ action_view \/ ViewerScrolls \/ ViewerCloses
    \/ dos_shell \/ action_launch \/ LauncherMoves \/ LauncherLeft
    \/ action_config \/ SortMoves \/ SortChosen
    \/ action_quit \/ Starts

Spec == Init /\ [][Next]_vars

------------------------------------------------------------------------------
Modes == {"run", "msg", "input", "confirm", "sort", "viewer", "launcher", "exit"}

(* Type invariant: the disk is a tree of directories.  The cursor of an     *)
(* empty list is 0 when it was read, and -1 after a key.                    *)
TypeOK ==
    /\ \A p \in DOMAIN disk : p \in Path /\ Creatable(p) /\ disk[p].is_dir \in BOOLEAN
    /\ \A side \in Sides :
          LET p == panels[side]
          IN  /\ p.path \in Path
              /\ p.cursor \in {0} \cup -1 .. Len(p.files) - 1 /\ p.scroll \in -1 .. Len(p.files)
              /\ p.sort \in Sorts
    /\ active \in Sides /\ mode \in Modes
    /\ choice \in 1 .. 4 /\ cfg \in Sorts \cup {"none", "torn"}
    /\ stale \in BOOLEAN /\ unsaved \in BOOLEAN /\ short \in BOOLEAN
    /\ changes \in 0 .. MaxChanges

(* The entry that the next key of a panel acts on has a row of the screen.  *)
OnScreen(p) ==
    p.files # <<>> => 0 <= p.scroll /\ p.scroll <= p.cursor /\ p.cursor < p.scroll + INNER_H

PanelCursorVisible == TypeOK /\ \A side \in Sides : OnScreen(panels[side])

(* What the next key acts on is on the screen: the entry of either panel,   *)
(* after any sequence of keys, directories entered and lists read again     *)
(* (panel.c 393-411, 214-268); the program that Enter would start; and the  *)
(* viewer is not past its last page, nor stays there when F4 changes what a *)
(* row is (viewer.c 206-265).                                               *)
CursorVisible ==
    /\ PanelCursorVisible
    /\ mode = "viewer" => viewer.top \in 0 .. MaxTop(viewer)
    /\ mode = "launcher" =>
          /\ launcher.cursor \in 0 .. Len(launcher.entries) - 1
          /\ 0 <= launcher.scroll /\ launcher.scroll <= launcher.cursor
          /\ launcher.cursor < launcher.scroll + LAU_VROWS

(* After every command, done or failed, both panels show what is on the     *)
(* disk, each in its order, unless another program ran since they were      *)
(* read; also when a command changes or removes the directory the other     *)
(* panel is in.                                                             *)
PanelsShowDisk ==
    ~ stale => \A side \in Sides :
        panels[side].files = nos_panel_read_dir(disk, panels[side]).files

Named(p) ==
    IF job.cmd = "mkdir" THEN p \notin DOMAIN disk /\ disk'[p].is_dir
    ELSE Inside(p, job.src) \/ (job.dst # <<>> /\ Inside(p, job.dst))

Same(p) == p \in DOMAIN disk \cap DOMAIN disk' /\ disk[p] = disk'[p]

(* What a command of the shell changes on the disk lies in the source or    *)
(* the destination that its dialog named, or is the new directory: never    *)
(* what a panel has come to show meanwhile (shell.c 286-430).               *)
OnlyNamedChanges ==
    [][(mode \in {"input", "confirm"}) =>
        \A p \in DOMAIN disk \cup DOMAIN disk' : Same(p) \/ Named(p)]_vars

Kept ==
    \/ job.src \in DOMAIN disk' /\ disk'[job.src] = disk[job.src]
    \/ job.dst \in DOMAIN disk' /\ disk'[job.dst].size = disk[job.src].size

(* What F6 moves is afterwards at its destination or still at its source,   *)
(* whatever DOS refuses (shell.c 358-369), unless the two are the same file *)
(* or the copy was cut short.                                               *)
MoveKeepsContents ==
    [][mode = "input" /\ job.cmd = "move" /\ job.src \in DOMAIN disk
        /\ job.dst \notin {<<>>, job.src} /\ ~ short' => Kept]_vars

(* The same of every move, as the reference of the keys has it              *)
(* (src/dist/docs/COMMANDS.TXT: "F6   Move / rename").                      *)
MoveLosesNothing ==
    [][mode = "input" /\ job.cmd = "move" /\ job.src \in DOMAIN disk /\ job.dst # <<>> => Kept]_vars

(* Both panels are in one order, the one that SHELL.CFG holds for the next  *)
(* start, unless it could not be written (shell.c 437-447, 546-555).        *)
OneOrder ==
    /\ panels["left"].sort = panels["right"].sort
    /\ cfg \in Sorts /\ ~ unsaved => panels["left"].sort = cfg

(* The viewer loses nothing (viewer.c 51-80): a line begins at the top and  *)
(* behind each line feed that is not the last byte, and the k-th line is    *)
(* all that stands between the k-th such place and the end of the line, for *)
(* as many lines as there is room for.                                      *)
ViewerShowsAll ==
    mode = "viewer" =>
        LET text == viewer.text
            feeds == {i \in DOMAIN text : text[i] = "\n"}
            begins == {0} \cup {i \in feeds : i < Len(text)}
            ends == feeds \cup {Len(text) + 1}
            last(i, j) == IF j \in feeds /\ j - 1 > i /\ text[j - 1] = "\r" THEN j - 2 ELSE j - 1
            number(i) == Cardinality({b \in begins : b <= i})
        IN  /\ \/ Len(viewer.lines) = Cardinality(begins)
               \/ Len(viewer.lines) = VWR_MAX_LINES /\ VWR_MAX_LINES < Cardinality(begins)
            /\ \A i \in begins, j \in ends :
                  i < j /\ feeds \cap (i + 1 .. j - 1) = {} /\ number(i) <= Len(viewer.lines)
                  => viewer.lines[number(i)] = SubSeq(text, i + 1, last(i, j))
==============================================================================
