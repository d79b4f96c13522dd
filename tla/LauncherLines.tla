---------------------------- MODULE LauncherLines ----------------------------
(***************************************************************************)
(* What NPKG reads and writes in C:\NOS\SHELL\LAUNCHER.CFG, the menu of    *)
(* the shell's F9 launcher.  A package with a [LAUNCHER] section owns two  *)
(* lines, its marker and its entry:                                        *)
(*     #NPKG:<ID>                                                          *)
(*     <label>|<dir>|<command>                                             *)
(* Both functions read the file through a 128-byte buffer.  An entry may   *)
(* be longer (20 + 64 + 64 characters and two bars): fgets then returns it *)
(* in two pieces, and a rewrite makes them two lines.                      *)
(***************************************************************************)
EXTENDS TextLines, NpkgFiles, SequencesExt

CONSTANT LongEntries    \* packages whose entry does not fit the buffer

MenuLine(u) == [kind |-> "user", of |-> u]
Marker(id) == [kind |-> "marker", of |-> id]
MenuEntry(id) == [kind |-> "entry", of |-> id]

(* What may stand in the file, where the user writes the lines in own.      *)
Items(own) == [kind : {"user"}, of : own]
              \cup [kind : {"marker", "entry"}, of : Ids]
              \cup [kind : {"head", "rest"}, of : LongEntries]

(* nos_install_register_launcher: the lines appended for a package.         *)
Registration(id) == <<Marker(id), MenuEntry(id)>>

(* What successive calls of fgets return for one line of the file.          *)
Pieces(l) ==
    IF l.kind = "entry" /\ l.of \in LongEntries
    THEN <<[l EXCEPT !.kind = "head"], [l EXCEPT !.kind = "rest"]>>
    ELSE <<l>>

PiecesOf(f) == FlattenSeq([i \in DOMAIN f |-> Pieces(f[i])])

HasMarker(f, id) == \E i \in DOMAIN f : f[i] = Marker(id)

(* mutant: only the marker itself is dropped, the entry is copied *)
StripMarkerOnly(f, id) ==
    LET p == PiecesOf(f) IN Picked(p, {i \in DOMAIN p : p[i] # Marker(id)})

(* nos_install_remove_launcher: the marker of id is dropped with whatever   *)
(* piece follows it; every other piece is written as a line.                *)
StripLauncher(f, id) ==
    LET p == PiecesOf(f)
    IN  Picked(p, {i \in DOMAIN p : p[i] # Marker(id) /\ (i > 1 => p[i - 1] # Marker(id))})
==============================================================================
