------------------------------ MODULE TmpRename ------------------------------
(***************************************************************************)
(* How NPKG replaces a text file.  DOS rename() refuses to overwrite, so   *)
(* the program writes the whole new text to a second file, removes the     *)
(* first and renames the second over it: three separate DOS calls.  The    *)
(* same three calls rewrite INSTALLED.DB (reg_save), LAUNCHER.CFG          *)
(* (nos_install_remove_launcher) and AUTOEXEC.BAT (remove_autoexec_block). *)
(* A file is Absent or a sequence of lines.                                *)
(***************************************************************************)
EXTENDS Naturals, Sequences

CONSTANT Absent      \* the value of a file that does not exist

VARIABLES file,      \* the file being replaced
          tmp        \* the .TMP file next to it

(* The texts a write of `text` can leave when it is cut short: fprintf,    *)
(* fputs and fclose are never checked.                                     *)
CutShort(text) == {SubSeq(text, 1, n) : n \in 0 .. (Len(text) - 1)}

(* fopen(TMP, "w"), one fprintf per line, fclose.                          *)
WriteTmp(text) == tmp' = text /\ UNCHANGED file

(* The disk fills, or the power goes, in the middle of the write.          *)
WriteTmpShort(text) == tmp' \in CutShort(text) /\ UNCHANGED file

(* remove(FILE)                                                            *)
RemoveOld == file' = Absent /\ UNCHANGED tmp

(* rename(TMP, FILE), which DOS grants only when FILE is gone.             *)
RenameTmp ==
    /\ file = Absent
    /\ tmp # Absent
    /\ file' = tmp
    /\ tmp' = Absent
==============================================================================
