--------------------------- MODULE AutoexecRewrite ---------------------------
(***************************************************************************)
(* NPKG and C:\AUTOEXEC.BAT: nos_update_autoexec (src/npkg/install.c)      *)
(* appends the block of a package being installed, remove_autoexec_block   *)
(* (src/npkg/npkg.c) copies the file line by line to AUTOEXEC.TMP without  *)
(* the blocks of the package being removed and puts the copy in its place. *)
(* In between the user edits the file: it is the machine's start-up script.*)
(***************************************************************************)
EXTENDS AutoexecLines, NpkgFiles

CONSTANTS Own,          \* lines the user writes
          MaxLines,     \* bound: no line is added to a file of this length
          MaxTorn       \* bound: writes that come up short

Line == [kind : {"user"}, of : Own] \cup [kind : {"empty"}]
        \cup [kind : {"start", "set", "end"}, of : Ids]

ASSUME AutoexecAssumption ==
    /\ MaxLines \in Nat /\ MaxTorn \in Nat
    /\ Absent \notin Seq(Line)

VARIABLES auto,         \* C:\AUTOEXEC.BAT
          autoTmp,      \* C:\AUTOEXEC.TMP
          pc,
          id,           \* the package being removed
          pos,          \* the line fgets reads next
          skipping,     \* the local flag
          kept,         \* numbers of the lines written to fout
          orig,         \* history: the text when the last removal began
          torn          \* history: writes that came up short so far

vars == <<auto, autoTmp, pc, id, pos, skipping, kept, orig, torn>>

File == INSTANCE TmpRename WITH file <- auto, tmp <- autoTmp

Init ==
    /\ auto \in {<<>>} \cup {<<UserLine(u)>> : u \in Own}
    /\ autoTmp = Absent
    /\ pc = "idle"
    /\ id \in Ids
    /\ pos = 1
    /\ skipping = FALSE
    /\ kept = <<>>
    /\ orig = <<>>
    /\ torn = 0

Short == torn < MaxTorn /\ torn' = torn + 1

Grown(added) == auto' = Text(auto) \o added

(* nos_update_autoexec.  A disk that fills leaves a first part of the       *)
(* block: no fprintf is checked.                                            *)
nos_update_autoexec(p) ==
    /\ pc = "idle"
    /\ Len(Text(auto)) < MaxLines
    /\ \/ Grown(Block(p)) /\ UNCHANGED torn
       \/ /\ \E part \in File!CutShort(Block(p)) : Grown(part)
          /\ Short
    /\ UNCHANGED <<autoTmp, pc, id, pos, skipping, kept, orig>>

(* The user adds a line at the end.                                         *)
UserEdit(u) ==
    /\ pc = "idle"
    /\ Len(Text(auto)) < MaxLines
    /\ Grown(<<UserLine(u)>>)
    /\ UNCHANGED <<autoTmp, pc, id, pos, skipping, kept, orig, torn>>

(* remove_autoexec_block: both files are opened, AUTOEXEC.TMP empty until   *)
(* fclose; when one cannot be, nothing changes.                             *)
BeginRemove(p) ==
    /\ pc = "idle"
    /\ auto # Absent
    /\ autoTmp' = <<>>
    /\ id' = p
    /\ pos' = 1
    /\ skipping' = FALSE
    /\ kept' = <<>>
    /\ orig' = auto
    /\ pc' = "copy"
    /\ UNCHANGED <<auto, torn>>

(* mutant: the end marker itself is copied to the new file *)
CopyEndMark ==
    \/ /\ ~ skipping /\ auto[pos] = StartMark(id)
       /\ skipping' = TRUE /\ UNCHANGED kept
    \/ /\ skipping /\ auto[pos] = EndMark(id)
       /\ skipping' = FALSE /\ kept' = Append(kept, pos)
    \/ /\ skipping /\ auto[pos] # EndMark(id)
       /\ UNCHANGED <<skipping, kept>>
    \/ /\ ~ skipping /\ auto[pos] # StartMark(id)
       /\ kept' = Append(kept, pos) /\ UNCHANGED skipping

(* mutant: skipping ends at the end marker of any package *)
StopAtAnyEnd ==
    \/ /\ ~ skipping /\ auto[pos] = StartMark(id)
       /\ skipping' = TRUE /\ UNCHANGED kept
    \/ /\ skipping /\ auto[pos].kind = "end"
       /\ skipping' = FALSE /\ UNCHANGED kept
    \/ /\ skipping /\ auto[pos].kind # "end"
       /\ UNCHANGED <<skipping, kept>>
    \/ /\ ~ skipping /\ auto[pos] # StartMark(id)
       /\ kept' = Append(kept, pos) /\ UNCHANGED skipping

(* One line of the while loop.                                              *)
CopyOrSkip ==
    \/ /\ ~ skipping /\ auto[pos] = StartMark(id)
       /\ skipping' = TRUE /\ UNCHANGED kept
    \/ /\ skipping /\ auto[pos] = EndMark(id)
       /\ skipping' = FALSE /\ UNCHANGED kept
    \/ /\ skipping /\ auto[pos] # EndMark(id)
       /\ UNCHANGED <<skipping, kept>>
    \/ /\ ~ skipping /\ auto[pos] # StartMark(id)
       /\ kept' = Append(kept, pos) /\ UNCHANGED skipping

ReadLine ==
    /\ pc = "copy"
    /\ pos <= Len(auto)
    /\ CopyOrSkip
    /\ pos' = pos + 1
    /\ UNCHANGED <<auto, autoTmp, pc, id, orig, torn>>

(* mutant: the old file is removed before the copy is closed *)
CloseAndRemove ==
    /\ pc = "copy"
    /\ pos > Len(auto)
    /\ auto' = Absent
    /\ pc' = "rename"
    /\ UNCHANGED <<autoTmp, id, pos, skipping, kept, orig, torn>>

(* End of file: both files are closed, the copy is now on the disk, short   *)
(* when the disk filled up.                                                 *)
CloseCopy ==
    /\ pc = "copy"
    /\ pos > Len(auto)
    /\ \/ File!WriteTmp(Lines(auto, kept)) /\ UNCHANGED torn
       \/ File!WriteTmpShort(Lines(auto, kept)) /\ Short
    /\ pc' = "remove"
    /\ UNCHANGED <<id, pos, skipping, kept, orig>>

(* remove(AUTOEXEC.BAT) and rename(AUTOEXEC.TMP, AUTOEXEC.BAT): either may  *)
(* fail, the results are ignored.                                           *)
RemoveAuto ==
    /\ pc = "remove"
    /\ File!RemoveOld \/ UNCHANGED <<auto, autoTmp>>
    /\ pc' = "rename"
    /\ UNCHANGED <<id, pos, skipping, kept, orig, torn>>

(* The locals of remove_autoexec_block are gone.                            *)
LocalsGone == pos' = 1 /\ skipping' = FALSE /\ kept' = <<>>

RenameAuto ==
    /\ pc = "rename"
    /\ File!RenameTmp \/ UNCHANGED <<auto, autoTmp>>
    /\ pc' = "idle"
    /\ LocalsGone
    /\ UNCHANGED <<id, orig, torn>>

(* The power fails while a block is being removed; a copy still being       *)
(* written may be cut anywhere.                                             *)
PowerLoss ==
    /\ pc # "idle"
    /\ pc' = "idle"
    /\ \/ UNCHANGED <<auto, autoTmp>>
       \/ pc = "copy" /\ File!WriteTmpShort(Lines(auto, kept))
    /\ LocalsGone
    /\ UNCHANGED <<id, orig, torn>>

Step == ReadLine \/ CloseCopy \/ RemoveAuto \/ RenameAuto

Next ==
    \/ \E p \in Ids : nos_update_autoexec(p) \/ BeginRemove(p)
    \/ \E u \in Own : UserEdit(u)
    \/ Step
    \/ PowerLoss

Spec == Init /\ [][Next]_vars

------------------------------------------------------------------------------
(* Type invariant.                                                          *)
TypeOK ==
    /\ auto = Absent \/ auto \in Seq(Line)
    /\ autoTmp = Absent \/ autoTmp \in Seq(Line)
    /\ pc \in {"idle", "copy", "remove", "rename"}
    /\ id \in Ids
    /\ pos \in Nat \ {0}
    /\ skipping \in BOOLEAN
    /\ kept \in Seq(DOMAIN orig)
    /\ orig \in Seq(Line)
    /\ torn \in 0 .. MaxTorn

(* At the end of the loop the lines copied are exactly the lines outside    *)
(* the blocks of the package, in their order: the flag of the loop computes *)
(* what the comment at npkg.c:94-99 describes, whatever the file holds.     *)
CopiesOutsideBlocks ==
    pc = "copy" /\ pos > Len(auto) =>
        /\ \A i \in DOMAIN auto :
              (\E k \in DOMAIN kept : kept[k] = i) <=> ~ InBlock(auto, id, i)
        /\ \A j, k \in DOMAIN kept : j < k => kept[j] < kept[k]

(* While no write came up short, removing a package takes its own lines and nothing *)
(* else: not a line of the user, not a line of another package, and none of *)
(* its own stays but the empty line before its block.                       *)
RemovesOwnLinesOnly ==
    pc = "remove" /\ torn = 0 =>
        autoTmp = Picked(auto, {i \in DOMAIN auto : auto[i].kind \in {"user", "empty"} \/ auto[i].of # id})

(* A call that fails, or the power failing, inside the rewrite can leave    *)
(* the machine without its start-up script, never without a whole copy of   *)
(* it: AUTOEXEC.TMP then holds all the removal was to keep, as far as every *)
(* write was complete.                                                      *)
OneCopySurvives == auto = Absent /\ torn = 0 => autoTmp = StripBlocks(orig, id)
==============================================================================
