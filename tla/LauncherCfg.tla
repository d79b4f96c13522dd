----------------------------- MODULE LauncherCfg -----------------------------
(***************************************************************************)
(* NPKG and C:\NOS\SHELL\LAUNCHER.CFG: nos_install_register_launcher       *)
(* appends a package's two lines, nos_install_remove_launcher copies the   *)
(* file to LAUNCH.TMP without them and puts the copy in its place (both in *)
(* src/npkg/install.c).  Between the commands the user edits the file.     *)
(* NpkgProofs reads this module together with Npkg: where the two would    *)
(* use one name, the name here says launcher.                              *)
(***************************************************************************)
EXTENDS LauncherLines

CONSTANTS Own,          \* menu lines the user writes
          Stems,        \* the ids an id begins with: DOOM and DOOM2 for DOOM2
          MaxItems      \* bound: no line is added to a file of this length

(* What is left of a line: MenuLine(<<p>>) begins as the marker of p and is *)
(* none, MenuLine(<<>>) is part of anything else.                           *)
Remains == {<<>>} \cup {<<p>> : p \in Ids}
Item == Items(Own \cup Remains)

ASSUME LauncherAssumption ==
    /\ LongEntries \subseteq Ids
    /\ Stems \in [Ids -> SUBSET Ids] /\ \A p \in Ids : p \in Stems[p]
    /\ MaxItems \in Nat
    /\ Own \cap Remains = {}
    /\ Absent \notin Seq(Item)

VARIABLES launcher,     \* LAUNCHER.CFG
          launcherTmp,  \* LAUNCH.TMP
          ragged,       \* has the last line of LAUNCHER.CFG no end?
          raggedTmp,    \* ... of LAUNCH.TMP?
          stage,        \* where the removal stands, "idle" without one
          owner,        \* the package being removed
          orig,         \* what the removal reads, <<>> without one
          torn          \* history: was a write cut short, or made to a ragged file?

launcherVars == <<launcher, launcherTmp, ragged, raggedTmp, stage, owner, orig, torn>>

File == INSTANCE TmpRename WITH file <- launcher, tmp <- launcherTmp

(* A user may leave the last line without an end.                           *)
LauncherInit ==
    /\ \/ launcher = Absent /\ ragged = FALSE
       \/ launcher \in {<<MenuLine(u)>> : u \in Own} /\ ragged \in BOOLEAN
    /\ launcherTmp = Absent /\ raggedTmp = FALSE
    /\ stage = "idle"
    /\ owner \in Ids
    /\ orig = <<>>
    /\ torn = FALSE

------------------------------------------------------------------------------
(* Writes that come up short, and writes after one.                         *)

Scrap(l) ==
    IF l.kind = "marker" THEN MenuLine(<<l.of>>)
    ELSE IF l.kind = "user" /\ l.of \in Remains THEN l
    ELSE MenuLine(<<>>)

(* What a line can be once it is cut: all of it but its end, a piece, or,   *)
(* with #NPKG:DOOM2 cut to #NPKG:DOOM, the marker of another package.       *)
Parts(l) ==
    {l, Scrap(l)}
    \cup {Marker(q) : q \in UNION {Stems[p] : p \in {p \in Ids : Scrap(l) = MenuLine(<<p>>)}}}

(* The texts a write that comes up short can leave of these lines: some of  *)
(* them whole, or the last of them cut.                                     *)
Cuts(lines) ==
    {[text |-> SubSeq(lines, 1, n), open |-> FALSE] : n \in 0 .. (Len(lines) - 1)}
    \cup UNION {{[text |-> Append(SubSeq(lines, 1, n - 1), part), open |-> TRUE] :
                    part \in Parts(lines[n])} : n \in 1 .. Len(lines)}

(* The first line written runs on from a last line without an end: neither  *)
(* is read any more, unless the piece before it just fills the buffer.      *)
Glued(f, lines) == Front(f) \o <<Scrap(Last(f))>> \o Tail(lines)

Grown(lines) ==
    \/ launcher' = Text(launcher) \o lines
    \/ ragged /\ lines # <<>> /\ launcher' = Glued(launcher, lines)

(* mutant: the marker is written without looking for one first *)
RegisterAgain(p) ==
    /\ stage = "idle"
    /\ Len(Text(launcher)) < MaxItems
    /\ Grown(Registration(p)) /\ ragged' = FALSE /\ torn' = (torn \/ ragged)
    /\ UNCHANGED <<launcherTmp, raggedTmp, stage, owner, orig>>

(* nos_install_register_launcher: nothing when the marker is there already; *)
(* a full disk may take a part of the two lines.                            *)
nos_install_register_launcher(p) ==
    /\ stage = "idle"
    /\ Len(Text(launcher)) < MaxItems
    /\ ~ HasMarker(PiecesOf(Text(launcher)), p)
    /\ \/ Grown(Registration(p)) /\ ragged' = FALSE /\ torn' = (torn \/ ragged)
       \/ \E cut \in Cuts(Registration(p)) :
             /\ Grown(cut.text)
             /\ ragged' = (cut.open \/ (cut.text = <<>> /\ ragged))
             /\ torn' = TRUE
    /\ UNCHANGED <<launcherTmp, raggedTmp, stage, owner, orig>>

(* The user adds a menu line; an editor sets it on a line of its own.       *)
UserEdit(u) ==
    /\ stage = "idle"
    /\ Len(Text(launcher)) < MaxItems
    /\ launcher' = Append(Text(launcher), MenuLine(u))
    /\ ragged' \in BOOLEAN
    /\ UNCHANGED <<launcherTmp, raggedTmp, stage, owner, orig, torn>>

(* nos_install_remove_launcher opens both files, LAUNCH.TMP empty until     *)
(* fclose; when one cannot be opened, nothing changes.                      *)
BeginRemove(p) ==
    /\ stage = "idle"
    /\ launcher # Absent
    /\ launcherTmp' = <<>> /\ raggedTmp' = FALSE
    /\ owner' = p
    /\ orig' = launcher
    /\ stage' = "copy"
    /\ UNCHANGED <<launcher, ragged, torn>>

(* LAUNCH.TMP gets a part of what is written to it.                         *)
TmpCut(lines) ==
    \E cut \in Cuts(lines) : launcherTmp' = cut.text /\ raggedTmp' = cut.open

(* The copy loop and the two fcloses.                                       *)
CopyMenu ==
    /\ stage = "copy"
    /\ \/ launcherTmp' = StripLauncher(orig, owner) /\ UNCHANGED <<raggedTmp, torn>>
       \/ TmpCut(StripLauncher(orig, owner)) /\ torn' = TRUE
    /\ stage' = "remove"
    /\ UNCHANGED <<launcher, ragged, owner, orig>>

(* remove(LAUNCHER.CFG) and rename(LAUNCH.TMP, LAUNCHER.CFG): either may    *)
(* fail, the results are ignored.                                           *)
RemoveMenu ==
    /\ stage = "remove"
    /\ \/ File!RemoveOld /\ ragged' = FALSE
       \/ UNCHANGED <<launcher, launcherTmp, ragged>>
    /\ stage' = "rename"
    /\ UNCHANGED <<raggedTmp, owner, orig, torn>>

RenameMenu ==
    /\ stage = "rename"
    /\ \/ File!RenameTmp /\ ragged' = raggedTmp /\ raggedTmp' = FALSE
       \/ UNCHANGED <<launcher, launcherTmp, ragged, raggedTmp>>
    /\ stage' = "idle" /\ orig' = <<>>
    /\ UNCHANGED <<owner, torn>>

(* The power fails while a registration is being removed; a copy still      *)
(* being written may be cut anywhere.                                       *)
LauncherPowerLoss ==
    /\ stage # "idle"
    /\ stage' = "idle" /\ orig' = <<>>
    /\ \/ UNCHANGED <<launcherTmp, raggedTmp>>
       \/ stage = "copy" /\ TmpCut(StripLauncher(orig, owner))
    /\ UNCHANGED <<launcher, ragged, owner, torn>>

LauncherNext ==
    \/ \E p \in Ids : nos_install_register_launcher(p) \/ BeginRemove(p)
    \/ \E u \in Own : UserEdit(u)
    \/ CopyMenu \/ RemoveMenu \/ RenameMenu
    \/ LauncherPowerLoss

LauncherSpec == LauncherInit /\ [][LauncherNext]_launcherVars

------------------------------------------------------------------------------
(* Type invariant.                                                          *)
LauncherTypeOK ==
    /\ launcher = Absent \/ launcher \in Seq(Item)
    /\ launcherTmp = Absent \/ launcherTmp \in Seq(Item)
    /\ ragged \in BOOLEAN /\ (ragged => launcher # Absent /\ launcher # <<>>)
    /\ raggedTmp \in BOOLEAN
    /\ stage \in {"idle", "copy", "remove", "rename"}
    /\ owner \in Ids
    /\ orig \in Seq(Item)
    /\ torn \in BOOLEAN

(* No other id begins with this one.                                        *)
Stemless(p) == \A q \in Ids : p \in Stems[q] => q = p

(* Through any sequence of installs, removals, user edits, failed calls and *)
(* power failures a package has one marker at most, so that registering it  *)
(* again after a failed command adds no second menu line.  Short writes do  *)
(* not change that for a package whose id begins no other's; DOOM may get a *)
(* second marker from the marker of DOOM2 cut short.                        *)
OneMarkerEach ==
    /\ LauncherTypeOK
    /\ \A p \in Ids : ~ torn \/ Stemless(p) =>
          \A i, j \in DOMAIN Text(launcher) :
              launcher[i] = Marker(p) /\ launcher[j] = Marker(p) => i = j

(* install.h:194, "Removes the #NPKG:<id> marker line and the immediately   *)
(* following entry line": these two, wherever they stand between lines of   *)
(* the user and of other packages, and no other, as long as every write was *)
(* complete and the entry of the package fits the buffer.  Of the other     *)
(* lines a long one is split, none is lost.                                 *)
RemovesMarkerAndEntry ==
    LET p == PiecesOf(orig)
    IN  stage = "remove" /\ ~ torn /\ owner \notin LongEntries =>
            launcherTmp = Picked(p, {i \in DOMAIN p : p[i].kind = "user" \/ p[i].of # owner})
==============================================================================
