---------------------------- MODULE AutoexecLines ----------------------------
(***************************************************************************)
(* What NPKG reads and writes in C:\AUTOEXEC.BAT.  A line is one of the    *)
(* user's, or belongs to a package's block, which an empty line precedes:  *)
(*     REM --- NPKG: <ID> <VER> ---                                        *)
(*     SET PATH=%PATH%;<dir> and SET <VAR>=<value>                         *)
(*     REM --- NPKG end: <ID> ---                                          *)
(* The SET lines of a package are one line here.  The markers are matched  *)
(* up to and including the blank after the id, so DOOM is not DOOM2.       *)
(***************************************************************************)
EXTENDS TextLines

UserLine(u) == [kind |-> "user", of |-> u]
EmptyLine == [kind |-> "empty"]
StartMark(id) == [kind |-> "start", of |-> id]
SetLine(id) == [kind |-> "set", of |-> id]
EndMark(id) == [kind |-> "end", of |-> id]

(* nos_update_autoexec: the lines appended for a package.                   *)
Block(id) == <<EmptyLine, StartMark(id), SetLine(id), EndMark(id)>>

(* Line i of f is inside a block of id: a start marker stands at or above   *)
(* it, with no end marker between the two.                                  *)
InBlock(f, id, i) ==
    \E s \in 1 .. i :
        /\ f[s] = StartMark(id)
        /\ \A j \in (s + 1) .. (i - 1) : f[j] # EndMark(id)

(* The lines of f that are numbered in `kept`, in the order of `kept`.      *)
Lines(f, kept) == [k \in DOMAIN kept |-> f[kept[k]]]

(* mutant: the markers are compared without their id, every block goes *)
StripAnyBlock(f, id) == Picked(f, {i \in DOMAIN f : f[i].kind \in {"user", "empty"}})

(* mutant: the copy goes on without looking once a block was found *)
StripFirstBlock(f, id) ==
    Picked(f, {i \in DOMAIN f : ~ InBlock(f, id, i) \/ \E j \in 1 .. (i - 1) : f[j] = EndMark(id)})

(* f without the blocks of id.                                              *)
StripBlocks(f, id) == Picked(f, {i \in DOMAIN f : ~ InBlock(f, id, i)})
==============================================================================
