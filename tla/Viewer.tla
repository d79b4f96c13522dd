------------------------------- MODULE Viewer -------------------------------
(***************************************************************************)
(* The viewer and the launcher's menu, src/shell/viewer.c and launcher.c,   *)
(* as operators on their records: a text cut into lines and scrolled, a     *)
(* list of programs with a cursor.  A character is "\r", "\n", or any other *)
(* one.                                                                     *)
(***************************************************************************)
EXTENDS TextLines, Integers, SequencesExt

CONSTANTS VWR_BUF, VWR_MAX_LINES,   \* bytes and lines that are kept
          VWIN_H, HEX_ROW,          \* rows shown, bytes in a row: 23, 16
          LAU_MAX, LAU_VROWS        \* entries kept, rows shown: 32, 8

ASSUME ViewerAssumption ==
    {VWR_BUF, VWR_MAX_LINES, VWIN_H, HEX_ROW, LAU_MAX, LAU_VROWS} \subseteq Nat \ {0}

AtMost(n, s) == SubSeq(s, 1, IF Len(s) < n THEN Len(s) ELSE n)
NotBelow0(n) == IF n < 0 THEN 0 ELSE n

(* The loop of vwr_load_text: a line feed, and the carriage return before   *)
(* it, end a line; it stops when there is no room for another.              *)
Bare(line) == IF line # <<>> /\ Last(line) = "\r" THEN Front(line) ELSE line

Scan(acc, c) ==
    IF Len(acc.lines) = VWR_MAX_LINES THEN acc
    ELSE IF c = "\n" THEN [lines |-> Append(acc.lines, Bare(acc.open)), open |-> <<>>]
    ELSE [acc EXCEPT !.open = Append(@, c)]

Indexed(s) ==
    LET at[n \in 0 .. Len(s)] ==
            IF n = 0 THEN [lines |-> <<>>, open |-> <<>>] ELSE Scan(at[n - 1], s[n])
    IN  at[Len(s)]

(* mutant: what follows the last line feed is forgotten *)
LoadOnlyEnded(s) == IF Indexed(s).lines = <<>> THEN << <<>> >> ELSE Indexed(s).lines

vwr_load_text(s) ==
    LET all == Indexed(s)
        lines == IF all.open # <<>> /\ Len(all.lines) < VWR_MAX_LINES
                 THEN Append(all.lines, all.open) ELSE all.lines
    IN  IF lines = <<>> THEN << <<>> >> ELSE lines

nos_viewer_open(text) ==
    [text |-> AtMost(VWR_BUF, text), lines |-> vwr_load_text(AtMost(VWR_BUF, text)),
     top |-> 0, hex |-> FALSE]

Total(v) == IF v.hex THEN (Len(v.text) + HEX_ROW - 1) \div HEX_ROW ELSE Len(v.lines)
MaxTop(v) == NotBelow0(Total(v) - VWIN_H)

(* mutant: the row stays where it was *)
HexKeepsRow(v) == [v EXCEPT !.hex = ~ @]

HexMode(v) == [v EXCEPT !.hex = ~ @, !.top = 0]

ViewerKey(v, key) ==
    CASE key = "F4" -> HexMode(v)
      [] key = "Up" -> [v EXCEPT !.top = NotBelow0(@ - 1)]
      [] key = "Down" -> [v EXCEPT !.top = IF @ < MaxTop(v) THEN @ + 1 ELSE @]
      [] key = "PgUp" -> [v EXCEPT !.top = NotBelow0(@ - VWIN_H)]
      [] key = "PgDn" -> [v EXCEPT !.top = IF @ + VWIN_H > MaxTop(v) THEN MaxTop(v) ELSE @ + VWIN_H]
      [] key = "Home" -> [v EXCEPT !.top = 0]
      [] key = "End" -> [v EXCEPT !.top = MaxTop(v)]
      [] OTHER -> v

------------------------------------------------------------------------------
(* lau_load: a line is an entry if it has a bar and is no comment.          *)
lau_load(cfg) ==
    LET listed == {i \in DOMAIN cfg : cfg[i] \notin {"blank", "comment", "no bar"}}
    IN  [entries |-> AtMost(LAU_MAX, Picked(cfg, listed)), cursor |-> 0, scroll |-> 0]

LauncherEnd(l) ==
    [l EXCEPT !.cursor = Len(l.entries) - 1, !.scroll = NotBelow0(Len(l.entries) - LAU_VROWS)]

LauncherKey(l, key) ==
    CASE key = "Up" /\ l.cursor > 0 ->
            [l EXCEPT !.cursor = @ - 1, !.scroll = IF l.cursor - 1 < @ THEN l.cursor - 1 ELSE @]
      [] key = "Down" /\ l.cursor < Len(l.entries) - 1 ->
            [l EXCEPT !.cursor = @ + 1,
                      !.scroll = IF l.cursor + 1 >= @ + LAU_VROWS THEN l.cursor - LAU_VROWS + 2 ELSE @]
      [] key = "Home" -> [l EXCEPT !.cursor = 0, !.scroll = 0]
      [] key = "End" -> LauncherEnd(l)
      [] OTHER -> l
==============================================================================
