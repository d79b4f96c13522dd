------------------------------- MODULE Panel --------------------------------
(***************************************************************************)
(* A file panel of NOS-SHELL, src/shell/panel.c, as operators on its        *)
(* record: the directory it shows, the list it read there, the cursor and   *)
(* the first row shown.  A path is the sequence of its drive and names; a   *)
(* disk says for every path that exists what is there.  Sizes, dates and    *)
(* the places of the names in the alphabet are numbers.                     *)
(***************************************************************************)
EXTENDS Integers, Sequences, FiniteSets, SequencesExt

CONSTANTS NameRank, ExtRank,    \* the order of the names; of their extensions, 0 for none
          INNER_H               \* rows of a panel

Names == DOMAIN NameRank
Path == {p \in Seq(STRING) : \A i \in 2 .. Len(p) : p[i] \in Names}

ASSUME PanelAssumption ==
    /\ Names \subseteq STRING \ {".."} /\ INNER_H \in Nat \ {0}
    /\ NameRank \in [Names -> Nat] /\ ExtRank \in [Names -> Nat]
    /\ \A a, b \in Names : NameRank[a] = NameRank[b] => a = b

Sorts == {"name", "ext", "size", "date"}

Directory == [is_dir |-> TRUE, size |-> 0, date |-> 0]
File(size, date) == [is_dir |-> FALSE, size |-> size, date |-> date]

Entry(name, at) == [name |-> name, is_dir |-> at.is_dir, size |-> at.size, date |-> at.date]
DotDot == Entry("..", Directory)

PathExists(disk, path) == path \in DOMAIN disk
IsDir(disk, path) == Len(path) = 1 \/ (PathExists(disk, path) /\ disk[path].is_dir)
Inside(path, dir) == IsPrefix(dir, path)

(* What DOS lists in a directory: nothing, if it is not there.              *)
Listing(disk, dir) ==
    {Entry(Last(p), disk[p]) : p \in {q \in DOMAIN disk : Len(q) > 1 /\ Front(q) = dir}}

------------------------------------------------------------------------------
(* Directories first, then by the key that is asked for, then by name.      *)
cmp_entries(sort, a, b) ==
    LET key(e) == CASE sort = "name" -> 0
                    [] sort = "ext"  -> ExtRank[e.name]
                    [] sort = "size" -> e.size
                    [] sort = "date" -> e.date
    IN  \/ a.is_dir /\ ~ b.is_dir
        \/ /\ a.is_dir = b.is_dir
           /\ \/ key(a) < key(b)
              \/ key(a) = key(b) /\ NameRank[a.name] < NameRank[b.name]

(* What qsort makes of a listing: the k-th entry has k - 1 before it.       *)
Sorted(disk, dir, sort) ==
    LET all == Listing(disk, dir)
    IN  [k \in 1 .. Cardinality(all) |->
            CHOOSE e \in all : Cardinality({a \in all : cmp_entries(sort, a, e)}) = k - 1]

(* ".." stays out of the sort; the cursor goes to the top.                  *)
nos_panel_read_dir(disk, p) ==
    [p EXCEPT !.files = (IF Len(p.path) > 1 THEN <<DotDot>> ELSE <<>>) \o Sorted(disk, p.path, p.sort),
              !.cursor = 0, !.scroll = 0]

nos_panel_init(disk, cwd) ==
    nos_panel_read_dir(disk, [path |-> cwd, files |-> <<>>, cursor |-> 0, scroll |-> 0, sort |-> "name"])

(* The entry under the cursor; indices start at 0 as in the code.           *)
AtCursor(p) == p.files[p.cursor + 1]

(* On an empty list both end at -1.                                         *)
nos_panel_move_cursor(p, delta) ==
    LET wanted == IF p.cursor + delta < 0 THEN 0 ELSE p.cursor + delta
        cursor == IF wanted >= Len(p.files) THEN Len(p.files) - 1 ELSE wanted
        scroll == IF cursor < p.scroll THEN cursor ELSE p.scroll
    IN  [p EXCEPT !.cursor = cursor,
                  !.scroll = IF cursor >= scroll + INNER_H THEN cursor - INNER_H + 1 ELSE scroll]

(* ".." cuts the last name off, but not the drive.                          *)
nos_panel_enter(disk, p) ==
    nos_panel_read_dir(disk,
        [p EXCEPT !.path = IF AtCursor(p).name = ".."
                           THEN (IF Len(@) > 1 THEN Front(@) ELSE @)
                           ELSE Append(@, AtCursor(p).name)])

nos_panel_cursor_path(p) ==
    IF p.files = <<>> THEN p.path ELSE Append(p.path, AtCursor(p).name)
==============================================================================
