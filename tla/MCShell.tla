------------------------------ MODULE MCShell -------------------------------
(* Drive C: with a file and a directory that holds another file, drive H:   *)
(* empty; and a disk whose files the four sort orders tell apart.           *)
EXTENDS Shell, TLC

MCHome == <<"C">>
MCNameRank == [A |-> 1, B |-> 2, D |-> 3, E |-> 4]
MCExtRank == [A |-> 2, B |-> 1, D |-> 0, E |-> 2]

MCFiles == {(<<"C", "A">> :> File(1, 0)) @@ (<<"C", "D">> :> Directory) @@ (<<"C", "D", "A">> :> File(2, 0))}
MCMany == {(<<"C", "A">> :> File(4, 1)) @@ (<<"C", "B">> :> File(2, 2))
           @@ (<<"C", "D">> :> Directory) @@ (<<"C", "E">> :> File(2, 0))}

(* Another drive, a new name, a name that a directory has.                  *)
MCTyped == {[path |-> <<"H">>, slash |-> TRUE], [path |-> <<"C", "B">>, slash |-> FALSE],
            [path |-> <<"C", "D">>, slash |-> FALSE]}
NothingTyped == {}

UpTo(n) == UNION {[1 .. k -> {"x", "\r", "\n"}] : k \in 0 .. n}
MCText == [size \in 0 .. 4 |-> UpTo(size)]
MCMenus == {<<>>, <<"comment", "blank">>, <<"no bar", "P1">>, <<"P1", "comment", "P2", "P3", "P4", "P5">>}
==============================================================================
