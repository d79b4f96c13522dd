---------------------------- MODULE RegistryTable ----------------------------
(***************************************************************************)
(* The table of installed packages and what src/npkg/registry.c does to it *)
(* in memory.  INSTALLED.DB holds the table, one entry a line; it is       *)
(* Absent or a sequence of entries.                                        *)
(*                                                                         *)
(* An entry keeps its id and version; directory, category and date travel  *)
(* with the version and are not told apart.  Two ids are the same value    *)
(* when nos_stricmp says so.                                               *)
(***************************************************************************)
EXTENDS NpkgFiles, Naturals, SequencesExt

CONSTANTS Versions,     \* version strings
          MaxEntries    \* NOS_REG_MAX_ENTRIES, 64 in the code

Entry == [id : Ids, ver : Versions]

(* A missing file is an empty registry; lines past the table are not read.  *)
reg_load(f) ==
    IF f = Absent THEN <<>>
    ELSE SubSeq(f, 1, IF Len(f) < MaxEntries THEN Len(f) ELSE MaxEntries)

Has(reg, id) == \E i \in DOMAIN reg : reg[i].id = id

Position(reg, id) ==
    CHOOSE i \in DOMAIN reg : reg[i].id = id /\ \A j \in 1 .. (i - 1) : reg[j].id # id

Added(reg, e) ==
    IF Has(reg, e.id) THEN [reg EXCEPT ![Position(reg, e.id)] = e] ELSE Append(reg, e)

(* mutant: the shift loop stops one entry early, the last one is lost *)
ShiftedShort(reg, id) ==
    [k \in 1 .. (Len(reg) - 1) |->
        IF k < Position(reg, id) \/ k = Len(reg) - 1 THEN reg[k] ELSE reg[k + 1]]

(* The entries after the one removed are shifted down.                      *)
Without(reg, id) == RemoveAt(reg, Position(reg, id))
==============================================================================
