------------------------------ MODULE Registry ------------------------------
(***************************************************************************)
(* The installed-package database, src/npkg/registry.c.  Every public call *)
(* reloads INSTALLED.DB into g_reg; a call that modifies it rewrites the   *)
(* file through INSTALLED.TMP.  DOS runs one program at a time, so a call  *)
(* is interrupted only by the power failing or a file call going wrong: a  *)
(* full disk, a read-only file.                                            *)
(***************************************************************************)
EXTENDS RegistryTable

ASSUME RegistryAssumption ==
    /\ MaxEntries \in Nat \ {0}
    /\ Absent \notin Seq(Entry)
    /\ Absent \notin Versions

VARIABLES db,           \* INSTALLED.DB
          dbTmp,        \* INSTALLED.TMP
          g_reg,        \* the file-scope table; memset by every reg_load
          pc,           \* the DOS call reg_save makes next, or "idle"
          rc,           \* what the last call returned
          call,         \* history: what the last call asks for
          before,       \* history: the table when the last call began
          faults        \* history: the kinds of fault met so far

vars == <<db, dbTmp, g_reg, pc, rc, call, before, faults>>

Db == INSTANCE TmpRename WITH file <- db, tmp <- dbTmp

------------------------------------------------------------------------------
Calls == [id : Ids, ver : Versions \cup {Absent}]

Init ==
    /\ db = Absent
    /\ dbTmp = Absent
    /\ g_reg = <<>>
    /\ pc = "idle"
    /\ rc = "none"
    /\ call \in Calls
    /\ before = <<>>
    /\ faults = {}

(* mutant: the old file is removed before the new one is written *)
ModifyRemoveFirst(c, reg) ==
    /\ g_reg' = reg
    /\ before' = reg_load(db)
    /\ db' = Absent
    /\ call' = c
    /\ pc' = "write"
    /\ rc' = "none"
    /\ UNCHANGED <<dbTmp, faults>>

(* reg_load, the change of the table in memory, and the call of reg_save.   *)
Modify(c, reg) ==
    /\ g_reg' = reg
    /\ before' = reg_load(db)
    /\ call' = c
    /\ pc' = "write"
    /\ rc' = "none"
    /\ UNCHANGED <<db, dbTmp, faults>>

(* A return before reg_save.                                                *)
ReturnAtOnce(code) ==
    /\ g_reg' = reg_load(db)
    /\ before' = reg_load(db)
    /\ rc' = code
    /\ UNCHANGED <<db, dbTmp, pc, call, faults>>

nos_registry_add(e) ==
    /\ pc = "idle"
    /\ \/ /\ Has(reg_load(db), e.id) \/ Len(reg_load(db)) < MaxEntries
          /\ Modify(e, Added(reg_load(db), e))
       \/ /\ ~ Has(reg_load(db), e.id)
          /\ Len(reg_load(db)) >= MaxEntries
          /\ ReturnAtOnce("full")

nos_registry_remove(id) ==
    /\ pc = "idle"
    /\ \/ /\ Has(reg_load(db), id)
          /\ Modify([id |-> id, ver |-> Absent], Without(reg_load(db), id))
       \/ /\ ~ Has(reg_load(db), id)
          /\ ReturnAtOnce("notfound")

(* A call of DOS that fails, and a write that comes up short unnoticed.      *)
FileError == faults' = faults \cup {"io"}
ShortWrite == faults' = faults \cup {"short"}

(* mutant: fclose is forgotten, what is still buffered misses the rename *)
SaveUnflushed ==
    /\ pc = "write"
    /\ Db!WriteTmp(g_reg) \/ Db!WriteTmpShort(g_reg)
    /\ pc' = "remove"
    /\ UNCHANGED <<g_reg, rc, call, before, faults>>

(* reg_save, first part: write INSTALLED.TMP.  fopen may fail and end the   *)
(* call; a later write may come up short without being noticed.             *)
SaveWrite ==
    /\ pc = "write"
    /\ \/ Db!WriteTmp(g_reg) /\ pc' = "remove" /\ UNCHANGED <<rc, faults>>
       \/ Db!WriteTmpShort(g_reg) /\ pc' = "remove" /\ ShortWrite /\ UNCHANGED rc
       \/ pc' = "idle" /\ rc' = "write" /\ FileError /\ UNCHANGED <<db, dbTmp>>
    /\ UNCHANGED <<g_reg, call, before>>

(* reg_save, second part: remove(INSTALLED.DB), its result ignored.         *)
SaveRemove ==
    /\ pc = "remove"
    /\ \/ Db!RemoveOld /\ UNCHANGED faults
       \/ FileError /\ UNCHANGED <<db, dbTmp>>
    /\ pc' = "rename"
    /\ UNCHANGED <<g_reg, rc, call, before>>

(* reg_save, third part: rename(INSTALLED.TMP, INSTALLED.DB) and return.    *)
(* DOS refuses the rename while the old file is there; it may fail when the *)
(* old file is gone too.                                                    *)
SaveRename ==
    /\ pc = "rename"
    /\ \/ Db!RenameTmp /\ rc' = "ok" /\ UNCHANGED faults
       \/ rc' = "write" /\ FileError /\ UNCHANGED <<db, dbTmp>>
    /\ pc' = "idle"
    /\ UNCHANGED <<g_reg, call, before>>

(* The machine loses power inside reg_save and is started again.  Files     *)
(* stay as they are, a TMP being written may be cut anywhere.  g_reg is not *)
(* cleared here: nothing reads it before the next reg_load.                 *)
PowerLoss ==
    /\ pc # "idle"
    /\ pc' = "idle"
    /\ rc' = "none"
    /\ faults' = faults \cup {"power"}
    /\ \/ UNCHANGED <<db, dbTmp>>
       \/ pc = "write" /\ Db!WriteTmpShort(g_reg)
    /\ UNCHANGED <<g_reg, call, before>>

Step == SaveWrite \/ SaveRemove \/ SaveRename

Next ==
    \/ \E e \in Entry : nos_registry_add(e)
    \/ \E id \in Ids : nos_registry_remove(id)
    \/ Step
    \/ PowerLoss

Spec == Init /\ [][Next]_vars
------------------------------------------------------------------------------
Table == {s \in Seq(Entry) : Len(s) <= MaxEntries}

(* Type invariant: both files hold tables of at most MaxEntries entries.    *)
TypeOK ==
    /\ db = Absent \/ db \in Table
    /\ dbTmp = Absent \/ dbTmp \in Table
    /\ g_reg \in Table
    /\ call \in Calls
    /\ before \in Table
    /\ faults \subseteq {"power", "io", "short"}
    /\ pc \in {"idle", "write", "remove", "rename"}
    /\ rc \in {"none", "ok", "full", "notfound", "write"}

Unique(reg) == \A i, j \in DOMAIN reg : reg[i].id = reg[j].id => i = j

(* A package is listed once, however often it is reinstalled: the search in *)
(* nos_registry_add and the shift in nos_registry_remove agree, in memory   *)
(* and in both files, through any sequence of calls and faults.             *)
UniqueIds ==
    /\ Unique(g_reg)
    /\ db # Absent => Unique(db)
    /\ dbTmp # Absent => Unique(dbTmp)

(* What a program started now would read, were the running call finished.   *)
View == reg_load(IF pc = "rename" /\ db = Absent THEN dbTmp ELSE db)

Promise == INSTANCE InstalledSet WITH
    None <- Absent,
    installed <- [id \in Ids |->
                    IF Has(View, id) THEN View[Position(View, id)].ver ELSE Absent],
    phase <- IF pc = "idle" THEN "idle"
             ELSE IF pc = "rename" /\ db = Absent THEN "done" ELSE "asked",
    faulty <- faults # {}

(* The three DOS calls of reg_save are one indivisible update of the set of *)
(* installed packages, the one the caller asked for, and OK is returned     *)
(* after it only; a fault loses entries at worst.                           *)
ImplementsInstalledSet == Promise!Spec

(* While no write comes up short unnoticed, INSTALLED.DB is never partial:  *)
(* it is a whole table or it is gone, wherever the power fails and whichever *)
(* DOS call does.  It may be gone: of the claim of registry.c:5-7 this is   *)
(* the part that holds.                                                     *)
NoPartialDb == "short" \notin faults => db \in {Absent, before, g_reg}

(* During and after every call one of the two files holds the whole table,  *)
(* the one from before the call or the one the call was to leave, wherever  *)
(* the power fails and whichever DOS call does.                             *)
OneCopySurvives ==
    "short" \notin faults => reg_load(db) \in {before, g_reg} \/ dbTmp = g_reg

(* What a write of the table leaves, whole or cut short.                    *)
Written == {g_reg} \cup Db!CutShort(g_reg)

(* A call that reports a failure has left the database as it was, with one  *)
(* exception: when the rename fails after the removal the database is gone, *)
(* and what was written of the new table is in INSTALLED.TMP, where no      *)
(* program looks for it.                                                    *)
FailureLosesNothing ==
    pc = "idle" /\ rc \in {"write", "full", "notfound"} =>
        \/ reg_load(db) = before
        \/ rc = "write" /\ db = Absent /\ dbTmp \in Written

(* OK means that the table of the call is in INSTALLED.DB: the whole table, *)
(* or what a write that came up short left of it, and nothing older.        *)
OkMeansSaved ==
    pc = "idle" /\ rc = "ok" => db \in Written /\ ("short" \notin faults => db = g_reg)
==============================================================================
