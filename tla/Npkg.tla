-------------------------------- MODULE Npkg --------------------------------
(***************************************************************************)
(* NPKG.EXE, src/npkg/npkg.c: UPDATE, INFO, PROFILE, INSTALL and REMOVE    *)
(* with the files they share, INSTALLED.DB, AUTOEXEC.BAT, LAUNCHER.CFG,    *)
(* the cached index and the cached definitions.  The user runs one command *)
(* at a time; the machine may lose power between any two DOS calls; HTGET  *)
(* and the extractors end as they like.                                    *)
(*                                                                         *)
(* How each file is rewritten, and what a short write does to it, is in    *)
(* Registry, AutoexecRewrite and LauncherCfg; here the calls succeed or    *)
(* the file cannot be opened, and the question is what the three files say *)
(* of a package together.                                                  *)
(***************************************************************************)
EXTENDS RegistryTable, AutoexecLines, LauncherLines, FiniteSets

CONSTANTS EnvIds,       \* packages with SetPath or SetVar
          MenuIds,      \* packages with a [LAUNCHER] section
          MaxLines,     \* bound: INSTALL starts when AUTOEXEC.BAT is shorter
          MaxCuts,      \* bound: power failures inside a command
          MaxRefused,   \* bound: times a file refuses to open for writing
          LiteralIds    \* packages whose [REMOVE] names their directory itself

ASSUME NpkgAssumption ==
    /\ EnvIds \subseteq Ids /\ MenuIds \subseteq Ids /\ LiteralIds \subseteq Ids
    /\ MaxEntries \in Nat \ {0} /\ MaxLines \in Nat
    /\ MaxCuts \in Nat /\ MaxRefused \in Nat

VARIABLES index,        \* ids listed in the cached PACKAGES.IDX, or Absent
          defs,         \* C:\NOS\NPKG\DEFS\<ID>.NPK
          files,        \* ids with files in their InstallDir
          db, dbTmp, auto, autoTmp, menu, menuTmp,
          g_reg, g_pkg,
          cmd, id,      \* the last command and its argument
          pc,
          status,       \* its exit code, or "none"
          cuts,         \* history: power failures so far
          refused       \* history: times a file refused to open so far

caches == <<index, defs>>
regFiles == <<db, dbTmp>>
autoFiles == <<auto, autoTmp>>
menuFiles == <<menu, menuTmp>>
memory == <<g_reg, g_pkg>>
mishaps == <<cuts, refused>>
vars == <<caches, files, regFiles, autoFiles, menuFiles, memory, cmd, id, pc, status,
          mishaps>>

DbFile == INSTANCE TmpRename WITH file <- db, tmp <- dbTmp
AutoFile == INSTANCE TmpRename WITH file <- auto, tmp <- autoTmp
MenuFile == INSTANCE TmpRename WITH file <- menu, tmp <- menuTmp

(* What a cached definition parses to.  An error page, or a definition cut  *)
(* before [INSTALL], has no InstallDir; one cut later has lost [LAUNCHER]   *)
(* and [REMOVE], which come last.                                           *)
Defs == {"page", "cut"} \cup Versions

HasInstall(d) == d # "page"
HasTail(d) == d \in Versions

(* HTGET fetching a definition: the exit code, and the file that is there.  *)
Downloads ==
    [ok : {TRUE}, file : Versions] \cup [ok : BOOLEAN, file : {Absent, "page", "cut"}]

Init ==
    /\ index = Absent
    /\ defs = [p \in Ids |-> Absent]
    /\ files = {}
    /\ db = Absent /\ dbTmp = Absent
    /\ auto = <<UserLine("own")>> /\ autoTmp = Absent
    /\ menu = <<MenuLine("own")>> /\ menuTmp = Absent
    /\ g_reg = <<>> /\ g_pkg = "page"
    /\ cmd = "none" /\ id \in Ids
    /\ pc = "idle" /\ status = "none"
    /\ cuts = 0 /\ refused = 0

------------------------------------------------------------------------------
(* The commands up to their first change.                                   *)

(* NPKG ends: its memory goes with it.  The next command starts from zeroed *)
(* data, which parses as no definition at all.                              *)
Exit(code) == pc' = "idle" /\ status' = code /\ g_reg' = <<>> /\ g_pkg' = "page"

Goto(step) == pc' = step /\ UNCHANGED status
Continue(step) == Goto(step) /\ UNCHANGED memory

(* fopen for writing: granted or refused.                                   *)
Opens == UNCHANGED mishaps
Refuses == refused < MaxRefused /\ refused' = refused + 1 /\ UNCHANGED cuts

Started(c, p) ==
    /\ pc = "idle"
    /\ cmd' = c /\ id' = p
    /\ UNCHANGED <<caches, files, regFiles, autoFiles, menuFiles, mishaps>>

(* nos_registry_is_installed and nos_registry_find load the table.          *)
Loaded(step) == g_reg' = reg_load(db) /\ UNCHANGED g_pkg /\ Goto(step)

(* ensure_index and nos_index_find.                                         *)
Listed(p) == index # Absent /\ p \in index

(* NPKG UPDATE: HTGET writes straight over the cached index.  nos_index_load *)
(* finds nothing in an error page, and some of the packages in a file that  *)
(* was cut short.                                                           *)
cmd_update ==
    /\ pc = "idle"
    /\ cmd' = "update"
    /\ \E ok \in BOOLEAN :
          /\ index' \in {index} \cup SUBSET Ids
          /\ Exit(IF ok /\ index' # Absent THEN "done" ELSE "failed")
    /\ UNCHANGED <<defs, files, regFiles, autoFiles, menuFiles, id, mishaps>>

(* NPKG INFO and NPKG PROFILE look for a definition; a failed INFO is done. *)
cmd_info(p) ==
    /\ \E c \in {"info", "profile"} : Started(c, p)
    /\ \/ Listed(p) /\ Continue("def")
       \/ ~ Listed(p) /\ Exit("failed")

(* mutant: the check for an installed package is dropped *)
InstallAgain(p) ==
    /\ Len(Text(auto)) < MaxLines
    /\ Started("install", p)
    /\ \/ Listed(p) /\ Loaded("def")
       \/ ~ Listed(p) /\ Exit("failed")

(* mutant: the package counts as installed once its directory is there *)
InstallUnlessThere(p) ==
    /\ Len(Text(auto)) < MaxLines
    /\ Started("install", p)
    /\ \/ p \notin files /\ Listed(p) /\ Loaded("def")
       \/ (p \in files \/ ~ Listed(p)) /\ Exit("failed")

cmd_install(p) ==
    /\ Len(Text(auto)) < MaxLines
    /\ Started("install", p)
    /\ \/ ~ Has(reg_load(db), p) /\ Listed(p) /\ Loaded("def")
       \/ (Has(reg_load(db), p) \/ ~ Listed(p)) /\ Exit("failed")

(* The user may answer N.                                                   *)
cmd_remove(p) ==
    /\ Started("remove", p)
    /\ \/ Has(reg_load(db), p) /\ (Loaded("def") \/ Exit("done"))
       \/ ~ Has(reg_load(db), p) /\ Exit("failed")

------------------------------------------------------------------------------
(* The steps of a command.                                                  *)

(* The definition is there: each command makes of it what it wants.         *)
Parsed(file) ==
    \/ cmd = "install" /\ g_pkg' = file /\ UNCHANGED g_reg /\ Goto("archive")
    \/ cmd = "remove" /\ g_pkg' = file /\ UNCHANGED g_reg /\ Goto("lines")
    \/ cmd \in {"info", "profile"} /\ Exit("done")

(* nos_install_fetch_def and nos_npkg_parse: a cached file is taken as it   *)
(* is, and what HTGET leaves behind is cached whatever its exit code says.  *)
FetchDef ==
    /\ pc = "def"
    /\ \E w \in IF defs[id] # Absent THEN [ok : {TRUE}, file : {defs[id]}]
                ELSE Downloads :
          /\ defs' = [defs EXCEPT ![id] = w.file]
          /\ IF w.ok /\ w.file # Absent
             THEN Parsed(w.file)
             ELSE \/ cmd = "remove" /\ Continue("auto_copy")
                  \/ cmd = "info" /\ Exit("done")
                  \/ cmd \in {"install", "profile"} /\ Exit("failed")
    /\ UNCHANGED <<index, files, regFiles, autoFiles, menuFiles, cmd, id, mishaps>>

(* mutant: a failed download starts the command over *)
FetchWithoutEnd ==
    /\ pc = "archive"
    /\ \/ Continue("def") /\ files' = files
       \/ Continue("auto_add") /\ files' = files \cup {id}
    /\ UNCHANGED <<caches, regFiles, autoFiles, menuFiles, cmd, id, mishaps>>

(* nos_install_run up to POST-INSTALL: the mandatory keys, nos_fetch_archive *)
(* (module Fetch), nos_mkdirs and the extractor, which may fail half way.   *)
FetchAndExtract ==
    /\ pc = "archive"
    /\ \/ Exit("failed") /\ files' = files
       \/ HasInstall(g_pkg) /\ Exit("failed") /\ files' = files \cup {id}
       \/ HasInstall(g_pkg) /\ Continue("auto_add") /\ files' = files \cup {id}
    /\ UNCHANGED <<caches, regFiles, autoFiles, menuFiles, cmd, id, mishaps>>

(* nos_update_autoexec; a file that does not open ends the command.         *)
AutoAppend ==
    /\ pc = "auto_add"
    /\ \/ id \notin EnvIds /\ Opens /\ Continue("reg_add") /\ UNCHANGED auto
       \/ id \in EnvIds /\ Opens /\ Continue("reg_add") /\ auto' = Text(auto) \o Block(id)
       \/ id \in EnvIds /\ Refuses /\ Exit("failed") /\ UNCHANGED auto
    /\ UNCHANGED <<caches, files, regFiles, autoTmp, menuFiles, cmd, id>>

(* nos_registry_add up to reg_save; a full table is only worth a warning.   *)
RegAdd ==
    /\ pc = "reg_add"
    /\ LET table == reg_load(db)
           e == [id |-> id, ver |-> g_pkg]
       IN  \/ /\ Has(table, id) \/ Len(table) < MaxEntries
              /\ g_reg' = Added(table, e)
              /\ Goto("reg_write")
           \/ /\ ~ Has(table, id) /\ Len(table) >= MaxEntries
              /\ g_reg' = table
              /\ Goto("menu_add")
    /\ UNCHANGED <<caches, files, regFiles, autoFiles, menuFiles, g_pkg, cmd, id, mishaps>>

(* nos_registry_remove up to reg_save; cmd_remove has seen the entry.       *)
RegDrop ==
    /\ pc = "reg_drop"
    /\ Has(reg_load(db), id)
    /\ g_reg' = Without(reg_load(db), id)
    /\ Goto("reg_write")
    /\ UNCHANGED <<caches, files, regFiles, autoFiles, menuFiles, g_pkg, cmd, id, mishaps>>

(* reg_save in its three DOS calls; a failure is only worth a warning.      *)
Saved == IF cmd = "install" THEN Continue("menu_add") ELSE Exit("done")

SaveWrite ==
    /\ pc = "reg_write"
    /\ \/ Opens /\ DbFile!WriteTmp(g_reg) /\ Continue("reg_remove")
       \/ Refuses /\ Saved /\ UNCHANGED regFiles
    /\ UNCHANGED <<caches, files, autoFiles, menuFiles, cmd, id>>

SaveRemove ==
    /\ pc = "reg_remove"
    /\ DbFile!RemoveOld
    /\ Continue("reg_rename")
    /\ UNCHANGED <<caches, files, autoFiles, menuFiles, cmd, id, mishaps>>

SaveRename ==
    /\ pc = "reg_rename"
    /\ DbFile!RenameTmp
    /\ Saved
    /\ UNCHANGED <<caches, files, autoFiles, menuFiles, cmd, id, mishaps>>

(* nos_install_register_launcher: nothing without [LAUNCHER] or when the    *)
(* marker is there; a failure is only worth a warning.                      *)
MenuAppend ==
    /\ pc = "menu_add"
    /\ LET wanted == /\ id \in MenuIds /\ HasTail(g_pkg)
                     /\ ~ HasMarker(PiecesOf(Text(menu)), id)
       IN  \/ wanted /\ Opens /\ menu' = Text(menu) \o Registration(id)
           \/ wanted /\ Refuses /\ UNCHANGED menu
           \/ ~ wanted /\ Opens /\ UNCHANGED menu
    /\ Exit("done")
    /\ UNCHANGED <<caches, files, regFiles, autoFiles, menuTmp, cmd, id>>

(* The [REMOVE] lines are given to COMMAND.COM as they stand: NPKG expands  *)
(* %INSTALLDIR% in [POST-INSTALL] only, and COMMAND.COM has no variable of  *)
(* that name, so DELTREE finds nothing to delete.  Where the directory is   *)
(* named, DELTREE may fail or be missing; what system() returns is ignored. *)
RunRemoveLines ==
    /\ pc = "lines"
    /\ \/ HasTail(g_pkg) /\ id \in LiteralIds /\ files' = files \ {id}
       \/ files' = files
    /\ Continue("auto_copy")
    /\ UNCHANGED <<caches, regFiles, autoFiles, menuFiles, cmd, id, mishaps>>

(* remove_autoexec_block                                                    *)
AutoCopy ==
    /\ pc = "auto_copy"
    /\ \/ auto # Absent /\ Opens /\ AutoFile!WriteTmp(StripBlocks(auto, id)) /\ Continue("auto_remove")
       \/ auto = Absent /\ Opens /\ Continue("menu_copy") /\ UNCHANGED autoFiles
       \/ Refuses /\ Continue("menu_copy") /\ UNCHANGED autoFiles
    /\ UNCHANGED <<caches, files, regFiles, menuFiles, cmd, id>>

AutoRemove ==
    /\ pc = "auto_remove"
    /\ AutoFile!RemoveOld
    /\ Continue("auto_rename")
    /\ UNCHANGED <<caches, files, regFiles, menuFiles, cmd, id, mishaps>>

AutoRename ==
    /\ pc = "auto_rename"
    /\ AutoFile!RenameTmp
    /\ Continue("menu_copy")
    /\ UNCHANGED <<caches, files, regFiles, menuFiles, cmd, id, mishaps>>

(* nos_install_remove_launcher                                              *)
MenuCopy ==
    /\ pc = "menu_copy"
    /\ \/ menu # Absent /\ Opens /\ MenuFile!WriteTmp(StripLauncher(menu, id)) /\ Continue("menu_remove")
       \/ menu = Absent /\ Opens /\ Continue("reg_drop") /\ UNCHANGED menuFiles
       \/ Refuses /\ Continue("reg_drop") /\ UNCHANGED menuFiles
    /\ UNCHANGED <<caches, files, regFiles, autoFiles, cmd, id>>

MenuRemove ==
    /\ pc = "menu_remove"
    /\ MenuFile!RemoveOld
    /\ Continue("menu_rename")
    /\ UNCHANGED <<caches, files, regFiles, autoFiles, cmd, id, mishaps>>

MenuRename ==
    /\ pc = "menu_rename"
    /\ MenuFile!RenameTmp
    /\ Continue("reg_drop")
    /\ UNCHANGED <<caches, files, regFiles, autoFiles, cmd, id, mishaps>>

(* The power fails between two steps.                                       *)
PowerLoss ==
    /\ pc # "idle"
    /\ cuts < MaxCuts /\ cuts' = cuts + 1
    /\ Exit("none")
    /\ UNCHANGED <<caches, files, regFiles, autoFiles, menuFiles, cmd, id, refused>>

Step ==
    \/ FetchDef \/ FetchAndExtract
    \/ AutoAppend \/ RegAdd \/ SaveWrite \/ SaveRemove \/ SaveRename \/ MenuAppend
    \/ RunRemoveLines \/ AutoCopy \/ AutoRemove \/ AutoRename
    \/ MenuCopy \/ MenuRemove \/ MenuRename \/ RegDrop

Next ==
    \/ cmd_update
    \/ \E p \in Ids : cmd_info(p) \/ cmd_install(p) \/ cmd_remove(p)
    \/ Step
    \/ PowerLoss

(* A command that was started runs on until it ends.                        *)
Spec == Init /\ [][Next]_vars /\ WF_vars(Step)

------------------------------------------------------------------------------
Table == {s \in Seq([id : Ids, ver : Defs]) : Len(s) <= MaxEntries}

AutoLine == [kind : {"user"}, of : {"own"}] \cup [kind : {"empty"}]
            \cup [kind : {"start", "set", "end"}, of : Ids]
MenuItem == Items({"own"})

(* A file that is not there is no text and no table, and what is left of a  *)
(* broken definition is none of a version.                                  *)
ASSUME NpkgValues ==
    /\ Absent \notin Seq([id : Ids, ver : Defs])
    /\ Absent \notin Seq(AutoLine) /\ Absent \notin Seq(MenuItem)
    /\ Absent \notin Defs /\ {"page", "cut"} \cap Versions = {}

(* Type invariant.                                                          *)
TypeOK ==
    /\ index \in {Absent} \cup SUBSET Ids
    /\ defs \in [Ids -> {Absent} \cup Defs]
    /\ files \subseteq Ids
    /\ \A f \in {db, dbTmp} : f = Absent \/ f \in Table
    /\ \A f \in {auto, autoTmp} : f = Absent \/ f \in Seq(AutoLine)
    /\ \A f \in {menu, menuTmp} : f = Absent \/ f \in Seq(MenuItem)
    /\ g_reg \in Table
    /\ g_pkg \in Defs
    /\ cmd \in {"none", "update", "info", "profile", "install", "remove"}
    /\ id \in Ids
    /\ pc \in {"idle", "def", "archive", "auto_add", "reg_add", "reg_write", "reg_remove",
               "reg_rename", "menu_add", "lines", "auto_copy", "auto_remove",
               "auto_rename", "menu_copy", "menu_remove", "menu_rename", "reg_drop"}
    /\ status \in {"none", "done", "failed"}
    /\ cuts \in 0 .. MaxCuts /\ refused \in 0 .. MaxRefused

Registered(p) == Has(reg_load(db), p)
BlocksOf(p) == Cardinality({i \in DOMAIN Text(auto) : auto[i] = StartMark(p)})

(* Between commands the three files and the disk agree on what is           *)
(* installed: a registered package has its files, AUTOEXEC holds one block  *)
(* for each registered package that has variables and none for another, the *)
(* menu an entry for each registered package whose definition names one,    *)
(* whatever downloads, extractions and DELTREEs failed, and in whatever     *)
(* order packages came and went, as long as the power held and no file      *)
(* refused to open.                                                         *)
FilesAgree ==
    /\ TypeOK
    /\ pc = "idle" /\ cuts = 0 /\ refused = 0 =>
          \A p \in Ids :
              /\ Registered(p) => p \in files
              /\ BlocksOf(p) = IF Registered(p) /\ p \in EnvIds THEN 1 ELSE 0
              /\ HasMarker(Text(menu), p)
                      <=> Registered(p) /\ p \in MenuIds /\ HasTail(defs[p])

(* A REMOVE that goes through leaves nothing of its package in any of the   *)
(* three files, whatever power failures came before: blocks written twice,  *)
(* by an INSTALL that was cut off and one that was not, both go.  A file    *)
(* that refuses to open keeps its lines, REMOVE says so at most.  Its       *)
(* directory is another matter: REMOVE never learns what DELTREE did.       *)
RemoveLeavesNothing ==
    pc = "idle" /\ cmd = "remove" /\ status = "done" /\ ~ Registered(id) /\ refused = 0 =>
        BlocksOf(id) = 0 /\ ~ HasMarker(Text(menu), id)

(* The files as the next program finds them, once the rewrite under way is  *)
(* done.                                                                    *)
AutoNow == Text(IF pc = "auto_rename" /\ auto = Absent THEN autoTmp ELSE auto)
MenuNow == Text(IF pc = "menu_rename" /\ menu = Absent THEN menuTmp ELSE menu)
RegNow == reg_load(IF pc = "reg_rename" THEN dbTmp ELSE db)

AutoLinesOf(p) == {StartMark(p), SetLine(p), EndMark(p), EmptyLine}
MenuLinesOf(p) == {Marker(p), MenuEntry(p)}
EntriesOf(p) == [id : {p}, ver : Defs]

(* What is left of a text or a table without the lines in `own`.            *)
Rest(text, own) == Picked(text, {i \in DOMAIN text : text[i] \notin own})

SameBut(own, old, new) == old = new \/ Rest(old, own) = Rest(new, own)

(* No step of a command for one package changes a line of the user or of    *)
(* another package in AUTOEXEC.BAT or LAUNCHER.CFG, its registration, its   *)
(* cached definition or its files; also where an earlier command was cut    *)
(* off.                                                                     *)
OthersUntouched ==
    [][~ PowerLoss =>
          /\ SameBut(AutoLinesOf(id'), AutoNow, AutoNow')
          /\ SameBut(MenuLinesOf(id'), MenuNow, MenuNow')
          /\ SameBut(EntriesOf(id'), RegNow, RegNow')
          /\ \A q \in Ids \ {id'} : defs'[q] = defs[q] /\ (q \in files' <=> q \in files)]_vars

(* Every command ends.                                                      *)
CommandReturns == pc # "idle" ~> pc = "idle"
==============================================================================
